------------------------------- MODULE MipsProofs -------------------------------
(***************************************************************************)
(* Proofs about the processor, for every program, every data, every set of *)
(* registers and every width of a byte that is a power of two.             *)
(*                                                                         *)
(* First the arithmetic: division and powers of two, the bits and bytes of *)
(* words, signs and overflow, and the loop of Mult.  Then that Decode      *)
(* undoes Encode, that the types are kept, and the refinement: every step  *)
(* of a program that keeps to the rules (Disciplined) is a step of         *)
(* MipsArchitecture, on the registers with the pending load done.          *)
(***************************************************************************)
EXTENDS Mips, WellFoundedInduction, TLAPS
-----------------------------------------------------------------------------
(* Numbers.                                                                *)

\* The order of the natural numbers is well founded.
LEMMA NatOrder ==
  \E R : IsWellFoundedOn(R, Nat) /\ \A x, y \in Nat : x < y => <<x, y>> \in R
<1>1. \A x, y \in Nat : x < y => <<x, y>> \in OpToRel(<, Nat)
  BY Zenon DEF OpToRel
<1> QED BY <1>1, NatLessThanWellFounded, Zenon

\* Induction, with a set in the place of a predicate.
LEMMA Induct ==
  ASSUME NEW S, 0 \in S, \A n \in Nat : n \in S => n + 1 \in S
  PROVE  Nat \subseteq S
<1> SUFFICES ASSUME Nat \ S # {} PROVE FALSE
  OBVIOUS
<1>1. PICK R : IsWellFoundedOn(R, Nat) /\ \A x, y \in Nat : x < y => <<x, y>> \in R
  BY NatOrder
<1>2. Nat \ S \subseteq Nat
  OBVIOUS
<1>3. \E x \in Nat \ S : \A y \in Nat \ S : ~(<<y, x>> \in R)
  BY <1>1, <1>2, WFMin, Zenon
<1>4. PICK x \in Nat \ S : \A y \in Nat \ S : ~(<<y, x>> \in R)
  BY <1>3
<1>5. x \in Nat /\ x # 0 /\ x \notin S
  BY <1>4
<1>6. x - 1 \in Nat /\ (x - 1) + 1 = x /\ x - 1 < x
  BY <1>5
<1>7. x - 1 \notin S
  BY <1>5, <1>6
<1> QED BY <1>1, <1>4, <1>6, <1>7

\* A function may be defined by its value at 0 and a step from each value to the next.
Steps(f, x, h) == f[0] = x /\ \A n \in Nat : f[n + 1] = h[<<n, f[n]>>]

\* A function can be defined by recursion on the natural numbers.
LEMMA Recursion ==
  ASSUME NEW S, NEW x \in S, NEW h \in [Nat \X S -> S]
  PROVE  \E f \in [Nat -> S] : Steps(f, x, h)
<1> DEFINE IsUpTo(g, n) == g \in [0 .. n -> S] /\ g[0] = x
                           /\ \A i \in 0 .. n - 1 : g[i + 1] = h[<<i, g[i]>>]
           Exists == {n \in Nat : \E g : IsUpTo(g, n)}
<1>1. Nat \subseteq Exists
  <2>1. 0 \in Exists
    <3>1. IsUpTo([i \in 0 .. 0 |-> x], 0)
      OBVIOUS
    <3> QED BY <3>1
  <2>2. ASSUME NEW n \in Nat, n \in Exists PROVE n + 1 \in Exists
    <3>1. PICK g : IsUpTo(g, n)
      BY <2>2
    <3> DEFINE g2 == [i \in 0 .. n + 1 |-> IF i = n + 1 THEN h[<<n, g[n]>>] ELSE g[i]]
    <3>2. g[n] \in S /\ h[<<n, g[n]>>] \in S
      BY <3>1
    <3>3. g2 \in [0 .. n + 1 -> S] /\ g2[0] = x
      BY <3>1, <3>2
    <3>4. ASSUME NEW i \in 0 .. n PROVE g2[i + 1] = h[<<i, g2[i]>>]
      <4>1. g2[i] = g[i]
        OBVIOUS
      <4>2. CASE i = n
        <5>1. n + 1 \in 0 .. n + 1 /\ g2[n + 1] = h[<<n, g[n]>>]
          OBVIOUS
        <5> QED BY <4>1, <4>2, <5>1
      <4>3. CASE i # n
        <5>1. i \in 0 .. n - 1 /\ i + 1 \in 0 .. n + 1 /\ i + 1 # n + 1
          BY <4>3
        <5> QED BY <3>1, <4>1, <5>1
      <4> QED BY <4>2, <4>3
    <3>5. (n + 1) - 1 = n
      OBVIOUS
    <3> HIDE DEF g2
    <3>6. IsUpTo(g2, n + 1)
      BY <3>3, <3>4, <3>5
    <3> QED BY <3>6
  <2> HIDE DEF Exists
  <2> QED BY <2>1, <2>2, Induct
<1>2. ASSUME NEW m \in Nat, NEW n \in Nat, NEW g, NEW g2, IsUpTo(g, m), IsUpTo(g2, n)
      PROVE  \A i \in Nat : i <= m /\ i <= n => g[i] = g2[i]
  <2> DEFINE Agree == {i \in Nat : i <= m /\ i <= n => g[i] = g2[i]}
  <2>1. 0 \in Agree
    BY <1>2
  <2>2. ASSUME NEW i \in Nat, i \in Agree PROVE i + 1 \in Agree
    <3>1. SUFFICES ASSUME i + 1 <= m, i + 1 <= n PROVE g[i + 1] = g2[i + 1]
      OBVIOUS
    <3>2. i \in 0 .. m - 1 /\ i \in 0 .. n - 1 /\ i <= m /\ i <= n
      BY <3>1
    <3> QED BY <1>2, <2>2, <3>2
  <2>3. Nat \subseteq Agree
    <3> HIDE DEF Agree
    <3> QED BY <2>1, <2>2, Induct
  <2> QED BY <2>3
<1> DEFINE Up(n) == CHOOSE g : IsUpTo(g, n)
           f == [n \in Nat |-> Up(n)[n]]
<1>3. ASSUME NEW n \in Nat PROVE IsUpTo(Up(n), n)
  <2> HIDE DEF IsUpTo
  <2>1. \E g : IsUpTo(g, n)
    BY <1>1
  <2> QED BY <2>1
<1> HIDE DEF Up
<1>4. f \in [Nat -> S] /\ f[0] = x
  <2>1. ASSUME NEW n \in Nat PROVE Up(n)[n] \in S
    BY <1>3
  <2> QED BY <1>3, <2>1
<1>5. ASSUME NEW n \in Nat PROVE f[n + 1] = h[<<n, f[n]>>]
  <2>1. n + 1 \in Nat /\ n \in 0 .. (n + 1) - 1
    OBVIOUS
  <2>2. Up(n + 1)[n + 1] = h[<<n, Up(n + 1)[n]>>]
    BY <1>3, <2>1
  <2>3. IsUpTo(Up(n + 1), n + 1) /\ IsUpTo(Up(n), n)
    BY <1>3, <2>1
  <2>4. Up(n + 1)[n] = Up(n)[n]
    <3> HIDE DEF IsUpTo
    <3>1. \A i \in Nat : i <= n + 1 /\ i <= n => Up(n + 1)[i] = Up(n)[i]
      BY <1>2, <2>1, <2>3
    <3> QED BY <3>1
  <2> QED BY <2>1, <2>2, <2>4
<1> HIDE DEF f
<1> QED BY <1>4, <1>5 DEF Steps

\* Division with a remainder, of any integer.
LEMMA DivMod ==
  ASSUME NEW a \in Int, NEW p \in Nat \ {0}
  PROVE  a \div p \in Int /\ a % p \in 0 .. p - 1 /\ a = (a \div p) * p + (a % p)
OBVIOUS

\* The quotient and the remainder are determined by what they must satisfy.
LEMMA DivIs ==
  ASSUME NEW p \in Nat \ {0}, NEW q \in Int, NEW c \in 0 .. p - 1
  PROVE  (q * p + c) \div p = q /\ (q * p + c) % p = c
OBVIOUS

\* Products by a positive number keep the order.
LEMMA TimesOrder ==
  ASSUME NEW a \in Int, NEW b \in Int, NEW p \in Nat \ {0}
  PROVE  /\ a * p \in Int /\ b * p \in Int
         /\ a <= b <=> a * p <= b * p
         /\ a < b <=> a * p < b * p
OBVIOUS

\* Products distribute over sums and differences from the left ...
LEMMA TimesAdd ==
  ASSUME NEW a \in Int, NEW b \in Int, NEW p \in Int
  PROVE  /\ (a + b) * p = a * p + b * p
         /\ (a - b) * p = a * p - b * p
OBVIOUS

\* ... and from the right, commute and associate.
LEMMA Times ==
  ASSUME NEW a \in Int, NEW b \in Int, NEW c \in Int
  PROVE  /\ a * b \in Int /\ a * b = b * a /\ a * (b * c) = (a * b) * c /\ a * (b + c) = a * b + a * c
         /\ a * (b - c) = a * b - a * c
OBVIOUS

\* Products of natural numbers.
LEMMA TimesNat ==
  ASSUME NEW a \in Nat, NEW b \in Nat
  PROVE  /\ a * b \in Nat
         /\ a # 0 /\ b # 0 => a * b # 0
OBVIOUS

-----------------------------------------------------------------------------
(* Powers of two.                                                          *)

\* The definition of the powers of two, unfolded.
LEMMA PowerIs ==
  /\ Power2[0] = 1
  /\ \A n \in Nat : Power2[n + 1] = 2 * Power2[n]
<1> DEFINE h == [p \in Nat \X Nat |-> 2 * p[2]]
           P(f) == [n \in Nat |-> IF n = 0 THEN 1 ELSE 2 * f[n - 1]]
<1>1. h \in [Nat \X Nat -> Nat]
  OBVIOUS
<1>2. PICK f \in [Nat -> Nat] : Steps(f, 1, h)
  <2> HIDE DEF h
  <2> QED BY <1>1, Recursion
<1>3. \A n \in Nat : f[n + 1] = 2 * f[n]
  BY <1>2 DEF Steps
<1>4. ASSUME NEW n \in Nat, n # 0 PROVE f[n] = 2 * f[n - 1]
  <2>1. n - 1 \in Nat /\ (n - 1) + 1 = n
    BY <1>4
  <2> QED BY <1>3, <2>1
<1>5. f = P(f)
  BY <1>2, <1>4 DEF Steps
<1>6. Power2 = CHOOSE g : g = P(g)
  BY DEF Power2
<1>7. Power2 = P(Power2)
  <2> HIDE DEF P
  <2> QED BY <1>5, <1>6
<1>8. Power2[0] = 1
  BY <1>7
<1>9. ASSUME NEW n \in Nat PROVE Power2[n + 1] = 2 * Power2[n]
  <2>1. n + 1 \in Nat /\ n + 1 # 0 /\ (n + 1) - 1 = n
    OBVIOUS
  <2> QED BY <1>7, <2>1
<1> QED BY <1>8, <1>9

\* A power of two is positive.
LEMMA PowerNat ==
  ASSUME NEW n \in Nat
  PROVE  Power2[n] \in Nat \ {0}
<1> DEFINE S == {m \in Nat : Power2[m] \in Nat \ {0}}
<1>1. 0 \in S
  BY PowerIs
<1>2. ASSUME NEW m \in Nat, m \in S PROVE m + 1 \in S
  BY <1>2, PowerIs
<1>3. Nat \subseteq S
  <2> HIDE DEF S
  <2> QED BY <1>1, <1>2, Induct
<1> QED BY <1>3

\* The power of a sum is the product of the powers.
LEMMA PowerAdd ==
  ASSUME NEW m \in Nat, NEW n \in Nat
  PROVE  Power2[m + n] = Power2[m] * Power2[n]
<1> DEFINE S == {k \in Nat : Power2[m + k] = Power2[m] * Power2[k]}
<1>1. 0 \in S
  BY PowerIs, PowerNat
<1>2. ASSUME NEW k \in Nat, k \in S PROVE k + 1 \in S
  <2>1. PICK a \in Nat, b \in Nat, c \in Nat :
               a = Power2[m] /\ b = Power2[k] /\ c = Power2[m + k]
    BY PowerNat
  <2>2. m + k \in Nat /\ m + (k + 1) = (m + k) + 1
    OBVIOUS
  <2>3. Power2[m + (k + 1)] = 2 * c /\ Power2[k + 1] = 2 * b
    BY <2>1, <2>2, PowerIs
  <2>4. c = a * b
    BY <1>2, <2>1
  <2>5. 2 * (a * b) = a * (2 * b)
    OBVIOUS
  <2> QED BY <2>1, <2>3, <2>4, <2>5
<1>3. Nat \subseteq S
  <2> HIDE DEF S
  <2> QED BY <1>1, <1>2, Induct
<1> QED BY <1>3

\* A smaller power divides a larger one.
LEMMA PowerMinus ==
  ASSUME NEW m \in Nat, NEW n \in 0 .. m
  PROVE  Power2[m] = Power2[m - n] * Power2[n] /\ Power2[n] <= Power2[m]
<1>1. m - n \in Nat /\ n \in Nat /\ (m - n) + n = m
  OBVIOUS
<1>2. Power2[m] = Power2[m - n] * Power2[n]
  BY <1>1, PowerAdd
<1>3. PICK a \in Nat \ {0}, b \in Nat \ {0} : a = Power2[m - n] /\ b = Power2[n]
  BY <1>1, PowerNat
<1>4. 1 * b <= a * b
  BY <1>3, TimesOrder
<1> QED BY <1>2, <1>3, <1>4

\* A bit of an integer.
BitOf(x, k) == (x \div Power2[k]) % 2 = 1

\* The widths of a byte and a word, and that a word's values are 2^WordBits.
LEMMA WordFacts ==
  /\ ByteBits \in Nat /\ ByteBits >= 2 /\ WordBits \in Nat /\ WordBits = 4 * ByteBits
  /\ Bytes(4) = Power2[WordBits] /\ Bytes(4) \in Nat \ {0} /\ Power2[WordBits] \in Nat \ {0}
<1>1. ByteBits \in Nat /\ ByteBits >= 2
  BY WordAssumption
<1>2. WordBits \in Nat /\ WordBits = 4 * ByteBits /\ ByteBits * 4 = WordBits
  BY <1>1 DEF WordBits
<1>3. Bytes(4) = Power2[WordBits]
  BY <1>2 DEF Bytes
<1> QED BY <1>1, <1>2, <1>3, PowerNat

\* The words are the numbers of WordBits bits.
LEMMA WordsAre ==
  /\ \A w : w \in Words <=> w \in Int /\ 0 <= w /\ w < Power2[WordBits]
  /\ Words \subseteq Nat /\ Words \subseteq Int
<1>1. Words = 0 .. Power2[WordBits] - 1 /\ Power2[WordBits] \in Nat
  BY WordFacts DEF Words
<1> QED BY <1>1

\* Word keeps the low bits of an integer.
LEMMA WordIs ==
  /\ \A x : Word(x) = x % Power2[WordBits]
  /\ \A x \in Int : Word(x) \in Words
<1>1. \A x : Word(x) = x % Power2[WordBits]
  BY WordFacts DEF Word
<1>2. \A x \in Int : Word(x) \in Words
  <2> TAKE x \in Int
  <2>1. Power2[WordBits] \in Nat \ {0}
    BY WordFacts
  <2>2. x % Power2[WordBits] \in 0 .. Power2[WordBits] - 1
    BY <2>1, DivMod
  <2> QED BY <1>1, <2>1, <2>2, WordsAre
<1> QED BY <1>1, <1>2

\* The quotient of a quotient.
LEMMA DivDiv ==
  ASSUME NEW x \in Int, NEW a \in Nat \ {0}, NEW b \in Nat \ {0}
  PROVE  (x \div a) \div b = x \div (a * b)
<1>1. PICK q \in Int, r \in 0 .. a - 1 : q = x \div a /\ x = q * a + r
  BY DivMod
<1>2. PICK s \in Int, t \in 0 .. b - 1 : s = q \div b /\ q = s * b + t
  BY DivMod
<1>3. x = s * (a * b) + (t * a + r)
  <2>1. q * a = (s * b) * a + t * a
    BY <1>2, TimesAdd
  <2>2. (s * b) * a = s * (a * b)
    BY Times
  <2> QED BY <1>1, <2>1, <2>2, Times
<1>4. a * b \in Nat \ {0} /\ t * a + r \in 0 .. a * b - 1
  <2>1. 0 * a <= t * a /\ t * a <= (b - 1) * a
    BY TimesOrder
  <2>2. (b - 1) * a = b * a - 1 * a /\ b * a = a * b /\ a * b \in Nat \ {0}
    BY TimesAdd, Times, TimesNat
  <2>3. t * a \in Int
    OBVIOUS
  <2> QED BY <2>1, <2>2, <2>3
<1>5. x \div (a * b) = s
  BY <1>3, <1>4, DivIs
<1> QED BY <1>1, <1>2, <1>5

\* The bits of a remainder by a power of two are the low ones.
LEMMA BitOfRest ==
  ASSUME NEW x \in Int, NEW m \in Nat, NEW k \in 0 .. m - 1
  PROVE  BitOf(x % Power2[m], k) <=> BitOf(x, k)
<1>1. k \in Nat /\ m - (k + 1) \in Nat /\ k + 1 \in 0 .. m
  OBVIOUS
<1>2. PICK p \in Nat \ {0}, c \in Nat \ {0} : p = Power2[k] /\ c = Power2[m - (k + 1)]
  BY <1>1, PowerNat
<1>3. Power2[m] = c * (2 * p)
  BY <1>1, <1>2, PowerMinus, PowerIs
<1>4. Power2[m] \in Nat \ {0}
  BY PowerNat
<1>5. PICK q \in Int, r \in Int : q = x \div Power2[m] /\ r = x % Power2[m] /\ x = q * Power2[m] + r
  <2>1. PICK a \in Nat \ {0} : a = Power2[m]
    BY <1>4
  <2>2. x \div a \in Int /\ x % a \in Int /\ x = (x \div a) * a + (x % a)
    BY DivMod
  <2> QED BY <2>1, <2>2
<1>6. PICK s \in Int, t \in 0 .. p - 1 : s = r \div p /\ r = s * p + t
  BY DivMod
<1>7. x = (2 * (q * c) + s) * p + t
  <2>1. q * (c * (2 * p)) = (2 * (q * c)) * p
    BY Times
  <2>2. (2 * (q * c) + s) * p = (2 * (q * c)) * p + s * p
    BY TimesAdd, Times
  <2>3. q * c \in Int /\ (2 * (q * c)) * p \in Int /\ s * p \in Int
    BY Times
  <2> QED BY <1>3, <1>5, <1>6, <2>1, <2>2, <2>3
<1>8. x \div p = 2 * (q * c) + s
  BY <1>7, DivIs, Times
<1>9. PICK d \in Int : d = q * c
  BY Times
<1>10. (2 * d + s) % 2 = s % 2
  OBVIOUS
<1> QED BY <1>2, <1>5, <1>6, <1>8, <1>9, <1>10 DEF BitOf

\* The bits of a multiple by a power of two are shifted up.
LEMMA BitOfMultiple ==
  ASSUME NEW x \in Int, NEW n \in Nat, NEW k \in Nat
  PROVE  BitOf(x * Power2[n], k) <=> k >= n /\ BitOf(x, k - n)
<1>1. CASE k >= n
  <2>1. k - n \in Nat /\ n \in 0 .. k
    BY <1>1
  <2>2. PICK p \in Nat \ {0}, c \in Nat \ {0} : p = Power2[n] /\ c = Power2[k - n]
    BY <2>1, PowerNat
  <2>3. Power2[k] = p * c
    BY <2>1, <2>2, PowerMinus, Times
  <2>4. (x * p) \div p = x
    <3>1. x * p + 0 = x * p /\ x * p \in Int
      OBVIOUS
    <3>2. (x * p + 0) \div p = x
      BY DivIs
    <3> QED BY <3>1, <3>2
  <2>5. x * p \in Int
    OBVIOUS
  <2>6. (x * p) \div (p * c) = x \div c
    BY <2>4, <2>5, DivDiv
  <2> QED BY <1>1, <2>2, <2>3, <2>6 DEF BitOf
<1>2. CASE k < n
  <2>1. k + 1 \in 0 .. n /\ n - (k + 1) \in Nat
    BY <1>2
  <2>2. PICK p \in Nat \ {0}, c \in Nat \ {0} : p = Power2[k] /\ c = Power2[n - (k + 1)]
    BY <2>1, PowerNat
  <2>3. Power2[n] = c * (2 * p)
    BY <2>1, <2>2, PowerMinus, PowerIs
  <2>4. PICK d \in Int : d = x * c
    OBVIOUS
  <2>5. x * (c * (2 * p)) = (2 * d) * p + 0
    <3>1. x * (c * (2 * p)) = (x * c) * (2 * p)
      BY Times
    <3>2. d * (2 * p) = (2 * d) * p /\ (2 * d) * p \in Int
      BY Times
    <3> QED BY <2>4, <3>1, <3>2
  <2>6. (x * Power2[n]) \div p = 2 * d
    <3>1. ((2 * d) * p + 0) \div p = 2 * d
      BY DivIs
    <3> QED BY <2>3, <2>5, <3>1
  <2>7. (2 * d) % 2 # 1
    OBVIOUS
  <2> QED BY <1>2, <2>2, <2>6, <2>7 DEF BitOf
<1> QED BY <1>1, <1>2

\* The bits of a quotient by a power of two are shifted down.
LEMMA BitOfQuotient ==
  ASSUME NEW x \in Int, NEW n \in Nat, NEW k \in Nat
  PROVE  BitOf(x \div Power2[n], k) <=> BitOf(x, k + n)
<1>1. Power2[n] \in Nat \ {0} /\ Power2[k] \in Nat \ {0}
  BY PowerNat
<1>2. Power2[n] * Power2[k] = Power2[k + n]
  BY <1>1, PowerAdd, Times
<1>3. (x \div Power2[n]) \div Power2[k] = x \div (Power2[n] * Power2[k])
  BY <1>1, DivDiv
<1> QED BY <1>2, <1>3 DEF BitOf

\* Beyond the bits of a number, its bits are those of its sign.
LEMMA BitOfSmall ==
  ASSUME NEW m \in Nat, NEW x \in -Power2[m] .. Power2[m] - 1, NEW k \in Nat, k >= m
  PROVE  BitOf(x, k) <=> x < 0
<1>1. PICK a \in Nat \ {0}, p \in Nat \ {0} : a = Power2[m] /\ p = Power2[k]
  BY PowerNat
<1>2. a <= p
  <2>1. m \in 0 .. k
    OBVIOUS
  <2> QED BY <1>1, <2>1, PowerMinus
<1>3. x \in -p .. p - 1 /\ x \in Int
  BY <1>1, <1>2
<1>4. CASE x < 0
  <2>1. x + p \in 0 .. p - 1 /\ x = (-1) * p + (x + p)
    BY <1>3, <1>4
  <2>2. x \div p = -1
    BY <2>1, DivIs
  <2>3. (-1) % 2 = 1
    <3>1. 2 \in Nat \ {0} /\ -1 \in Int /\ 1 \in 0 .. 2 - 1 /\ (-1) * 2 + 1 = -1
      OBVIOUS
    <3>2. ((-1) * 2 + 1) % 2 = 1
      BY <3>1, DivIs
    <3> QED BY <3>1, <3>2
  <2> QED BY <1>1, <1>4, <2>2, <2>3 DEF BitOf
<1>5. CASE x >= 0
  <2>1. x \in 0 .. p - 1 /\ x = 0 * p + x
    BY <1>3, <1>5
  <2>2. x \div p = 0
    BY <2>1, DivIs
  <2> QED BY <1>1, <1>3, <1>5, <2>2 DEF BitOf
<1> QED BY <1>3, <1>4, <1>5

\* The bits of the complement are the other ones.
LEMMA BitOfComplement ==
  ASSUME NEW m \in Nat, NEW x \in Int, NEW k \in 0 .. m - 1
  PROVE  BitOf(Power2[m] - 1 - x, k) <=> ~BitOf(x, k)
<1>1. k \in Nat /\ m - (k + 1) \in Nat /\ k + 1 \in 0 .. m
  OBVIOUS
<1>2. PICK p \in Nat \ {0}, c \in Nat \ {0} : p = Power2[k] /\ c = Power2[m - (k + 1)]
  BY <1>1, PowerNat
<1>3. Power2[m] = (2 * c) * p /\ Power2[m] \in Int
  <2>1. Power2[m] = c * (2 * p)
    BY <1>1, <1>2, PowerMinus, PowerIs
  <2> QED BY <2>1, Times
<1>4. PICK s \in Int, t \in 0 .. p - 1 : s = x \div p /\ x = s * p + t
  BY DivMod
<1>5. Power2[m] - 1 - x = (2 * c - 1 - s) * p + (p - 1 - t)
  <2>1. (2 * c - 1 - s) * p = (2 * c - 1) * p - s * p /\ (2 * c - 1) * p = (2 * c) * p - 1 * p
    BY TimesAdd
  <2>2. s * p \in Int /\ (2 * c) * p \in Int /\ (2 * c - 1) * p \in Int
    BY Times
  <2> QED BY <1>3, <1>4, <2>1, <2>2
<1>6. (Power2[m] - 1 - x) \div p = 2 * c - 1 - s
  <2>1. p - 1 - t \in 0 .. p - 1
    OBVIOUS
  <2>2. 2 * c - 1 - s \in Int
    OBVIOUS
  <2>3. ((2 * c - 1 - s) * p + (p - 1 - t)) \div p = 2 * c - 1 - s
    BY <2>1, <2>2, DivIs
  <2> QED BY <1>5, <2>3
<1>7. (2 * c - 1 - s) % 2 = 1 <=> s % 2 # 1
  OBVIOUS
<1> QED BY <1>2, <1>4, <1>6, <1>7 DEF BitOf

\* The sums of the powers of two that a set of bits names.
IsSum(u, S) ==
  /\ u \in [0 .. WordBits -> Nat] /\ u[0] = 0
  /\ \A k \in 0 .. WordBits - 1 : u[k + 1] = u[k] + IF k \in S THEN Power2[k] ELSE 0

\* OfBits is such a sum.
LEMMA BitSum ==
  ASSUME NEW S
  PROVE  \E u : IsSum(u, S) /\ OfBits(S) = u[WordBits]
<1> DEFINE h == [p \in Nat \X Nat |-> p[2] + IF p[1] \in S THEN Power2[p[1]] ELSE 0]
           P(f) == [k \in 0 .. WordBits |->
                      IF k = 0 THEN 0 ELSE f[k - 1] + IF k - 1 \in S THEN Power2[k - 1] ELSE 0]
<1>1. h \in [Nat \X Nat -> Nat]
  BY PowerNat
<1>2. PICK f \in [Nat -> Nat] : Steps(f, 0, h)
  <2> HIDE DEF h
  <2> QED BY <1>1, Recursion
<1>3. f[0] = 0 /\ \A n \in Nat : f[n + 1] = f[n] + IF n \in S THEN Power2[n] ELSE 0
  BY <1>2 DEF Steps
<1> DEFINE g == [k \in 0 .. WordBits |-> f[k]]
<1>4. ASSUME NEW k \in 0 .. WordBits, k # 0
      PROVE  g[k] = g[k - 1] + IF k - 1 \in S THEN Power2[k - 1] ELSE 0
  <2>1. k - 1 \in Nat /\ (k - 1) + 1 = k /\ k - 1 \in 0 .. WordBits
    BY <1>4, WordFacts
  <2> QED BY <1>3, <2>1
<1>5. g = P(g)
  <2>1. g[0] = 0 /\ 0 \in 0 .. WordBits
    BY <1>3, WordFacts
  <2> HIDE DEF h
  <2>2. \A k \in 0 .. WordBits : g[k] = P(g)[k]
    BY <1>4, <2>1
  <2> QED BY <2>2
<1>6. OfBits(S) = (CHOOSE g2 : g2 = P(g2))[WordBits]
  BY DEF OfBits
<1> DEFINE u == CHOOSE g2 : g2 = P(g2)
<1>7. u = P(u)
  <2> HIDE DEF P, g
  <2> QED BY <1>5
<1> HIDE DEF u, g
<1>8. u[0] = 0
  BY <1>7, WordFacts
<1>9. ASSUME NEW k \in 0 .. WordBits - 1
      PROVE  u[k + 1] = u[k] + IF k \in S THEN Power2[k] ELSE 0
  <2>1. k + 1 \in 0 .. WordBits /\ k + 1 # 0 /\ (k + 1) - 1 = k
    BY WordFacts
  <2> QED BY <1>7, <2>1
<1>10. u = [k \in 0 .. WordBits |-> u[k]]
  BY <1>7
<1>11. \A k \in 0 .. WordBits : u[k] \in Nat
  <2> DEFINE T == {k \in Nat : k <= WordBits => u[k] \in Nat}
  <2>1. 0 \in T
    BY <1>8
  <2>2. ASSUME NEW k \in Nat, k \in T PROVE k + 1 \in T
    BY <1>9, <2>2, PowerNat, WordFacts
  <2>3. Nat \subseteq T
    <3> HIDE DEF T
    <3> QED BY <2>1, <2>2, Induct
  <2> QED BY <2>3, WordFacts
<1>12. IsSum(u, S)
  BY <1>8, <1>9, <1>10, <1>11 DEF IsSum
<1> QED
  <2>1. OfBits(S) = u[WordBits]
    BY <1>6 DEF u
  <2> QED BY <1>12, <2>1

\* A word is the sum of the powers of its bits.
LEMMA OfBitsOf ==
  ASSUME NEW w \in Words
  PROVE  Bits(w) \subseteq 0 .. WordBits - 1 /\ OfBits(Bits(w)) = w
<1>1. Bits(w) \subseteq 0 .. WordBits - 1
  BY DEF Bits
<1>2. PICK u : IsSum(u, Bits(w)) /\ OfBits(Bits(w)) = u[WordBits]
  BY BitSum
<1> DEFINE T == {k \in Nat : k <= WordBits => u[k] = w % Power2[k]}
<1>3. w \in Nat /\ w \in Int /\ w < Power2[WordBits]
  BY WordsAre, WordFacts
<1>4. 0 \in T
  <2>1. w % 1 = 0
    BY <1>3
  <2> QED BY <1>2, <2>1, PowerIs DEF IsSum
<1>5. ASSUME NEW k \in Nat, k \in T PROVE k + 1 \in T
  <2>1. SUFFICES ASSUME k + 1 <= WordBits PROVE u[k + 1] = w % Power2[k + 1]
    OBVIOUS
  <2>2. k \in 0 .. WordBits - 1 /\ k <= WordBits
    BY <2>1, WordFacts
  <2>3. PICK p \in Nat \ {0} : p = Power2[k] /\ 2 * p = Power2[k + 1]
    BY PowerNat, PowerIs
  <2>4. PICK s \in Int, t \in 0 .. p - 1 : s = w \div p /\ t = w % p /\ w = s * p + t
    <3>1. w \div p \in Int /\ w % p \in 0 .. p - 1 /\ w = (w \div p) * p + (w % p)
      BY <1>3, DivMod
    <3> QED BY <3>1
  <2>5. PICK q \in Int, b \in 0 .. 1 : q = s \div 2 /\ b = s % 2 /\ s = q * 2 + b
    BY DivMod
  <2>6. w = q * (2 * p) + (b * p + t)
    <3>1. PICK x \in Int, y \in Int : x = q * (2 * p) /\ y = b * p
      BY Times
    <3>2. (q * 2) * p = q * (2 * p)
      BY Times
    <3>3. s * p = (q * 2) * p + b * p
      BY <2>5, TimesAdd
    <3>4. w = x + y + t
      BY <2>4, <3>1, <3>2, <3>3
    <3> QED BY <3>1, <3>4
  <2>7. b * p + t \in 0 .. 2 * p - 1
    <3>1. b * p = IF b = 1 THEN p ELSE 0
      <4>1. CASE b = 1
        BY <4>1
      <4>2. CASE b = 0
        BY <4>2
      <4> QED BY <4>1, <4>2
    <3> QED BY <3>1
  <2>8. w % (2 * p) = b * p + t
    <3>1. PICK m \in Nat \ {0} : m = 2 * p
      OBVIOUS
    <3>2. PICK c \in 0 .. m - 1 : c = b * p + t
      BY <2>7, <3>1
    <3>3. (q * m + c) % m = c
      BY DivIs
    <3> QED BY <2>6, <3>1, <3>2, <3>3
  <2>9. b = 1 <=> k \in Bits(w)
    BY <2>2, <2>3, <2>4, <2>5 DEF Bits
  <2>10. u[k + 1] = t + IF k \in Bits(w) THEN p ELSE 0
    BY <1>2, <1>5, <2>2, <2>3, <2>4 DEF IsSum
  <2>11. b * p = IF k \in Bits(w) THEN p ELSE 0
    <3>1. CASE b = 1
      BY <2>9, <3>1
    <3>2. CASE b = 0
      BY <2>9, <3>2
    <3> QED BY <3>1, <3>2
  <2> QED BY <2>3, <2>8, <2>10, <2>11
<1>6. Nat \subseteq T
  <2> HIDE DEF T
  <2> QED BY <1>4, <1>5, Induct
<1>7. u[WordBits] = w % Power2[WordBits]
  BY <1>6, WordFacts
<1>8. w % Power2[WordBits] = w
  <2>1. PICK p \in Nat \ {0} : p = Power2[WordBits]
    BY WordFacts, PowerNat
  <2>2. (0 * p + w) % p = w
    BY <1>3, <2>1, DivIs
  <2> QED BY <1>3, <2>1, <2>2
<1> QED BY <1>1, <1>2, <1>7, <1>8

\* The bits of the sum are the set.
LEMMA BitsOfBits ==
  ASSUME NEW S \in SUBSET (0 .. WordBits - 1)
  PROVE  OfBits(S) \in Words /\ Bits(OfBits(S)) = S
<1>1. PICK u : IsSum(u, S) /\ OfBits(S) = u[WordBits]
  BY BitSum
<1>2. \A k \in Nat : k <= WordBits => u[k] \in 0 .. Power2[k] - 1
  <2> DEFINE T == {k \in Nat : k <= WordBits => u[k] \in 0 .. Power2[k] - 1}
  <2>1. 0 \in T
    BY <1>1, PowerIs DEF IsSum
  <2>2. ASSUME NEW k \in Nat, k \in T PROVE k + 1 \in T
    <3>1. SUFFICES ASSUME k + 1 <= WordBits PROVE u[k + 1] \in 0 .. Power2[k + 1] - 1
      OBVIOUS
    <3>2. k \in 0 .. WordBits - 1 /\ k <= WordBits
      BY <3>1, WordFacts
    <3>3. PICK p \in Nat \ {0} : p = Power2[k] /\ 2 * p = Power2[k + 1]
      BY PowerNat, PowerIs
    <3>4. u[k] \in 0 .. p - 1 /\ u[k + 1] = u[k] + IF k \in S THEN p ELSE 0
      BY <1>1, <2>2, <3>2, <3>3 DEF IsSum
    <3> QED BY <3>3, <3>4
  <2>3. Nat \subseteq T
    <3> HIDE DEF T
    <3> QED BY <2>1, <2>2, Induct
  <2> QED BY <2>3
<1>3. OfBits(S) \in Words
  BY <1>1, <1>2, WordFacts, WordsAre
<1>4. ASSUME NEW k \in 0 .. WordBits - 1
      PROVE  BitOf(u[WordBits], k) <=> k \in S
  <2>1. k \in Nat /\ k + 1 \in Nat /\ WordBits \in Nat /\ k + 1 <= WordBits
    BY WordFacts
  <2>2. PICK p \in Nat \ {0}, m \in Nat \ {0} : p = Power2[k] /\ m = Power2[k + 1] /\ m = 2 * p
    BY <2>1, PowerNat, PowerIs
  <2> DEFINE T == {j \in Nat : k + 1 + j <= WordBits
                                => \E c \in Int : u[k + 1 + j] = c * m + u[k + 1]}
  <2>3. 0 \in T
    <3>1. u[k + 1] \in Int /\ k + 1 + 0 = k + 1
      BY <1>2, <2>1, PowerNat
    <3>2. u[k + 1] = 0 * m + u[k + 1]
      BY <3>1
    <3>3. PICK c \in Int : c = 0
      OBVIOUS
    <3>4. u[k + 1 + 0] = c * m + u[k + 1]
      BY <3>1, <3>2, <3>3
    <3> QED BY <3>4
  <2>4. ASSUME NEW j \in Nat, j \in T PROVE j + 1 \in T
    <3>1. SUFFICES ASSUME k + 1 + (j + 1) <= WordBits
                   PROVE  \E c \in Int : u[k + 1 + (j + 1)] = c * m + u[k + 1]
      OBVIOUS
    <3>2. /\ k + 1 + j \in 0 .. WordBits - 1 /\ k + 1 + (j + 1) = (k + 1 + j) + 1
          /\ k + 1 + j = j + (k + 1) /\ k + 1 + j <= WordBits
      BY <2>1, <3>1
    <3>3. PICK c \in Int : u[k + 1 + j] = c * m + u[k + 1]
      BY <2>4, <3>2
    <3>4. PICK q \in Nat : q = Power2[j] /\ Power2[k + 1 + j] = q * m
      <4>1. Power2[j + (k + 1)] = Power2[j] * Power2[k + 1]
        BY <2>1, PowerAdd
      <4> QED BY <2>2, <3>2, <4>1, PowerNat
    <3>5. u[k + 1 + (j + 1)] = u[k + 1 + j] + IF k + 1 + j \in S THEN q * m ELSE 0
      BY <1>1, <3>2, <3>4 DEF IsSum
    <3>6. (c + q) * m = c * m + q * m
      BY TimesAdd
    <3>7. PICK x \in Int : x = u[k + 1]
      BY <1>2, <2>1, PowerNat
    <3>8. CASE k + 1 + j \in S
      <4>1. u[k + 1 + (j + 1)] = (c + q) * m + u[k + 1]
        BY <3>3, <3>5, <3>6, <3>7, <3>8, Times
      <4> QED BY <4>1
    <3>9. CASE k + 1 + j \notin S
      <4>1. u[k + 1 + (j + 1)] = c * m + u[k + 1]
        BY <3>3, <3>5, <3>7, <3>9, Times
      <4> QED BY <4>1
    <3> QED BY <3>8, <3>9
  <2>5. Nat \subseteq T
    <3> HIDE DEF T
    <3> QED BY <2>3, <2>4, Induct
  <2>6. WordBits - (k + 1) \in Nat /\ k + 1 + (WordBits - (k + 1)) = WordBits
    BY <2>1
  <2>7. PICK c \in Int : u[WordBits] = c * m + u[k + 1]
    <3>1. PICK j \in Nat : j = WordBits - (k + 1) /\ k + 1 + j = WordBits
      BY <2>6
    <3>2. k + 1 + j <= WordBits
      BY <2>1, <3>1
    <3> QED BY <2>5, <3>1, <3>2
  <2>8. PICK t \in 0 .. p - 1 : t = u[k]
    BY <1>2, <2>1, <2>2
  <2>9. PICK b \in 0 .. 1 : b = IF k \in S THEN 1 ELSE 0
    OBVIOUS
  <2>10. u[k + 1] = b * p + t
    <3>1. u[k + 1] = u[k] + IF k \in S THEN p ELSE 0
      BY <1>1, <2>2 DEF IsSum
    <3>2. CASE b = 1
      BY <2>8, <2>9, <3>1, <3>2
    <3>3. CASE b = 0
      BY <2>8, <2>9, <3>1, <3>3
    <3> QED BY <3>2, <3>3
  <2>11. u[WordBits] = (2 * c + b) * p + t
    <3>1. (2 * c + b) * p = (2 * c) * p + b * p
      BY TimesAdd
    <3>2. (2 * c) * p = c * m
      BY <2>2, Times
    <3>3. PICK x \in Int, y \in Int : x = c * m /\ y = b * p
      BY Times
    <3> QED BY <2>7, <2>10, <3>1, <3>2, <3>3
  <2>12. u[WordBits] \div p = 2 * c + b
    <3>1. PICK d \in Int : d = 2 * c + b
      OBVIOUS
    <3>2. (d * p + t) \div p = d
      BY DivIs
    <3> QED BY <2>11, <3>1, <3>2
  <2>13. (2 * c + b) % 2 = b
    OBVIOUS
  <2> QED BY <2>2, <2>9, <2>12, <2>13 DEF BitOf
<1>5. Bits(u[WordBits]) = S
  BY <1>4 DEF Bits, BitOf
<1> QED BY <1>1, <1>3, <1>5

\* The bits of a word, in terms of BitOf.
LEMMA BitsAre ==
  ASSUME NEW w
  PROVE  Bits(w) = {k \in 0 .. WordBits - 1 : BitOf(w, k)}
BY DEF Bits, BitOf

\* Words with the same bits are the same.
LEMMA SameBits ==
  ASSUME NEW v \in Words, NEW w \in Words, \A k \in 0 .. WordBits - 1 : BitOf(v, k) <=> BitOf(w, k)
  PROVE  v = w
<1>1. Bits(v) = Bits(w)
  BY BitsAre
<1> QED BY <1>1, OfBitsOf

\* What is computed from sets of bits.
LEMMA WordOfBits ==
  ASSUME NEW w \in Words, NEW S \in SUBSET (0 .. WordBits - 1),
         \A k \in 0 .. WordBits - 1 : BitOf(w, k) <=> k \in S
  PROVE  w = OfBits(S)
<1>1. Bits(w) = S
  BY BitsAre
<1> QED BY <1>1, OfBitsOf

\* And, Or and Xor combine the bits.
LEMMA Combined ==
  ASSUME NEW v \in Words, NEW w \in Words
  PROVE  /\ And(v, w) \in Words /\ Or(v, w) \in Words /\ Xor(v, w) \in Words
         /\ Bits(And(v, w)) = Bits(v) \cap Bits(w)
         /\ Bits(Or(v, w)) = Bits(v) \cup Bits(w)
         /\ Bits(Xor(v, w)) = (Bits(v) \ Bits(w)) \cup (Bits(w) \ Bits(v))
<1>1. Bits(v) \subseteq 0 .. WordBits - 1 /\ Bits(w) \subseteq 0 .. WordBits - 1
  BY OfBitsOf
<1>2. /\ Bits(v) \cap Bits(w) \in SUBSET (0 .. WordBits - 1)
      /\ Bits(v) \cup Bits(w) \in SUBSET (0 .. WordBits - 1)
      /\ (Bits(v) \ Bits(w)) \cup (Bits(w) \ Bits(v)) \in SUBSET (0 .. WordBits - 1)
  BY <1>1
<1> QED BY <1>2, BitsOfBits DEF And, Or, Xor

\* The word without bits is 0.
LEMMA NoBits ==
  /\ 0 \in Words /\ Bits(0) = {} /\ OfBits({}) = 0
  /\ \A S \in SUBSET (0 .. WordBits - 1) : OfBits(S) = 0 <=> S = {}
<1>1. 0 \in Words
  BY WordsAre, WordFacts
<1>2. ASSUME NEW k \in 0 .. WordBits - 1 PROVE ~BitOf(0, k)
  <2>1. k \in Nat /\ 0 \in -Power2[0] .. Power2[0] - 1 /\ k >= 0
    BY PowerIs
  <2> QED BY <2>1, BitOfSmall
<1>3. Bits(0) = {}
  BY <1>2, BitsAre
<1>4. OfBits({}) = 0
  BY <1>1, <1>3, OfBitsOf
<1> QED BY <1>1, <1>3, <1>4, BitsOfBits

\* The sign is the top bit.
LEMMA TopBit ==
  ASSUME NEW w \in Words
  PROVE  /\ Signed(w) \in -SIGN_BIT .. SIGN_BIT - 1 /\ SIGN_BIT = Power2[WordBits - 1]
         /\ Bytes(4) = 2 * SIGN_BIT /\ SIGN_BIT \in Nat \ {0}
         /\ Word(Signed(w)) = w
         /\ Negative(w) <=> w >= SIGN_BIT
         /\ Signed(w) = (IF Negative(w) THEN w - Bytes(4) ELSE w)
         /\ And(w, SIGN_BIT) = 0 <=> ~Negative(w)
         /\ WordBits - 1 \in Bits(w) <=> Negative(w)
<1>1. WordBits - 1 \in Nat /\ (WordBits - 1) + 1 = WordBits
  BY WordFacts
<1>2. PICK p \in Nat \ {0} : p = Power2[WordBits - 1] /\ Power2[WordBits] = 2 * p
  BY <1>1, PowerNat, PowerIs
<1>3. w \in Nat /\ w < 2 * p /\ Bytes(4) = 2 * p
  BY <1>2, WordsAre, WordFacts
<1>4. SIGN_BIT = p
  BY <1>3 DEF SIGN_BIT
<1>5. Signed(w) = IF w >= p THEN w - 2 * p ELSE w
  <2>1. (2 * p) \div 2 = p
    OBVIOUS
  <2> QED BY <1>3, <2>1 DEF Signed, SignedOf
<1>6. Negative(w) <=> w >= p
  BY <1>3, <1>5 DEF Negative
<1>7. Word(Signed(w)) = w
  <2>1. PICK m \in Nat \ {0} : m = 2 * p
    OBVIOUS
  <2>2. Word(Signed(w)) = Signed(w) % m
    BY <1>3, <2>1 DEF Word
  <2>3. w \in 0 .. m - 1
    BY <1>3, <2>1
  <2>4. (0 * m + w) % m = w /\ ((-1) * m + w) % m = w
    BY <2>3, DivIs
  <2>5. 0 * m + w = w /\ (-1) * m + w = w - m
    BY <2>3
  <2> QED BY <1>5, <2>1, <2>2, <2>4, <2>5
<1>8. Bits(SIGN_BIT) = {WordBits - 1} /\ SIGN_BIT \in Words
  <2>1. ASSUME NEW k \in 0 .. WordBits - 1 PROVE BitOf(1 * p, k) <=> k = WordBits - 1
    <3>1. k \in Nat /\ 1 \in Int
      OBVIOUS
    <3>2. BitOf(1 * p, k) <=> k >= WordBits - 1 /\ BitOf(1, k - (WordBits - 1))
      BY <1>1, <1>2, <3>1, BitOfMultiple
    <3>3. BitOf(1, 0)
      BY PowerIs DEF BitOf
    <3> QED BY <1>1, <3>2, <3>3
  <2>2. 1 * p = p /\ p \in Words
    BY <1>2, WordsAre
  <2>3. Bits(p) = {WordBits - 1}
    BY <1>1, <2>1, <2>2, BitsAre
  <2> QED BY <1>4, <2>2, <2>3
<1>9. BitOf(w, WordBits - 1) <=> w >= p
  <2>1. CASE w >= p
    <3>1. PICK c \in 0 .. p - 1 : w = 1 * p + c
      <4>1. w - p \in 0 .. p - 1 /\ w = 1 * p + (w - p)
        BY <1>3, <2>1
      <4> QED BY <4>1
    <3>2. w \div p = 1
      BY <3>1, DivIs
    <3> QED BY <1>2, <2>1, <3>2 DEF BitOf
  <2>2. CASE w < p
    <3>1. w \in 0 .. p - 1 /\ w = 0 * p + w
      BY <1>3, <2>2
    <3>2. w \div p = 0
      BY <3>1, DivIs
    <3> QED BY <1>2, <1>3, <2>2, <3>2 DEF BitOf
  <2> QED BY <1>3, <2>1, <2>2
<1>10. WordBits - 1 \in Bits(w) <=> w >= p
  BY <1>1, <1>9, BitsAre
<1>11. And(w, SIGN_BIT) = 0 <=> ~Negative(w)
  <2>1. Bits(w) \cap {WordBits - 1} \in SUBSET (0 .. WordBits - 1)
    BY <1>1
  <2>2. And(w, SIGN_BIT) = 0 <=> Bits(w) \cap {WordBits - 1} = {}
    BY <1>8, <2>1, NoBits DEF And
  <2> QED BY <1>6, <1>10, <2>2
<1> QED
  <2>1. Signed(w) \in -SIGN_BIT .. SIGN_BIT - 1
    BY <1>3, <1>4, <1>5
  <2>2. Signed(w) = (IF Negative(w) THEN w - Bytes(4) ELSE w)
    BY <1>3, <1>5, <1>6
  <2> QED BY <1>2, <1>3, <1>4, <1>6, <1>7, <1>10, <1>11, <2>1, <2>2

\* SameSign (SIGN_BIT of an exclusive or) compares the signs of two words.
LEMMA SameSigns ==
  ASSUME NEW v \in Words, NEW w \in Words
  PROVE  SameSign(v, w) <=> (Negative(v) <=> Negative(w))
<1>1. Xor(v, w) \in Words /\ Bits(Xor(v, w)) = (Bits(v) \ Bits(w)) \cup (Bits(w) \ Bits(v))
  BY Combined
<1>2. And(Xor(v, w), SIGN_BIT) = 0 <=> ~(WordBits - 1 \in Bits(Xor(v, w)))
  BY <1>1, TopBit
<1>3. (WordBits - 1 \in Bits(v) <=> Negative(v)) /\ (WordBits - 1 \in Bits(w) <=> Negative(w))
  BY TopBit
<1> QED BY <1>1, <1>2, <1>3 DEF SameSign

\* Bits of w and the amount of a shift, which the architecture gives by them.
LEMMA LeftIs ==
  ASSUME NEW w \in Words, NEW n \in Nat
  PROVE  Word(w * Power2[n]) = OfBits({k \in 0 .. WordBits - 1 : k - n \in Bits(w)})
<1> DEFINE S == {k \in 0 .. WordBits - 1 : k - n \in Bits(w)}
<1>1. w \in Int /\ w * Power2[n] \in Int
  <2>1. PICK p \in Nat : p = Power2[n]
    BY PowerNat
  <2>2. w \in Int
    BY WordsAre
  <2> QED BY <2>1, <2>2, Times
<1>2. Word(w * Power2[n]) \in Words
  BY <1>1, WordIs
<1>3. ASSUME NEW k \in 0 .. WordBits - 1 PROVE BitOf(Word(w * Power2[n]), k) <=> k \in S
  <2>1. BitOf(Word(w * Power2[n]), k) <=> BitOf(w * Power2[n], k)
    BY <1>1, WordIs, WordFacts, BitOfRest
  <2>2. k \in Nat
    BY WordFacts
  <2>3. BitOf(w * Power2[n], k) <=> k >= n /\ BitOf(w, k - n)
    BY <1>1, <2>2, BitOfMultiple
  <2>4. k - n \in Bits(w) <=> k >= n /\ BitOf(w, k - n)
    BY <2>2, BitsAre, WordFacts
  <2> QED BY <2>1, <2>3, <2>4
<1>4. S \in SUBSET (0 .. WordBits - 1)
  OBVIOUS
<1> QED
  <2> HIDE DEF S
  <2>1. Word(w * Power2[n]) = OfBits(S)
    BY <1>2, <1>3, <1>4, WordOfBits
  <2> QED BY <2>1 DEF S

\* A right shift of a signed word moves its bits down and repeats its sign.
LEMMA RightIs ==
  ASSUME NEW w \in Words, NEW n \in Nat
  PROVE  Shifted(w, n) = OfBits({k \in 0 .. WordBits - 1 :
                                   IF k + n < WordBits THEN k + n \in Bits(w) ELSE Negative(w)})
<1> DEFINE S == {k \in 0 .. WordBits - 1 : IF k + n < WordBits THEN k + n \in Bits(w) ELSE Negative(w)}
           x == Signed(w) \div Power2[n]
<1>1. Power2[n] \in Nat \ {0} /\ Signed(w) \in Int /\ x \in Int
  <2>1. Power2[n] \in Nat \ {0} /\ Signed(w) \in Int
    BY PowerNat, TopBit
  <2> QED BY <2>1, DivMod
<1>2. Word(x) \in Words
  BY <1>1, WordIs
<1>3. ASSUME NEW k \in 0 .. WordBits - 1 PROVE BitOf(Word(x), k) <=> k \in S
  <2>1. BitOf(Word(x), k) <=> BitOf(x, k)
    BY <1>1, WordIs, WordFacts, BitOfRest
  <2>2. k \in Nat /\ k + n \in Nat
    BY WordFacts
  <2>3. BitOf(x, k) <=> BitOf(Signed(w), k + n)
    BY <1>1, <2>2, BitOfQuotient
  <2>4. CASE k + n < WordBits
    <3>1. k + n \in 0 .. WordBits - 1
      BY <2>2, <2>4, WordFacts
    <3>2. BitOf(Signed(w) % Power2[WordBits], k + n) <=> BitOf(Signed(w), k + n)
      BY <1>1, <3>1, WordFacts, BitOfRest
    <3>3. Signed(w) % Power2[WordBits] = w
      BY TopBit, WordIs
    <3> QED BY <2>1, <2>3, <2>4, <3>1, <3>2, <3>3, BitsAre
  <2>5. CASE ~(k + n < WordBits)
    <3>1. WordBits - 1 \in Nat /\ k + n >= WordBits - 1
      BY <2>2, <2>5, WordFacts
    <3>2. Signed(w) \in -Power2[WordBits - 1] .. Power2[WordBits - 1] - 1
      BY TopBit
    <3>3. BitOf(Signed(w), k + n) <=> Signed(w) < 0
      BY <2>2, <3>1, <3>2, BitOfSmall
    <3> QED BY <2>1, <2>3, <2>5, <3>3 DEF Negative
  <2> QED BY <2>4, <2>5
<1>4. S \in SUBSET (0 .. WordBits - 1)
  OBVIOUS
<1> QED
  <2> HIDE DEF S
  <2>1. Word(x) = OfBits(S)
    <3> HIDE DEF x
    <3> QED BY <1>2, <1>3, <1>4, WordOfBits
  <2> QED BY <2>1 DEF S, Shifted

\* The complement of a word (NOR) has the other bits.
LEMMA ComplementIs ==
  ASSUME NEW w \in Words
  PROVE  /\ Bytes(4) - 1 - w = OfBits((0 .. WordBits - 1) \ Bits(w))
         /\ Bytes(4) - 1 - w \in Words
<1>1. w \in Int /\ Bytes(4) - 1 - w \in Words
  BY WordsAre, WordFacts
<1>2. ASSUME NEW k \in 0 .. WordBits - 1
      PROVE  BitOf(Bytes(4) - 1 - w, k) <=> k \in (0 .. WordBits - 1) \ Bits(w)
  <2>1. BitOf(Bytes(4) - 1 - w, k) <=> ~BitOf(w, k)
    BY <1>1, WordFacts, BitOfComplement
  <2> QED BY <2>1, BitsAre
<1> QED BY <1>1, <1>2, WordOfBits

\* The low bits of a word are its remainder.
LEMMA MaskIs ==
  ASSUME NEW w \in Words, NEW m \in 0 .. WordBits
  PROVE  And(w, Power2[m] - 1) = w % Power2[m]
<1>1. m \in Nat /\ m \in 0 .. WordBits /\ w \in Int /\ w \in Nat
  BY WordFacts, WordsAre
<1>2. PICK p \in Nat \ {0} : p = Power2[m] /\ p <= Power2[WordBits]
  BY <1>1, PowerNat, PowerMinus, WordFacts
<1>3. p - 1 \in Words
  BY <1>2, WordsAre, WordFacts
<1>4. w % p \in 0 .. p - 1
  BY <1>1, DivMod
<1>5. w % p \in Words
  BY <1>2, <1>4, WordsAre, WordFacts
<1>6. ASSUME NEW k \in 0 .. WordBits - 1
      PROVE  BitOf(w % p, k) <=> k \in Bits(w) \cap Bits(p - 1)
  <2>1. CASE k < m
    <3>1. k \in 0 .. m - 1
      BY <1>1, <2>1
    <3>2. BitOf(w % p, k) <=> BitOf(w, k)
      BY <1>1, <1>2, <3>1, BitOfRest
    <3>3. BitOf(p - 1 - 0, k) <=> ~BitOf(0, k)
      <4>1. 0 \in Int
        OBVIOUS
      <4> QED BY <1>1, <1>2, <3>1, <4>1, BitOfComplement
    <3>4. ~BitOf(0, k)
      BY NoBits, BitsAre
    <3>5. p - 1 - 0 = p - 1
      OBVIOUS
    <3> QED BY <3>2, <3>3, <3>4, <3>5, BitsAre
  <2>2. CASE k >= m
    <3>1. k \in Nat
      BY WordFacts
    <3>2. w % p \in -p .. p - 1 /\ p - 1 \in -p .. p - 1 /\ ~(w % p < 0) /\ ~(p - 1 < 0)
      BY <1>4
    <3>3. ~BitOf(w % p, k) /\ ~BitOf(p - 1, k)
      BY <1>1, <1>2, <2>2, <3>1, <3>2, BitOfSmall
    <3> QED BY <3>3, BitsAre
  <2> QED BY <1>1, <2>1, <2>2
<1>7. Bits(w) \cap Bits(p - 1) \in SUBSET (0 .. WordBits - 1)
  BY BitsAre
<1> QED BY <1>2, <1>5, <1>6, <1>7, WordOfBits DEF And

\* The mask of a shift amount keeps it modulo the width of a word.
LEMMA ShiftMaskIs ==
  ASSUME NEW w \in Words
  PROVE  And(w, ShiftMask) = w % WordBits /\ w % WordBits \in 0 .. WordBits - 1
<1>1. PICK k \in 1 .. ByteBits : ByteBits = Power2[k]
  BY WordAssumption
<1>2. k + 2 \in 0 .. WordBits /\ k \in Nat
  BY <1>1, WordFacts
<1>3. Power2[k + 2] = WordBits
  <2>1. k + 2 = (k + 1) + 1 /\ k + 1 \in Nat
    BY <1>2
  <2>2. Power2[k + 2] = 2 * (2 * Power2[k])
    BY <1>2, <2>1, PowerIs
  <2> QED BY <1>1, <2>2, WordFacts
<1>4. WordBits \in Nat \ {0} /\ w \in Int
  BY WordFacts, WordsAre
<1>5. w % WordBits \in 0 .. WordBits - 1
  BY <1>4, DivMod
<1> QED BY <1>2, <1>3, <1>5, MaskIs DEF ShiftMask

\* A number below a power of two shares no bit with a multiple of that power.
LEMMA JumpKeepsRegion ==
  ASSUME NEW v \in Words, NEW t \in Words, v < Region, t < Region
  PROVE  Or(And(v, RegionBits), t) = t
<1>1. ByteBits \div 2 \in 0 .. WordBits /\ ByteBits \div 2 \in Nat
  BY WordFacts
<1> DEFINE r == WordBits - ByteBits \div 2
<1>2. r \in Nat /\ r <= WordBits /\ WordBits - r = ByteBits \div 2 /\ r \in 0 .. WordBits
  BY <1>1, WordFacts
<1> HIDE DEF r
<1>3. PICK a \in Nat \ {0}, b \in Nat \ {0} :
         a = Power2[ByteBits \div 2] /\ b = Power2[r] /\ Power2[WordBits] = a * b
  <2>1. Power2[ByteBits \div 2] \in Nat \ {0} /\ Power2[r] \in Nat \ {0}
    BY <1>1, <1>2, PowerNat
  <2>2. Power2[WordBits] = Power2[WordBits - r] * Power2[r]
    BY <1>2, PowerMinus, WordFacts
  <2> QED BY <1>2, <2>1, <2>2
<1>4. Region = b
  <2>1. b * a + 0 = a * b /\ b * a \in Int
    BY Times
  <2>2. (b * a + 0) \div a = b
    BY DivIs
  <2> QED BY <1>3, <2>1, <2>2, WordFacts DEF Region
<1>5. RegionBits = (a - 1) * b
  <2>1. (a - 1) * b = a * b - 1 * b
    BY TimesAdd
  <2> QED BY <1>3, <1>4, <2>1, WordFacts DEF RegionBits
<1>6. RegionBits \in Words
  <2>1. 0 * b <= (a - 1) * b /\ (a - 1) * b < a * b /\ (a - 1) * b \in Int
    BY TimesOrder
  <2> QED BY <1>3, <1>5, <2>1, WordsAre
<1>7. ASSUME NEW k \in 0 .. WordBits - 1 PROVE ~(BitOf(v, k) /\ BitOf(RegionBits, k))
  <2>1. k \in Nat
    BY WordFacts
  <2>2. CASE k < r
    <3>1. a - 1 \in Int /\ ~(k >= r)
      BY <1>2, <2>1, <2>2
    <3>2. ~BitOf((a - 1) * b, k)
      BY <1>2, <1>3, <2>1, <3>1, BitOfMultiple
    <3> QED BY <1>5, <3>2
  <2>3. CASE k >= r
    <3>1. v \in -b .. b - 1 /\ ~(v < 0)
      BY <1>4, WordsAre, WordFacts
    <3>2. ~BitOf(v, k)
      BY <1>2, <1>3, <2>1, <2>3, <3>1, BitOfSmall
    <3> QED BY <3>2
  <2> QED BY <1>2, <2>1, <2>2, <2>3
<1>8. Bits(v) \cap Bits(RegionBits) = {}
  BY <1>7, BitsAre
<1>9. And(v, RegionBits) = 0
  BY <1>8, NoBits DEF And
<1>10. {} \cup Bits(t) = Bits(t)
  OBVIOUS
<1>11. Or(0, t) = t
  BY <1>10, NoBits, OfBitsOf DEF Or
<1> QED BY <1>9, <1>11

-----------------------------------------------------------------------------
(* Bytes.                                                                  *)

\* The values of a byte.
Byte == 0 .. Bytes(1) - 1

\* The word of four bytes, the lowest first.
FromBytes(a, b, c, d) == a + b * Bytes(1) + c * Bytes(2) + d * Bytes(3)

\* The powers of two of one to four bytes, as products.
LEMMA BytesAre ==
  /\ Bytes(0) = 1 /\ Bytes(1) \in Nat \ {0} /\ Bytes(1) >= 4
  /\ Bytes(2) \in Nat \ {0} /\ Bytes(3) \in Nat \ {0} /\ Bytes(4) \in Nat \ {0}
  /\ Bytes(2) = Bytes(1) * Bytes(1)
  /\ Bytes(3) = Bytes(1) * Bytes(2) /\ Bytes(3) = Bytes(2) * Bytes(1)
  /\ Bytes(4) = Bytes(1) * Bytes(3) /\ Bytes(4) = Bytes(3) * Bytes(1) /\ Bytes(4) = Bytes(2) * Bytes(2)
<1>1. /\ ByteBits \in Nat /\ ByteBits * 0 = 0 /\ ByteBits * 1 = ByteBits
      /\ ByteBits * 2 = ByteBits + ByteBits /\ ByteBits * 3 = ByteBits + ByteBits * 2
      /\ ByteBits * 4 = ByteBits + ByteBits * 3 /\ ByteBits * 4 = ByteBits * 2 + ByteBits * 2
      /\ ByteBits * 2 \in Nat /\ ByteBits * 3 \in Nat /\ ByteBits * 4 \in Nat
  BY WordFacts
<1>2. /\ Bytes(0) = 1 /\ Bytes(1) = Power2[ByteBits]
      /\ Bytes(2) = Power2[ByteBits * 2] /\ Bytes(3) = Power2[ByteBits * 3] /\ Bytes(4) = Power2[ByteBits * 4]
  BY <1>1, PowerIs DEF Bytes
<1>3. PICK b \in Nat \ {0}, c \in Nat \ {0}, d \in Nat \ {0}, e \in Nat \ {0} :
        Bytes(1) = b /\ Bytes(2) = c /\ Bytes(3) = d /\ Bytes(4) = e
  BY <1>1, <1>2, PowerNat
<1>4. c = b * b /\ d = b * c /\ e = b * d /\ e = c * c
  <2>1. Power2[ByteBits + ByteBits] = Power2[ByteBits] * Power2[ByteBits]
    BY <1>1, PowerAdd
  <2>2. Power2[ByteBits + ByteBits * 2] = Power2[ByteBits] * Power2[ByteBits * 2]
    BY <1>1, PowerAdd
  <2>3. Power2[ByteBits + ByteBits * 3] = Power2[ByteBits] * Power2[ByteBits * 3]
    BY <1>1, PowerAdd
  <2>4. Power2[ByteBits * 2 + ByteBits * 2] = Power2[ByteBits * 2] * Power2[ByteBits * 2]
    BY <1>1, PowerAdd
  <2> QED BY <1>1, <1>2, <1>3, <2>1, <2>2, <2>3, <2>4
<1>5. b >= 4
  <2>1. Power2[2] = 4
    <3>1. Power2[0 + 1] = 2 /\ Power2[1 + 1] = 2 * Power2[1]
      BY PowerIs
    <3> QED BY <3>1
  <2>2. 2 \in 0 .. ByteBits
    BY WordFacts
  <2> QED BY <1>1, <1>2, <1>3, <2>1, <2>2, PowerMinus
<1>6. b * c = c * b /\ b * d = d * b
  BY Times
<1> QED BY <1>2, <1>3, <1>4, <1>5, <1>6

\* A word of bytes is a number.
LEMMA FromBytesInt ==
  ASSUME NEW a \in Int, NEW b \in Int, NEW c \in Int, NEW d \in Int
  PROVE  FromBytes(a, b, c, d) \in Int
<1>1. Bytes(1) \in Int /\ Bytes(2) \in Int /\ Bytes(3) \in Int
  BY BytesAre
<1>2. b * Bytes(1) \in Int /\ c * Bytes(2) \in Int /\ d * Bytes(3) \in Int
  BY <1>1, Times
<1> QED BY <1>2 DEF FromBytes

\* The parts of a word below and from a byte.
LEMMA SplitBytes ==
  ASSUME NEW a \in Int, NEW b \in Int, NEW c \in Int, NEW d \in Int
  PROVE  /\ FromBytes(a, b, c, d) = FromBytes(a, 0, 0, 0) + FromBytes(0, b, c, d)
         /\ FromBytes(a, b, c, d) = FromBytes(a, b, 0, 0) + FromBytes(0, 0, c, d)
         /\ FromBytes(a, b, c, d) = FromBytes(a, b, c, 0) + FromBytes(0, 0, 0, d)
         /\ FromBytes(a, b, c, d) = FromBytes(a, b, c, d) + FromBytes(0, 0, 0, 0)
         /\ FromBytes(a, b, c, d) = FromBytes(0, 0, 0, 0) + FromBytes(a, b, c, d)
<1>1. Bytes(1) \in Int /\ Bytes(2) \in Int /\ Bytes(3) \in Int
  BY BytesAre
<1>2. PICK x \in Int, y \in Int, z \in Int : x = b * Bytes(1) /\ y = c * Bytes(2) /\ z = d * Bytes(3)
  BY <1>1, Times
<1>3. 0 * Bytes(1) = 0 /\ 0 * Bytes(2) = 0 /\ 0 * Bytes(3) = 0
  BY <1>1
<1> QED BY <1>2, <1>3 DEF FromBytes

\* Division of a word of bytes by a byte drops the lowest one.
LEMMA ByteSum ==
  ASSUME NEW b0 \in Byte, NEW b1 \in Byte, NEW b2 \in Byte, NEW b3 \in Byte
  PROVE  /\ FromBytes(b0, b1, b2, b3) \in Words
         /\ FromBytes(b0, b1, b2, b3) \div Bytes(1) = FromBytes(b1, b2, b3, 0)
         /\ FromBytes(b0, b1, b2, b3) \div Bytes(2) = FromBytes(b2, b3, 0, 0)
         /\ FromBytes(b0, b1, b2, b3) \div Bytes(3) = FromBytes(b3, 0, 0, 0)
         /\ FromBytes(b0, b1, b2, b3) % Bytes(1) = b0
<1>1. PICK p \in Nat \ {0}, q \in Nat \ {0}, r \in Nat \ {0}, s \in Nat \ {0} :
        p = Bytes(1) /\ q = Bytes(2) /\ r = Bytes(3) /\ s = Bytes(4)
  BY BytesAre
<1>2. q = p * p /\ r = p * q /\ s = p * r /\ q * p = r /\ r * p = s /\ p * q = q * p
  BY <1>1, BytesAre, Times
<1> DEFINE h2 == b2 + b3 * p
           h1 == b1 + h2 * p
           h0 == b0 + h1 * p
<1>3. b0 \in 0 .. p - 1 /\ b1 \in 0 .. p - 1 /\ b2 \in 0 .. p - 1 /\ b3 \in 0 .. p - 1
  BY <1>1 DEF Byte
<1>4. h2 \in Int /\ h2 \in 0 .. q - 1
  <2>1. PICK x \in Int : x = b3 * p /\ 0 <= x /\ x <= q - p
    <3>1. 0 * p <= b3 * p /\ b3 * p <= (p - 1) * p
      BY <1>3, TimesOrder
    <3>2. (p - 1) * p = p * p - 1 * p
      BY TimesAdd
    <3> QED BY <1>2, <1>3, <3>1, <3>2
  <2> QED BY <1>3, <2>1
<1>5. h1 = b1 + b2 * p + b3 * q /\ h1 \in Int /\ h1 \in 0 .. r - 1
  <2>1. h2 * p = b2 * p + b3 * q
    <3>1. h2 * p = b2 * p + (b3 * p) * p
      BY <1>3, TimesAdd, Times
    <3>2. (b3 * p) * p = b3 * q
      BY <1>2, <1>3, Times
    <3> QED BY <3>1, <3>2
  <2> HIDE DEF h2
  <2>2. PICK x \in Int : x = h2 * p /\ 0 <= x /\ x <= r - p
    <3>1. 0 * p <= h2 * p /\ h2 * p <= (q - 1) * p
      BY <1>4, TimesOrder
    <3>2. (q - 1) * p = q * p - 1 * p
      BY TimesAdd
    <3> QED BY <1>2, <1>4, <3>1, <3>2
  <2>3. PICK y \in Int, z \in Int : y = b2 * p /\ z = b3 * q
    BY <1>3
  <2> QED BY <1>3, <2>1, <2>2, <2>3
<1> HIDE DEF h1
<1>6. h0 = FromBytes(b0, b1, b2, b3) /\ h0 \in Int /\ h0 \in 0 .. s - 1
  <2>1. h1 * p = b1 * p + b2 * q + b3 * r
    <3>1. PICK x \in Int, y \in Int : x = b2 * p /\ y = b3 * q
      BY <1>3
    <3>2. h1 * p = (b1 + x) * p + y * p /\ (b1 + x) * p = b1 * p + x * p
      BY <1>3, <1>5, <3>1, TimesAdd
    <3>3. x * p = b2 * q /\ y * p = b3 * r
      BY <1>2, <1>3, <3>1, Times
    <3> QED BY <3>2, <3>3
  <2>2. PICK x \in Int : x = h1 * p /\ 0 <= x /\ x <= s - p
    <3>1. 0 * p <= h1 * p /\ h1 * p <= (r - 1) * p
      BY <1>5, TimesOrder
    <3>2. (r - 1) * p = r * p - 1 * p
      BY TimesAdd
    <3> QED BY <1>2, <1>5, <3>1, <3>2
  <2>3. PICK y \in Int, z \in Int, t \in Int : y = b1 * p /\ z = b2 * q /\ t = b3 * r
    BY <1>3
  <2> QED BY <1>1, <1>3, <2>1, <2>2, <2>3 DEF FromBytes
<1>7. h0 \div p = h1 /\ h0 % p = b0
  <2>1. (h1 * p + b0) \div p = h1 /\ (h1 * p + b0) % p = b0
    BY <1>3, <1>5, DivIs
  <2>2. h1 * p + b0 = h0
    BY <1>3, <1>5
  <2> QED BY <2>1, <2>2
<1>8. h1 \div p = h2
  <2>1. (h2 * p + b1) \div p = h2
    BY <1>3, <1>4, DivIs
  <2>2. h2 * p + b1 = h1
    <3> HIDE DEF h2
    <3> QED BY <1>3, <1>4 DEF h1
  <2> QED BY <2>1, <2>2
<1>9. h2 \div p = b3
  <2>1. (b3 * p + b2) \div p = b3
    <3>1. b3 \in Int /\ b2 \in 0 .. p - 1
      BY <1>3
    <3> QED BY <3>1, DivIs
  <2>2. b3 * p + b2 = h2
    BY <1>3
  <2> QED BY <2>1, <2>2
<1> HIDE DEF h0
<1>10. h0 \div q = h2
  BY <1>2, <1>6, <1>7, <1>8, DivDiv
<1>11. h0 \div r = b3
  BY <1>2, <1>6, <1>9, <1>10, DivDiv
<1>12. h1 = FromBytes(b1, b2, b3, 0) /\ h2 = FromBytes(b2, b3, 0, 0) /\ b3 = FromBytes(b3, 0, 0, 0)
  <2>1. PICK x \in Int, y \in Int, z \in Int : x = b2 * p /\ y = b3 * q /\ z = b3 * p
    BY <1>3
  <2>2. 0 * p = 0 /\ 0 * q = 0 /\ 0 * r = 0
    OBVIOUS
  <2> QED BY <1>1, <1>3, <1>5, <2>1, <2>2 DEF FromBytes
<1>13. h0 \in Words
  BY <1>1, <1>6, WordsAre, WordFacts
<1> QED BY <1>1, <1>6, <1>7, <1>10, <1>11, <1>12, <1>13

\* 0 is a byte.
LEMMA ZeroByte == 0 \in Byte
BY BytesAre DEF Byte

\* Every word is one of four bytes.
LEMMA ByteDigits ==
  ASSUME NEW w \in Words
  PROVE  \E b0, b1, b2, b3 \in Byte : w = FromBytes(b0, b1, b2, b3)
<1>1. PICK p \in Nat \ {0}, q \in Nat \ {0}, r \in Nat \ {0}, s \in Nat \ {0} :
        p = Bytes(1) /\ q = Bytes(2) /\ r = Bytes(3) /\ s = Bytes(4)
  BY BytesAre
<1>2. q = p * p /\ r = p * q /\ s = p * r /\ q * p = r /\ r * p = s
  BY <1>1, BytesAre, Times
<1>3. w \in Int /\ 0 <= w /\ w < s
  BY <1>1, WordsAre, WordFacts
<1>4. PICK h1 \in Int, b0 \in 0 .. p - 1 : w = h1 * p + b0
  BY <1>3, DivMod
<1>5. PICK h2 \in Int, b1 \in 0 .. p - 1 : h1 = h2 * p + b1
  BY DivMod
<1>6. PICK b3 \in Int, b2 \in 0 .. p - 1 : h2 = b3 * p + b2
  BY DivMod
<1>7. h1 \in 0 .. r - 1
  <2>1. PICK x \in Int : x = h1 * p /\ x >= 1 - p /\ x < s
    BY <1>3, <1>4
  <2>2. (-1) * p < h1 * p /\ h1 * p < r * p
    <3>1. (-1) * p = -p
      OBVIOUS
    <3> QED BY <1>2, <2>1, <3>1
  <2>3. -1 < h1 /\ h1 < r
    BY <2>2, TimesOrder
  <2> QED BY <2>3
<1>8. h2 \in 0 .. q - 1
  <2>1. PICK x \in Int : x = h2 * p /\ x >= 1 - p /\ x < r
    BY <1>5, <1>7
  <2>2. (-1) * p < h2 * p /\ h2 * p < q * p
    <3>1. (-1) * p = -p
      OBVIOUS
    <3> QED BY <1>2, <2>1, <3>1
  <2>3. -1 < h2 /\ h2 < q
    BY <2>2, TimesOrder
  <2> QED BY <2>3
<1>9. b3 \in 0 .. p - 1
  <2>1. PICK x \in Int : x = b3 * p /\ x >= 1 - p /\ x < q
    BY <1>6, <1>8
  <2>2. (-1) * p < b3 * p /\ b3 * p < p * p
    <3>1. (-1) * p = -p
      OBVIOUS
    <3> QED BY <1>2, <2>1, <3>1
  <2>3. -1 < b3 /\ b3 < p
    BY <2>2, TimesOrder
  <2> QED BY <2>3
<1>10. w = b0 + b1 * p + b2 * q + b3 * r
  <2>1. h2 * p = (b3 * p) * p + b2 * p /\ (b3 * p) * p = b3 * q
    BY <1>2, <1>6, TimesAdd, Times
  <2>2. PICK y \in Int, z \in Int : y = b3 * q /\ z = b2 * p
    BY Times
  <2>3. h1 * p = (y + z) * p + b1 * p /\ (y + z) * p = y * p + z * p
    BY <1>5, <2>1, <2>2, TimesAdd
  <2>4. y * p = b3 * r /\ z * p = b2 * q
    BY <1>2, <2>2, Times
  <2>5. PICK x2 \in Int, y2 \in Int, z2 \in Int : x2 = b1 * p /\ y2 = b2 * q /\ z2 = b3 * r
    BY Times
  <2> QED BY <1>4, <2>3, <2>4, <2>5
<1> QED BY <1>1, <1>9, <1>10 DEF FromBytes, Byte

\* ByteOf finds the bytes of a word.
LEMMA ByteOfSum ==
  ASSUME NEW b0 \in Byte, NEW b1 \in Byte, NEW b2 \in Byte, NEW b3 \in Byte
  PROVE  /\ ByteOf(FromBytes(b0, b1, b2, b3), 0) = b0
         /\ ByteOf(FromBytes(b0, b1, b2, b3), 1) = b1
         /\ ByteOf(FromBytes(b0, b1, b2, b3), 2) = b2
         /\ ByteOf(FromBytes(b0, b1, b2, b3), 3) = b3
<1> DEFINE w == FromBytes(b0, b1, b2, b3)
<1>1. w \div Bytes(0) = w
  <2>1. w \in Int
    BY ByteSum, WordsAre
  <2> HIDE DEF w
  <2> QED BY <2>1, BytesAre
<1>2. /\ w % Bytes(1) = b0 /\ (w \div Bytes(1)) % Bytes(1) = b1
      /\ (w \div Bytes(2)) % Bytes(1) = b2 /\ (w \div Bytes(3)) % Bytes(1) = b3
  BY ByteSum, ZeroByte
<1> QED BY <1>1, <1>2 DEF ByteOf

\* The bytes of a word are bytes.
LEMMA ByteOfByte ==
  ASSUME NEW w \in Words, NEW k \in 0 .. 3
  PROVE  ByteOf(w, k) \in Byte
<1>1. PICK b0 \in Byte, b1 \in Byte, b2 \in Byte, b3 \in Byte : w = FromBytes(b0, b1, b2, b3)
  BY ByteDigits
<1>2. k = 0 \/ k = 1 \/ k = 2 \/ k = 3
  OBVIOUS
<1> QED BY <1>1, <1>2, ByteOfSum

\* A word is the word of its bytes.
LEMMA ByteParts ==
  ASSUME NEW w \in Words
  PROVE  w = FromBytes(ByteOf(w, 0), ByteOf(w, 1), ByteOf(w, 2), ByteOf(w, 3))
<1>1. PICK b0 \in Byte, b1 \in Byte, b2 \in Byte, b3 \in Byte : w = FromBytes(b0, b1, b2, b3)
  BY ByteDigits
<1> QED BY <1>1, ByteOfSum

\* What is below a byte of a word: what the bytes above it leave.
LEMMA Parts ==
  ASSUME NEW b0 \in Byte, NEW b1 \in Byte, NEW b2 \in Byte, NEW b3 \in Byte
  PROVE  /\ FromBytes(0, b1, b2, b3) = FromBytes(b1, b2, b3, 0) * Bytes(1)
         /\ FromBytes(0, 0, b2, b3) = FromBytes(b2, b3, 0, 0) * Bytes(2)
         /\ FromBytes(0, 0, 0, b3) = b3 * Bytes(3)
<1>1. PICK p \in Nat \ {0}, q \in Nat \ {0}, r \in Nat \ {0} :
        /\ p = Bytes(1) /\ q = Bytes(2) /\ r = Bytes(3)
        /\ q = p * p /\ r = p * q /\ r = q * p
  BY BytesAre
<1>2. b0 \in Int /\ b1 \in Int /\ b2 \in Int /\ b3 \in Int
  BY <1>1 DEF Byte
<1>3. 0 * p = 0 /\ 0 * q = 0 /\ 0 * r = 0
  OBVIOUS
<1>4. PICK x2 \in Int, x3 \in Int, y2 \in Int, y3 \in Int :
        x2 = b2 * p /\ x3 = b3 * p /\ y2 = b2 * q /\ y3 = b3 * q
  BY <1>2
<1>5. PICK x1 \in Int, z3 \in Int : x1 = b1 * p /\ z3 = b3 * r
  BY <1>2
<1>6. x2 * p = y2 /\ x3 * p = y3 /\ y3 * p = z3 /\ x3 * q = z3
  BY <1>1, <1>2, <1>4, <1>5, Times
<1>7. (b1 + x2 + y3) * p = x1 + y2 + z3
  <2>1. (b1 + x2 + y3) * p = (b1 + x2) * p + y3 * p /\ (b1 + x2) * p = b1 * p + x2 * p
    BY <1>2, TimesAdd
  <2> QED BY <1>5, <1>6, <2>1
<1>8. (b2 + x3) * q = y2 + z3
  <2>1. (b2 + x3) * q = b2 * q + x3 * q
    BY <1>2, TimesAdd
  <2> QED BY <1>4, <1>6, <2>1
<1>9. /\ FromBytes(0, b1, b2, b3) = x1 + y2 + z3 /\ FromBytes(b1, b2, b3, 0) = b1 + x2 + y3
      /\ FromBytes(0, 0, b2, b3) = y2 + z3 /\ FromBytes(b2, b3, 0, 0) = b2 + x3
      /\ FromBytes(0, 0, 0, b3) = z3
  BY <1>1, <1>2, <1>3, <1>4, <1>5 DEF FromBytes
<1> QED BY <1>1, <1>5, <1>7, <1>8, <1>9

\* What is left by the multiples of p in a sum.
LEMMA RestIs ==
  ASSUME NEW w \in Int, NEW p \in Nat \ {0}, NEW x \in Int, NEW y \in Int, w = x + y, (w \div p) * p = y
  PROVE  w % p = x
<1>1. w % p \in Int /\ w = (w \div p) * p + (w % p)
  BY DivMod
<1>2. PICK r \in Int : r = w % p
  BY <1>1
<1>3. w = y + r
  BY <1>1, <1>2
<1>4. r = x
  BY <1>3
<1> QED BY <1>2, <1>4

\* Lower keeps the low bytes.
LEMMA LowerSum ==
  ASSUME NEW b0 \in Byte, NEW b1 \in Byte, NEW b2 \in Byte, NEW b3 \in Byte
  PROVE  /\ Lower(FromBytes(b0, b1, b2, b3), 0) = FromBytes(0, 0, 0, 0)
         /\ Lower(FromBytes(b0, b1, b2, b3), 1) = FromBytes(b0, 0, 0, 0)
         /\ Lower(FromBytes(b0, b1, b2, b3), 2) = FromBytes(b0, b1, 0, 0)
         /\ Lower(FromBytes(b0, b1, b2, b3), 3) = FromBytes(b0, b1, b2, 0)
         /\ Lower(FromBytes(b0, b1, b2, b3), 4) = FromBytes(b0, b1, b2, b3)
<1>1. PICK p \in Nat \ {0}, q \in Nat \ {0}, r \in Nat \ {0}, s \in Nat \ {0} :
        p = Bytes(1) /\ q = Bytes(2) /\ r = Bytes(3) /\ s = Bytes(4)
  BY BytesAre
<1> DEFINE w == FromBytes(b0, b1, b2, b3)
<1>2. b0 \in Int /\ b1 \in Int /\ b2 \in Int /\ b3 \in Int /\ w \in Int /\ 0 <= w /\ w < s
  <2>1. b0 \in Int /\ b1 \in Int /\ b2 \in Int /\ b3 \in Int
    BY <1>1 DEF Byte
  <2>2. w \in Int /\ 0 <= w /\ w < s
    <3>1. w \in Words
      BY ByteSum
    <3> HIDE DEF w
    <3> QED BY <1>1, <3>1, WordsAre, WordFacts
  <2> QED BY <2>1, <2>2
<1>5. w = FromBytes(b0, 0, 0, 0) + FromBytes(0, b1, b2, b3)
  BY <1>2, SplitBytes
<1>6. w = FromBytes(b0, b1, 0, 0) + FromBytes(0, 0, b2, b3)
  BY <1>2, SplitBytes
<1>7. w = FromBytes(b0, b1, b2, 0) + FromBytes(0, 0, 0, b3)
  BY <1>2, SplitBytes
<1>8. (w \div p) * p = FromBytes(0, b1, b2, b3)
  BY <1>1, ByteSum, Parts
<1>9. (w \div q) * q = FromBytes(0, 0, b2, b3)
  BY <1>1, ByteSum, Parts
<1>10. (w \div r) * r = FromBytes(0, 0, 0, b3)
  <2>1. FromBytes(b3, 0, 0, 0) = b3
    BY <1>2, BytesAre DEF FromBytes
  <2> QED BY <1>1, <2>1, ByteSum, Parts
<1>11. /\ FromBytes(0, b1, b2, b3) \in Int /\ FromBytes(0, 0, b2, b3) \in Int
       /\ FromBytes(0, 0, 0, b3) \in Int /\ FromBytes(b0, 0, 0, 0) \in Int
       /\ FromBytes(b0, b1, 0, 0) \in Int /\ FromBytes(b0, b1, b2, 0) \in Int
  BY <1>2, FromBytesInt
<1>12. w % p = FromBytes(b0, 0, 0, 0) /\ w % q = FromBytes(b0, b1, 0, 0) /\ w % r = FromBytes(b0, b1, b2, 0)
  <2> HIDE DEF w
  <2>1. w % p = FromBytes(b0, 0, 0, 0)
    BY <1>2, <1>5, <1>8, <1>11, RestIs
  <2>2. w % q = FromBytes(b0, b1, 0, 0)
    BY <1>2, <1>6, <1>9, <1>11, RestIs
  <2>3. w % r = FromBytes(b0, b1, b2, 0)
    BY <1>2, <1>7, <1>10, <1>11, RestIs
  <2> QED BY <2>1, <2>2, <2>3
<1>13. w % 1 = 0 /\ w % s = w
  <2> HIDE DEF w
  <2>1. w % 1 = 0
    BY <1>2
  <2>2. w \in 0 .. s - 1
    BY <1>2
  <2>3. (0 * s + w) % s = w /\ 0 * s + w = w
    BY <2>2, DivIs
  <2> QED BY <2>1, <2>3
<1>14. FromBytes(0, 0, 0, 0) = 0
  BY BytesAre DEF FromBytes
<1> QED BY <1>1, <1>12, <1>13, <1>14, BytesAre DEF Lower

\* A word raised by bytes loses the high ones.
LEMMA RaiseSum ==
  ASSUME NEW b0 \in Byte, NEW b1 \in Byte, NEW b2 \in Byte, NEW b3 \in Byte
  PROVE  /\ Word(FromBytes(b0, b1, b2, b3) * Bytes(0)) = FromBytes(b0, b1, b2, b3)
         /\ Word(FromBytes(b0, b1, b2, b3) * Bytes(1)) = FromBytes(0, b0, b1, b2)
         /\ Word(FromBytes(b0, b1, b2, b3) * Bytes(2)) = FromBytes(0, 0, b0, b1)
         /\ Word(FromBytes(b0, b1, b2, b3) * Bytes(3)) = FromBytes(0, 0, 0, b0)
<1>1. PICK p \in Nat \ {0}, q \in Nat \ {0}, r \in Nat \ {0}, s \in Nat \ {0} :
        /\ p = Bytes(1) /\ q = Bytes(2) /\ r = Bytes(3) /\ s = Bytes(4)
        /\ q = p * p /\ r = p * q /\ r = q * p /\ s = r * p /\ s = q * q /\ s = p * r
  BY BytesAre
<1> DEFINE w == FromBytes(b0, b1, b2, b3)
<1>2. b0 \in Int /\ b1 \in Int /\ b2 \in Int /\ b3 \in Int /\ w \in Int /\ w \in 0 .. s - 1
  <2>1. b0 \in Int /\ b1 \in Int /\ b2 \in Int /\ b3 \in Int
    BY <1>1 DEF Byte
  <2>2. w \in Int /\ 0 <= w /\ w < s
    <3>1. w \in Words
      BY ByteSum
    <3> HIDE DEF w
    <3> QED BY <1>1, <3>1, WordsAre, WordFacts
  <2> QED BY <2>1, <2>2
<1>3. b0 \in Int /\ b1 \in Int /\ b2 \in Int /\ b3 \in Int
  BY <1>2
<1>4. Word(w * p) = FromBytes(0, b0, b1, b2)
  <2>1. PICK l \in Int : l = FromBytes(b0, b1, b2, 0)
    <3>1. FromBytes(b0, b1, b2, 0) \in Int
      BY <1>3, FromBytesInt
    <3> QED BY <3>1
  <2>2. w = b3 * r + l
    <3>1. FromBytes(b0, b1, b2, 0) + FromBytes(0, 0, 0, b3) = w
      BY <1>2, SplitBytes
    <3>2. FromBytes(0, 0, 0, b3) = b3 * r
      BY <1>1, Parts
    <3>3. b3 * r \in Int
      BY <1>2
    <3> HIDE DEF w
    <3> QED BY <2>1, <3>1, <3>2, <3>3
  <2>3. l * p = FromBytes(0, b0, b1, b2)
    BY <1>1, <2>1, Parts
  <2>4. l * p \in 0 .. s - 1
    <3>1. FromBytes(0, b0, b1, b2) \in Words
      BY ZeroByte, ByteSum
    <3> QED BY <1>1, <2>3, <3>1, WordsAre, WordFacts
  <2> HIDE DEF w
  <2>5. Word(w * p) = l * p
    <3>1. w * p = (b3 * r) * p + l * p
      BY <1>2, <1>3, <2>1, <2>2, TimesAdd, Times
    <3>2. (b3 * r) * p = b3 * s
      BY <1>1, <1>3, Times
    <3>3. PICK c \in 0 .. s - 1 : c = l * p
      BY <2>4
    <3>4. (b3 * s + c) % s = c
      BY <1>3, <3>3, DivIs
    <3> QED BY <1>1, <3>1, <3>2, <3>3, <3>4 DEF Word
  <2> QED BY <2>3, <2>5
<1>5. Word(w * q) = FromBytes(0, 0, b0, b1)
  <2>1. PICK l \in Int : l = FromBytes(b0, b1, 0, 0)
    <3>1. FromBytes(b0, b1, 0, 0) \in Int
      BY <1>3, FromBytesInt
    <3> QED BY <3>1
  <2>2. PICK h \in Int : w = h * q + l
    <3>1. FromBytes(b0, b1, 0, 0) + FromBytes(0, 0, b2, b3) = w
      BY <1>2, SplitBytes
    <3>2. PICK h \in Int : h = FromBytes(b2, b3, 0, 0)
      <4>1. FromBytes(b2, b3, 0, 0) \in Int
        BY <1>3, FromBytesInt
      <4> QED BY <4>1
    <3>3. FromBytes(0, 0, b2, b3) = h * q
      BY <1>1, <3>2, Parts
    <3>4. h * q \in Int
      OBVIOUS
    <3> HIDE DEF w
    <3>5. w = h * q + l
      BY <2>1, <3>1, <3>3, <3>4
    <3> QED BY <3>5
  <2>3. l * q = FromBytes(0, 0, b0, b1)
    BY <1>1, <2>1, Parts
  <2>4. l * q \in 0 .. s - 1
    <3>1. FromBytes(0, 0, b0, b1) \in Words
      BY ZeroByte, ByteSum
    <3> QED BY <1>1, <2>3, <3>1, WordsAre, WordFacts
  <2> HIDE DEF w
  <2>5. Word(w * q) = l * q
    <3>1. w * q = (h * q) * q + l * q
      BY <1>2, <1>3, <2>1, <2>2, TimesAdd, Times
    <3>2. (h * q) * q = h * s
      BY <1>1, <1>3, Times
    <3>3. PICK c \in 0 .. s - 1 : c = l * q
      BY <2>4
    <3>4. (h * s + c) % s = c
      BY <1>3, <3>3, DivIs
    <3> QED BY <1>1, <3>1, <3>2, <3>3, <3>4 DEF Word
  <2> QED BY <2>3, <2>5
<1>6. Word(w * r) = FromBytes(0, 0, 0, b0)
  <2>1. FromBytes(b0, 0, 0, 0) = b0
    BY <1>2, BytesAre DEF FromBytes
  <2>2. PICK h \in Int : w = h * p + b0
    <3>1. FromBytes(b0, 0, 0, 0) + FromBytes(0, b1, b2, b3) = w
      BY <1>2, SplitBytes
    <3>2. PICK h \in Int : h = FromBytes(b1, b2, b3, 0)
      <4>1. FromBytes(b1, b2, b3, 0) \in Int
        BY <1>3, FromBytesInt
      <4> QED BY <4>1
    <3>3. FromBytes(0, b1, b2, b3) = h * p
      BY <1>1, <3>2, Parts
    <3>4. h * p \in Int
      OBVIOUS
    <3> HIDE DEF w
    <3> QED BY <1>2, <2>1, <3>1, <3>3, <3>4
  <2>3. b0 * r = FromBytes(0, 0, 0, b0)
    BY <1>1, Parts
  <2>4. b0 * r \in 0 .. s - 1
    <3>1. FromBytes(0, 0, 0, b0) \in Words
      BY ZeroByte, ByteSum
    <3> QED BY <1>1, <2>3, <3>1, WordsAre, WordFacts
  <2> HIDE DEF w
  <2>5. Word(w * r) = b0 * r
    <3>1. w * r = (h * p) * r + b0 * r
      BY <1>2, <1>3, <2>1, <2>2, TimesAdd, Times
    <3>2. (h * p) * r = h * s
      BY <1>1, <1>3, Times
    <3>3. PICK c \in 0 .. s - 1 : c = b0 * r
      BY <2>4
    <3>4. (h * s + c) % s = c
      BY <1>3, <3>3, DivIs
    <3> QED BY <1>1, <3>1, <3>2, <3>3, <3>4 DEF Word
  <2> QED BY <2>3, <2>5
<1>7. Word(w * 1) = w
  <2> HIDE DEF w
  <2>1. (0 * s + w) % s = w /\ 0 * s + w = w /\ w * 1 = w
    BY <1>2, DivIs
  <2> QED BY <1>1, <2>1 DEF Word
<1> QED BY <1>1, <1>4, <1>5, <1>6, <1>7, BytesAre

\* The low bytes of v below those of w raised, and the high bytes of v above those
\* of w lowered.
LEMMA MergeAbove ==
  ASSUME NEW v \in Words, NEW w \in Words, NEW j \in 0 .. 3
  PROVE  /\ Lower(v, j) + Word(w * Bytes(j)) \in Words
         /\ \A k \in 0 .. 3 : ByteOf(Lower(v, j) + Word(w * Bytes(j)), k)
                                = IF k >= j THEN ByteOf(w, k - j) ELSE ByteOf(v, k)
<1>1. PICK v0 \in Byte, v1 \in Byte, v2 \in Byte, v3 \in Byte : v = FromBytes(v0, v1, v2, v3)
  BY ByteDigits
<1>2. PICK w0 \in Byte, w1 \in Byte, w2 \in Byte, w3 \in Byte : w = FromBytes(w0, w1, w2, w3)
  BY ByteDigits
<1>3. /\ v0 \in Int /\ v1 \in Int /\ v2 \in Int /\ v3 \in Int
      /\ w0 \in Int /\ w1 \in Int /\ w2 \in Int /\ w3 \in Int
  BY BytesAre DEF Byte
<1>4. /\ ByteOf(v, 0) = v0 /\ ByteOf(v, 1) = v1 /\ ByteOf(v, 2) = v2 /\ ByteOf(v, 3) = v3
      /\ ByteOf(w, 0) = w0 /\ ByteOf(w, 1) = w1 /\ ByteOf(w, 2) = w2 /\ ByteOf(w, 3) = w3
  BY <1>1, <1>2, ByteOfSum
<1>5. CASE j = 0
  <2>1. Lower(v, 0) = FromBytes(0, 0, 0, 0) /\ Word(w * Bytes(0)) = FromBytes(w0, w1, w2, w3)
    BY <1>1, <1>2, LowerSum, RaiseSum
  <2>2. Lower(v, 0) + Word(w * Bytes(0)) = w
    BY <1>2, <1>3, <2>1, SplitBytes
  <2>3. \A k \in 0 .. 3 : k >= 0 /\ k - 0 = k
    OBVIOUS
  <2> QED BY <1>5, <2>2, <2>3
<1>6. CASE j = 1
  <2>1. Lower(v, 1) = FromBytes(v0, 0, 0, 0) /\ Word(w * Bytes(1)) = FromBytes(0, w0, w1, w2)
    BY <1>1, <1>2, LowerSum, RaiseSum
  <2>2. PICK x : x = Lower(v, 1) + Word(w * Bytes(1)) /\ x = FromBytes(v0, w0, w1, w2)
    BY <1>3, <2>1, SplitBytes
  <2>3. x \in Words /\ ByteOf(x, 0) = v0 /\ ByteOf(x, 1) = w0 /\ ByteOf(x, 2) = w1 /\ ByteOf(x, 3) = w2
    BY <2>2, ByteSum, ByteOfSum
  <2>4. \A k \in 0 .. 3 : ByteOf(x, k) = IF k >= 1 THEN ByteOf(w, k - 1) ELSE ByteOf(v, k)
    BY <1>4, <2>3
  <2> QED BY <1>6, <2>2, <2>3, <2>4
<1>7. CASE j = 2
  <2>1. Lower(v, 2) = FromBytes(v0, v1, 0, 0) /\ Word(w * Bytes(2)) = FromBytes(0, 0, w0, w1)
    BY <1>1, <1>2, LowerSum, RaiseSum
  <2>2. PICK x : x = Lower(v, 2) + Word(w * Bytes(2)) /\ x = FromBytes(v0, v1, w0, w1)
    BY <1>3, <2>1, SplitBytes
  <2>3. x \in Words /\ ByteOf(x, 0) = v0 /\ ByteOf(x, 1) = v1 /\ ByteOf(x, 2) = w0 /\ ByteOf(x, 3) = w1
    BY <2>2, ByteSum, ByteOfSum
  <2>4. \A k \in 0 .. 3 : ByteOf(x, k) = IF k >= 2 THEN ByteOf(w, k - 2) ELSE ByteOf(v, k)
    BY <1>4, <2>3
  <2> QED BY <1>7, <2>2, <2>3, <2>4
<1>8. CASE j = 3
  <2>1. Lower(v, 3) = FromBytes(v0, v1, v2, 0) /\ Word(w * Bytes(3)) = FromBytes(0, 0, 0, w0)
    BY <1>1, <1>2, LowerSum, RaiseSum
  <2>2. PICK x : x = Lower(v, 3) + Word(w * Bytes(3)) /\ x = FromBytes(v0, v1, v2, w0)
    BY <1>3, <2>1, SplitBytes
  <2>3. x \in Words /\ ByteOf(x, 0) = v0 /\ ByteOf(x, 1) = v1 /\ ByteOf(x, 2) = v2 /\ ByteOf(x, 3) = w0
    BY <2>2, ByteSum, ByteOfSum
  <2>4. \A k \in 0 .. 3 : ByteOf(x, k) = IF k >= 3 THEN ByteOf(w, k - 3) ELSE ByteOf(v, k)
    BY <1>4, <2>3
  <2> QED BY <1>8, <2>2, <2>3, <2>4
<1> QED BY <1>5, <1>6, <1>7, <1>8

\* The merge of LWR and SWL: the high bytes of one word over the low bytes of another.
LEMMA MergeBelow ==
  ASSUME NEW v \in Words, NEW w \in Words, NEW j \in 0 .. 3
  PROVE  /\ v - Lower(v, 4 - j) + w \div Bytes(j) \in Words
         /\ \A k \in 0 .. 3 : ByteOf(v - Lower(v, 4 - j) + w \div Bytes(j), k)
                                = IF k + j <= 3 THEN ByteOf(w, k + j) ELSE ByteOf(v, k)
<1>1. PICK v0 \in Byte, v1 \in Byte, v2 \in Byte, v3 \in Byte : v = FromBytes(v0, v1, v2, v3)
  BY ByteDigits
<1>2. PICK w0 \in Byte, w1 \in Byte, w2 \in Byte, w3 \in Byte : w = FromBytes(w0, w1, w2, w3)
  BY ByteDigits
<1>3. /\ v0 \in Int /\ v1 \in Int /\ v2 \in Int /\ v3 \in Int
      /\ w0 \in Int /\ w1 \in Int /\ w2 \in Int /\ w3 \in Int /\ 0 \in Int
  BY BytesAre DEF Byte
<1>4. /\ ByteOf(v, 0) = v0 /\ ByteOf(v, 1) = v1 /\ ByteOf(v, 2) = v2 /\ ByteOf(v, 3) = v3
      /\ ByteOf(w, 0) = w0 /\ ByteOf(w, 1) = w1 /\ ByteOf(w, 2) = w2 /\ ByteOf(w, 3) = w3
  BY <1>1, <1>2, ByteOfSum
<1>5. CASE j = 0
  <2>1. Lower(v, 4) = v /\ w \div 1 = w /\ v \in Int /\ w \in Int
    BY <1>1, LowerSum, WordsAre
  <2>2. v - Lower(v, 4) + w \div Bytes(0) = w
    BY <2>1, BytesAre
  <2>3. 4 - 0 = 4 /\ \A k \in 0 .. 3 : k + 0 <= 3 /\ k + 0 = k
    OBVIOUS
  <2> QED BY <1>5, <2>2, <2>3
<1>6. CASE j = 1
  <2>1. Lower(v, 3) = FromBytes(v0, v1, v2, 0) /\ w \div Bytes(1) = FromBytes(w1, w2, w3, 0)
    BY <1>1, <1>2, LowerSum, ByteSum
  <2>2. v - Lower(v, 3) = FromBytes(0, 0, 0, v3)
    <3>1. FromBytes(v0, v1, v2, 0) \in Int /\ FromBytes(0, 0, 0, v3) \in Int
      BY <1>3, FromBytesInt, Zenon
    <3>2. v = FromBytes(v0, v1, v2, 0) + FromBytes(0, 0, 0, v3)
      BY <1>1, <1>3, SplitBytes
    <3> QED BY <2>1, <3>1, <3>2
  <2>3. FromBytes(0, 0, 0, v3) + FromBytes(w1, w2, w3, 0) = FromBytes(w1, w2, w3, v3)
    <3>1. FromBytes(w1, w2, w3, 0) \in Int /\ FromBytes(0, 0, 0, v3) \in Int
      BY <1>3, FromBytesInt, Zenon
    <3>2. FromBytes(w1, w2, w3, v3) = FromBytes(w1, w2, w3, 0) + FromBytes(0, 0, 0, v3)
      BY <1>3, SplitBytes
    <3> QED BY <3>1, <3>2
  <2>4. PICK x : x = v - Lower(v, 3) + w \div Bytes(1) /\ x = FromBytes(w1, w2, w3, v3)
    BY <2>1, <2>2, <2>3
  <2>5. x \in Words /\ ByteOf(x, 0) = w1 /\ ByteOf(x, 1) = w2 /\ ByteOf(x, 2) = w3 /\ ByteOf(x, 3) = v3
    BY <2>4, ByteSum, ByteOfSum
  <2>6. \A k \in 0 .. 3 : ByteOf(x, k) = IF k + 1 <= 3 THEN ByteOf(w, k + 1) ELSE ByteOf(v, k)
    BY <1>4, <2>5
  <2>7. 4 - 1 = 3
    OBVIOUS
  <2> QED BY <1>6, <2>4, <2>5, <2>6, <2>7
<1>7. CASE j = 2
  <2>1. Lower(v, 2) = FromBytes(v0, v1, 0, 0) /\ w \div Bytes(2) = FromBytes(w2, w3, 0, 0)
    BY <1>1, <1>2, LowerSum, ByteSum
  <2>2. v - Lower(v, 2) = FromBytes(0, 0, v2, v3)
    <3>1. FromBytes(v0, v1, 0, 0) \in Int /\ FromBytes(0, 0, v2, v3) \in Int
      BY <1>3, FromBytesInt, Zenon
    <3>2. v = FromBytes(v0, v1, 0, 0) + FromBytes(0, 0, v2, v3)
      BY <1>1, <1>3, SplitBytes
    <3> QED BY <2>1, <3>1, <3>2
  <2>3. FromBytes(0, 0, v2, v3) + FromBytes(w2, w3, 0, 0) = FromBytes(w2, w3, v2, v3)
    <3>1. FromBytes(w2, w3, 0, 0) \in Int /\ FromBytes(0, 0, v2, v3) \in Int
      BY <1>3, FromBytesInt, Zenon
    <3>2. FromBytes(w2, w3, v2, v3) = FromBytes(w2, w3, 0, 0) + FromBytes(0, 0, v2, v3)
      BY <1>3, SplitBytes
    <3> QED BY <3>1, <3>2
  <2>4. PICK x : x = v - Lower(v, 2) + w \div Bytes(2) /\ x = FromBytes(w2, w3, v2, v3)
    BY <2>1, <2>2, <2>3
  <2>5. x \in Words /\ ByteOf(x, 0) = w2 /\ ByteOf(x, 1) = w3 /\ ByteOf(x, 2) = v2 /\ ByteOf(x, 3) = v3
    BY <2>4, ByteSum, ByteOfSum
  <2>6. \A k \in 0 .. 3 : ByteOf(x, k) = IF k + 2 <= 3 THEN ByteOf(w, k + 2) ELSE ByteOf(v, k)
    BY <1>4, <2>5
  <2>7. 4 - 2 = 2
    OBVIOUS
  <2> QED BY <1>7, <2>4, <2>5, <2>6, <2>7
<1>8. CASE j = 3
  <2>1. Lower(v, 1) = FromBytes(v0, 0, 0, 0) /\ w \div Bytes(3) = FromBytes(w3, 0, 0, 0)
    BY <1>1, <1>2, LowerSum, ByteSum
  <2>2. v - Lower(v, 1) = FromBytes(0, v1, v2, v3)
    <3>1. FromBytes(v0, 0, 0, 0) \in Int /\ FromBytes(0, v1, v2, v3) \in Int
      BY <1>3, FromBytesInt, Zenon
    <3>2. v = FromBytes(v0, 0, 0, 0) + FromBytes(0, v1, v2, v3)
      BY <1>1, <1>3, SplitBytes
    <3> QED BY <2>1, <3>1, <3>2
  <2>3. FromBytes(0, v1, v2, v3) + FromBytes(w3, 0, 0, 0) = FromBytes(w3, v1, v2, v3)
    <3>1. FromBytes(w3, 0, 0, 0) \in Int /\ FromBytes(0, v1, v2, v3) \in Int
      BY <1>3, FromBytesInt, Zenon
    <3>2. FromBytes(w3, v1, v2, v3) = FromBytes(w3, 0, 0, 0) + FromBytes(0, v1, v2, v3)
      BY <1>3, SplitBytes
    <3> QED BY <3>1, <3>2
  <2>4. PICK x : x = v - Lower(v, 1) + w \div Bytes(3) /\ x = FromBytes(w3, v1, v2, v3)
    BY <2>1, <2>2, <2>3
  <2>5. x \in Words /\ ByteOf(x, 0) = w3 /\ ByteOf(x, 1) = v1 /\ ByteOf(x, 2) = v2 /\ ByteOf(x, 3) = v3
    BY <2>4, ByteSum, ByteOfSum
  <2>6. \A k \in 0 .. 3 : ByteOf(x, k) = IF k + 3 <= 3 THEN ByteOf(w, k + 3) ELSE ByteOf(v, k)
    BY <1>4, <2>5
  <2>7. 4 - 3 = 1
    OBVIOUS
  <2> QED BY <1>8, <2>4, <2>5, <2>6, <2>7
<1> QED BY <1>5, <1>6, <1>7, <1>8

-----------------------------------------------------------------------------
(* Integers as words.                                                      *)

\* Integers that differ by a multiple of the words' number have the same word.
LEMMA SameWord ==
  ASSUME NEW x \in Int, NEW y \in Int, NEW c \in Int, x = c * Bytes(4) + y
  PROVE  Word(x) = Word(y)
<1>1. PICK p \in Nat \ {0} : p = Bytes(4)
  BY BytesAre
<1>2. PICK q \in Int, r \in 0 .. p - 1 : y = q * p + r
  BY DivMod
<1>3. x = (c + q) * p + r
  <2>1. (c + q) * p = c * p + q * p /\ c * p \in Int /\ q * p \in Int
    BY TimesAdd
  <2> QED BY <1>1, <1>2, <2>1
<1>4. x % p = r /\ y % p = r
  <2>1. PICK d \in Int : d = c + q
    OBVIOUS
  <2>2. (d * p + r) % p = r /\ (q * p + r) % p = r
    BY DivIs
  <2> QED BY <1>2, <1>3, <2>1, <2>2
<1> QED BY <1>1, <1>4 DEF Word

\* A word is its own word.
LEMMA WordOfWord ==
  ASSUME NEW w \in Words
  PROVE  Word(w) = w
<1>1. PICK p \in Nat \ {0} : p = Bytes(4)
  BY BytesAre
<1>2. w \in 0 .. p - 1
  BY <1>1, WordsAre, WordFacts
<1>3. (0 * p + w) % p = w /\ 0 * p + w = w
  BY <1>2, DivIs
<1> QED BY <1>1, <1>3 DEF Word

\* A word and the integer it is of differ by a multiple.
LEMMA WordDiffers ==
  ASSUME NEW x \in Int
  PROVE  \E c \in Int : x = c * Bytes(4) + Word(x)
<1>1. PICK p \in Nat \ {0} : p = Bytes(4)
  BY BytesAre
<1>2. x \div p \in Int /\ x = (x \div p) * p + (x % p)
  BY DivMod
<1> QED BY <1>1, <1>2 DEF Word

\* Sums and differences may be cut to words early.
LEMMA WordAdds ==
  ASSUME NEW x \in Int, NEW y \in Int
  PROVE  /\ Word(x + Word(y)) = Word(x + y) /\ Word(Word(x) + y) = Word(x + y)
         /\ Word(x - Word(y)) = Word(x - y) /\ Word(Word(x) - y) = Word(x - y)
<1>1. Word(x) \in Int /\ Word(y) \in Int
  BY WordIs, WordsAre
<1>2. PICK c \in Int : y = c * Bytes(4) + Word(y)
  BY WordDiffers
<1>3. PICK d \in Int : x = d * Bytes(4) + Word(x)
  BY WordDiffers
<1>4. PICK p \in Nat \ {0} : p = Bytes(4)
  BY BytesAre
<1>5. PICK u \in Int, v \in Int, e \in Int : u = c * p /\ v = d * p /\ e = -c /\ e * p = -u
  <2>1. (-c) * p = -(c * p) /\ -c \in Int
    BY TimesAdd
  <2> QED BY <2>1, Times
<1>13. PICK i \in Int, j \in Int : i = Word(x) /\ j = Word(y) /\ x = v + i /\ y = u + j
  BY <1>1, <1>2, <1>3, <1>4, <1>5
<1>6. x + y = c * Bytes(4) + (x + Word(y)) /\ x + y = d * Bytes(4) + (Word(x) + y)
  <2>1. x + y = u + (x + j) /\ x + y = v + (i + y)
    BY <1>13
  <2> QED BY <1>4, <1>5, <1>13, <2>1
<1>7. x - y = e * Bytes(4) + (x - Word(y)) /\ x - y = d * Bytes(4) + (Word(x) - y)
  <2>1. x - y = -u + (x - j) /\ x - y = v + (i - y)
    BY <1>13
  <2> QED BY <1>4, <1>5, <1>13, <2>1
<1>8. /\ x + y \in Int /\ x + Word(y) \in Int /\ Word(x) + y \in Int
      /\ x - y \in Int /\ x - Word(y) \in Int /\ Word(x) - y \in Int
  BY <1>1
<1>9. Word(x + y) = Word(x + Word(y))
  BY <1>6, <1>8, SameWord
<1>10. Word(x + y) = Word(Word(x) + y)
  BY <1>6, <1>8, SameWord
<1>11. Word(x - y) = Word(x - Word(y))
  BY <1>7, <1>8, SameWord
<1>12. Word(x - y) = Word(Word(x) - y)
  BY <1>7, <1>8, SameWord
<1> QED BY <1>9, <1>10, <1>11, <1>12

\* The integer that a word is, in its range.
LEMMA SignedInt ==
  ASSUME NEW w \in Words
  PROVE  Signed(w) \in Int /\ Signed(w) >= Least /\ Signed(w) <= Greatest /\ Word(Signed(w)) = w
<1>1. /\ Signed(w) \in -SIGN_BIT .. SIGN_BIT - 1 /\ SIGN_BIT \in Nat \ {0} /\ Word(Signed(w)) = w
      /\ Bytes(4) = 2 * SIGN_BIT
  BY TopBit
<1>2. Least = -SIGN_BIT /\ Greatest = SIGN_BIT - 1
  <2>1. (2 * SIGN_BIT) \div 2 = SIGN_BIT
    BY <1>1
  <2> QED BY <1>1, <2>1 DEF Least, Greatest
<1> QED BY <1>1, <1>2

\* The integer that a word has after a sum or a difference of two integers.
LEMMA Wrapped ==
  ASSUME NEW x \in Int, -Bytes(4) <= x, x < Bytes(4)
  PROVE  /\ Signed(Word(x)) = IF x > Greatest THEN x - Bytes(4) ELSE IF x < Least THEN x + Bytes(4) ELSE x
         /\ Word(x) \in Words
<1>1. PICK p \in Nat \ {0}, h \in Nat \ {0} : p = Bytes(4) /\ p = 2 * h /\ h = SIGN_BIT
  <2>1. 0 \in Words
    BY NoBits
  <2> QED BY <2>1, TopBit
<1>2. Least = -h /\ Greatest = h - 1
  <2>1. (2 * h) \div 2 = h
    BY <1>1
  <2> QED BY <1>1, <2>1 DEF Least, Greatest
<1>3. Word(x) \in Words
  BY WordIs
<1>4. Signed(Word(x)) = IF Word(x) >= h THEN Word(x) - p ELSE Word(x)
  BY <1>1, <1>3, TopBit
<1>5. CASE x >= 0
  <2>1. Word(x) = x
    <3>1. x \in Words
      BY <1>5, WordsAre, WordFacts
    <3> QED BY <3>1, WordOfWord
  <2> QED BY <1>1, <1>2, <1>3, <1>4, <1>5, <2>1
<1>6. CASE x < 0
  <2>1. Word(x) = x + p
    <3>1. PICK c \in 0 .. p - 1 : c = x + p /\ x = (-1) * p + c
      <4>1. x + p \in 0 .. p - 1 /\ x = (-1) * p + (x + p)
        BY <1>1, <1>6
      <4> QED BY <4>1
    <3>2. x % p = c
      <4>1. ((-1) * p + c) % p = c /\ -1 \in Int
        BY DivIs
      <4> QED BY <3>1, <4>1
    <3> QED BY <1>1, <3>1, <3>2 DEF Word
  <2> QED BY <1>1, <1>2, <1>3, <1>4, <1>6, <2>1
<1> QED BY <1>3, <1>5, <1>6

\* The tests of the signs find the sums and differences that do not fit.
LEMMA OverflowIs ==
  ASSUME NEW v \in Words, NEW w \in Words
  PROVE  /\ Word(v + w) = Word(Signed(v) + Signed(w))
         /\ Word(v - w) = Word(Signed(v) - Signed(w))
         /\ SameSign(v, w) /\ ~SameSign(v, Word(v + w))
              <=> Signed(v) + Signed(w) < Least \/ Signed(v) + Signed(w) > Greatest
         /\ SameSign(v, w) /\ ~SameSign(w, Word(v + w))
              <=> Signed(v) + Signed(w) < Least \/ Signed(v) + Signed(w) > Greatest
         /\ ~SameSign(v, w) /\ ~SameSign(v, Word(v - w))
              <=> Signed(v) - Signed(w) < Least \/ Signed(v) - Signed(w) > Greatest
<1>1. PICK s \in Int, t \in Int : s = Signed(v) /\ t = Signed(w) /\ Word(s) = v /\ Word(t) = w
  BY SignedInt
<1>2. PICK h \in Nat \ {0} : Bytes(4) = 2 * h /\ Least = -h /\ Greatest = h - 1
  <2>1. PICK h \in Nat \ {0} : Bytes(4) = 2 * h
    BY TopBit
  <2>2. (2 * h) \div 2 = h
    OBVIOUS
  <2> QED BY <2>1, <2>2 DEF Least, Greatest
<1>3. s >= -h /\ s < h /\ t >= -h /\ t < h
  BY <1>1, <1>2, SignedInt
<1>4. Word(v + w) = Word(s + t)
  <2>1. v \in Int /\ w \in Int
    BY WordsAre
  <2>2. Word(s + Word(t)) = Word(s + t) /\ Word(Word(s) + w) = Word(s + w)
    BY <2>1, WordAdds
  <2> QED BY <1>1, <2>2
<1>5. Word(v - w) = Word(s - t)
  <2>1. v \in Int /\ w \in Int
    BY WordsAre
  <2>2. Word(s - Word(t)) = Word(s - t) /\ Word(Word(s) - w) = Word(s - w)
    BY <2>1, WordAdds
  <2> QED BY <1>1, <2>2
<1>6. PICK x \in Int : x = s + t /\ -Bytes(4) <= x /\ x < Bytes(4)
  BY <1>2, <1>3
<1>7. /\ Signed(Word(x)) = IF x > Greatest THEN x - Bytes(4) ELSE IF x < Least THEN x + Bytes(4) ELSE x
      /\ Word(x) \in Words
  BY <1>6, Wrapped
<1>8. PICK y \in Int : y = s - t /\ -Bytes(4) <= y /\ y < Bytes(4)
  BY <1>2, <1>3
<1>9. /\ Signed(Word(y)) = IF y > Greatest THEN y - Bytes(4) ELSE IF y < Least THEN y + Bytes(4) ELSE y
      /\ Word(y) \in Words
  BY <1>8, Wrapped
<1>10. /\ SameSign(v, w) <=> (s < 0 <=> t < 0)
       /\ SameSign(v, Word(x)) <=> (s < 0 <=> Signed(Word(x)) < 0)
       /\ SameSign(w, Word(x)) <=> (t < 0 <=> Signed(Word(x)) < 0)
       /\ SameSign(v, Word(y)) <=> (s < 0 <=> Signed(Word(y)) < 0)
  BY <1>1, <1>7, <1>9, SameSigns DEF Negative
<1>11. SameSign(v, w) /\ ~SameSign(v, Word(x)) <=> x < Least \/ x > Greatest
  BY <1>2, <1>3, <1>6, <1>7, <1>10
<1>12. SameSign(v, w) /\ ~SameSign(w, Word(x)) <=> x < Least \/ x > Greatest
  BY <1>2, <1>3, <1>6, <1>7, <1>10
<1>13. ~SameSign(v, w) /\ ~SameSign(v, Word(y)) <=> y < Least \/ y > Greatest
  BY <1>2, <1>3, <1>8, <1>9, <1>10
<1> QED BY <1>1, <1>4, <1>5, <1>6, <1>8, <1>11, <1>12, <1>13

\* C's quotient and remainder.
LEMMA QuotientIs ==
  ASSUME NEW n \in Int, NEW d \in Int, d # 0
  PROVE  /\ Quotient(n, d) \in Int /\ d * Quotient(n, d) \in Int
         /\ n = Quotient(n, d) * d + (n - d * Quotient(n, d))
         /\ n - d * Quotient(n, d) < 0 => n < 0
         /\ n - d * Quotient(n, d) > 0 => n > 0
         /\ (IF n - d * Quotient(n, d) < 0 THEN -(n - d * Quotient(n, d)) ELSE n - d * Quotient(n, d))
              < (IF d < 0 THEN -d ELSE d)
         /\ Quotient(n, d) >= -(IF n < 0 THEN -n ELSE n) /\ Quotient(n, d) <= (IF n < 0 THEN -n ELSE n)
         /\ Quotient(n, d) = (IF n < 0 THEN -n ELSE n) => n = 0 \/ d = 1 \/ (n < 0 /\ d = -1)
         /\ n >= 0 /\ d > 0 => Quotient(n, d) >= 0
<1>1. PICK a \in Nat, b \in Nat \ {0} : a = (IF n < 0 THEN -n ELSE n) /\ b = (IF d < 0 THEN -d ELSE d)
  OBVIOUS
<1>2. PICK q \in Int, r \in 0 .. b - 1 : q = a \div b /\ a = q * b + r
  BY DivMod
<1>3. Quotient(n, d) = IF (n < 0) = (d < 0) THEN q ELSE -q
  BY <1>1, <1>2 DEF Quotient
<1>4. PICK x \in Int : x = q * b /\ q * b = b * q /\ (-q) * b = -x /\ q * (-b) = -x /\ (-q) * (-b) = x
  BY Times
<1>5. x = a - r
  BY <1>2, <1>4
<1>6. q >= 0
  <2>1. (-1) * b < q * b
    BY <1>2, <1>4, <1>5
  <2>2. -1 \in Int /\ -1 < q
    BY <2>1, TimesOrder
  <2> QED BY <2>2
<1>7. q <= a /\ r <= a /\ (q = a => a = 0 \/ b = 1)
  <2>1. 1 * q <= b * q
    <3>1. CASE q = 0
      BY <3>1
    <3>2. CASE q # 0
      <4>1. q \in Nat \ {0} /\ 1 <= b
        BY <1>6, <3>2
      <4> QED BY <4>1, TimesOrder
    <3> QED BY <3>1, <3>2
  <2>2. q <= x
    BY <1>4, <2>1
  <2>3. ASSUME q = a, a # 0, b # 1 PROVE FALSE
    <3>1. q \in Nat \ {0} /\ 1 < b
      BY <1>1, <2>3
    <3>2. 1 * q < b * q
      BY <3>1, TimesOrder
    <3> QED BY <1>4, <1>5, <2>3, <3>2
  <2> QED BY <1>5, <1>6, <2>2, <2>3
<1>8. PICK u \in Int : u = d * Quotient(n, d) /\ u = Quotient(n, d) * d /\ u = IF n < 0 THEN -x ELSE x
  <2>1. Quotient(n, d) \in Int
    BY <1>3
  <2>2. CASE n < 0 /\ d < 0
    <3>1. Quotient(n, d) = q /\ d = -b
      BY <1>1, <1>3, <2>2
    <3> QED BY <1>4, <2>2, <3>1, Times
  <2>3. CASE n < 0 /\ ~(d < 0)
    <3>1. Quotient(n, d) = -q /\ d = b
      BY <1>1, <1>3, <2>3
    <3> QED BY <1>4, <2>3, <3>1, Times
  <2>4. CASE ~(n < 0) /\ d < 0
    <3>1. Quotient(n, d) = -q /\ d = -b
      BY <1>1, <1>3, <2>4
    <3> QED BY <1>4, <2>4, <3>1, Times
  <2>5. CASE ~(n < 0) /\ ~(d < 0)
    <3>1. Quotient(n, d) = q /\ d = b
      BY <1>1, <1>3, <2>5
    <3> QED BY <1>4, <2>5, <3>1, Times
  <2> QED BY <2>2, <2>3, <2>4, <2>5
<1>9. n - u = IF n < 0 THEN -r ELSE r
  BY <1>1, <1>5, <1>8
<1>10. Quotient(n, d) \in Int
  BY <1>3
<1>11. Quotient(n, d) >= -a /\ Quotient(n, d) <= a
  BY <1>3, <1>6, <1>7
<1>12. Quotient(n, d) = a => n = 0 \/ d = 1 \/ (n < 0 /\ d = -1)
  BY <1>1, <1>3, <1>6, <1>7
<1>13. n >= 0 /\ d > 0 => Quotient(n, d) >= 0
  BY <1>3, <1>6
<1>14. n = u + (n - u)
  OBVIOUS
<1>15. /\ n - u < 0 => n < 0
       /\ n - u > 0 => n > 0
       /\ (IF n - u < 0 THEN -(n - u) ELSE n - u) < b
  <2>1. PICK z \in Int : z = n - u /\ z = IF n < 0 THEN -r ELSE r
    BY <1>9
  <2>2. r \in Int /\ 0 <= r /\ r < b
    OBVIOUS
  <2>3. (z < 0 => n < 0) /\ (z > 0 => n > 0) /\ (IF z < 0 THEN -z ELSE z) < b
    BY <1>1, <1>7, <2>1, <2>2
  <2> QED BY <2>1, <2>3
<1> HIDE DEF Quotient
<1> QED BY <1>1, <1>8, <1>10, <1>11, <1>12, <1>13, <1>14, <1>15

-----------------------------------------------------------------------------
(* The product.                                                            *)

\* The low bits of a number, with one more.
LEMMA RestStep ==
  ASSUME NEW w \in Int, NEW k \in Nat
  PROVE  w % Power2[k + 1] = (w % Power2[k]) + (IF BitOf(w, k) THEN Power2[k] ELSE 0)
<1>1. PICK p \in Nat \ {0} : p = Power2[k] /\ 2 * p = Power2[k + 1]
  BY PowerNat, PowerIs
<1>2. PICK s \in Int, t \in 0 .. p - 1 : s = w \div p /\ t = w % p /\ w = s * p + t
  <2>1. w \div p \in Int /\ w % p \in 0 .. p - 1 /\ w = (w \div p) * p + (w % p)
    BY DivMod
  <2> QED BY <2>1
<1>3. PICK q \in Int, b \in 0 .. 1 : b = s % 2 /\ s = q * 2 + b
  BY DivMod
<1>4. PICK x \in Int, y \in Int : x = q * (2 * p) /\ y = b * p /\ w = x + y + t
  <2>1. PICK x \in Int, y \in Int : x = q * (2 * p) /\ y = b * p
    BY Times
  <2>2. (q * 2) * p = q * (2 * p)
    BY Times
  <2>3. s * p = (q * 2) * p + b * p
    BY <1>3, TimesAdd
  <2>4. w = x + y + t
    BY <1>2, <2>1, <2>2, <2>3
  <2> QED BY <2>1, <2>4
<1>5. y = IF b = 1 THEN p ELSE 0
  <2>1. CASE b = 1
    BY <1>4, <2>1
  <2>2. CASE b = 0
    BY <1>4, <2>2
  <2> QED BY <2>1, <2>2
<1>6. w % (2 * p) = y + t
  <2>1. PICK m \in Nat \ {0} : m = 2 * p
    OBVIOUS
  <2>2. PICK c \in 0 .. m - 1 : c = y + t
    BY <1>5, <2>1
  <2>3. (q * m + c) % m = c
    BY DivIs
  <2> QED BY <1>4, <2>1, <2>2, <2>3
<1>7. b = 1 <=> BitOf(w, k)
  BY <1>1, <1>2, <1>3 DEF BitOf
<1> QED BY <1>1, <1>2, <1>5, <1>6, <1>7

\* A shift by one more.
LEMMA ShiftedStep ==
  ASSUME NEW w \in Words, NEW i \in 0 .. WordBits - 1
  PROVE  /\ Shifted(w, i) \in Words /\ Shifted(w, 0) = w
         /\ Shifted(Shifted(w, i), 1) = Shifted(w, i + 1)
         /\ Shifted(w, i) % 2 = 1 <=> BitOf(w, i)
         /\ Shifted(w, i) % 2 \in 0 .. 1
<1>1. i \in Nat /\ i + 1 \in Nat
  BY WordFacts
<1>2. PICK s \in Int : s = Signed(w) /\ Word(s) = w /\ s >= -SIGN_BIT /\ s < SIGN_BIT
  BY TopBit
<1>3. PICK h \in Nat \ {0} : h = SIGN_BIT /\ Bytes(4) = 2 * h
  BY TopBit
<1>4. PICK p \in Nat \ {0} : p = Power2[i] /\ Power2[i + 1] = p * 2
  BY <1>1, PowerNat, PowerIs
<1>5. PICK q \in Int, r \in 0 .. p - 1 : q = s \div p /\ s = q * p + r
  BY DivMod
<1>6. q >= -h /\ q < h
  <2>1. PICK x \in Int : x = q * p /\ s = x + r
    BY <1>5
  <2>2. CASE s >= 0
    <3>1. (-1) * p < q * p
      BY <2>1, <2>2
    <3>2. -1 \in Int /\ -1 < q
      BY <3>1, TimesOrder
    <3>3. q * 1 <= q * p
      <4>1. q >= 0
        BY <3>2
      <4>2. CASE q = 0
        BY <4>2
      <4>3. CASE q > 0
        <5>1. q \in Nat \ {0} /\ 1 <= p
          BY <4>3
        <5>2. 1 * q <= p * q
          BY <5>1, TimesOrder
        <5> QED BY <5>2, Times
      <4> QED BY <4>1, <4>2, <4>3
    <3> QED BY <1>2, <1>3, <2>1, <3>2, <3>3
  <2>3. CASE s < 0
    <3>1. q * p < 0 * p
      BY <2>1, <2>3
    <3>2. q < 0
      BY <3>1, TimesOrder
    <3>3. (-h) * p <= q * p + (p - 1)
      <4>1. (-h) * p = -(h * p)
        OBVIOUS
      <4>2. h * 1 <= h * p
        <5>1. 1 * h <= p * h
          BY TimesOrder
        <5> QED BY <5>1, Times
      <4>3. h * p \in Int
        OBVIOUS
      <4> QED BY <1>2, <1>3, <2>1, <4>1, <4>2, <4>3
    <3>4. (-h) * p < (q + 1) * p
      <4>1. (q + 1) * p = q * p + 1 * p /\ q * p \in Int /\ (-h) * p \in Int
        BY TimesAdd
      <4> QED BY <3>3, <4>1
    <3>5. -h < q + 1
      <4>1. -h \in Int /\ q + 1 \in Int
        OBVIOUS
      <4> QED BY <3>4, <4>1, TimesOrder
    <3> QED BY <1>3, <3>2, <3>5
  <2> QED BY <2>2, <2>3
<1>7. Shifted(w, i) = Word(q) /\ Word(q) \in Words
  BY <1>2, <1>4, <1>5, WordIs DEF Shifted
<1>8. Signed(Word(q)) = q
  <2>1. Least = -h /\ Greatest = h - 1
    <3>1. (2 * h) \div 2 = h
      OBVIOUS
    <3> QED BY <1>3, <3>1 DEF Least, Greatest
  <2>2. -Bytes(4) <= q /\ q < Bytes(4)
    BY <1>3, <1>6
  <2> QED BY <1>3, <1>6, <2>1, <2>2, Wrapped
<1>9. Shifted(Shifted(w, i), 1) = Shifted(w, i + 1)
  <2>1. Power2[1] = 2
    <3>1. Power2[0 + 1] = 2 * Power2[0]
      BY PowerIs
    <3> QED BY <3>1, PowerIs
  <2>2. (s \div p) \div 2 = s \div (p * 2)
    <3>1. PICK two \in Nat \ {0} : two = 2
      OBVIOUS
    <3>2. (s \div p) \div two = s \div (p * two)
      BY DivDiv
    <3> QED BY <3>1, <3>2
  <2> QED BY <1>2, <1>4, <1>5, <1>7, <1>8, <2>1, <2>2 DEF Shifted
<1>10. Shifted(w, 0) = w
  <2>1. s \div 1 = s
    OBVIOUS
  <2> QED BY <1>2, <2>1, PowerIs DEF Shifted
<1>11. Shifted(w, i) % 2 = 1 <=> BitOf(w, i)
  <2>1. BitOf(Word(q), 0) <=> BitOf(q, 0)
    <3>1. 0 \in 0 .. WordBits - 1
      BY WordFacts
    <3> QED BY <3>1, WordIs, WordFacts, BitOfRest
  <2>2. BitOf(q, 0) <=> BitOf(s, 0 + i)
    BY <1>1, <1>2, <1>4, <1>5, BitOfQuotient
  <2>3. BitOf(s % Power2[WordBits], i) <=> BitOf(s, i)
    BY <1>2, WordFacts, BitOfRest
  <2>4. s % Power2[WordBits] = w
    BY <1>2, WordIs
  <2>5. Word(q) \div 1 = Word(q)
    <3>1. Word(q) \in Int
      BY <1>7, WordsAre
    <3> QED BY <3>1
  <2>6. BitOf(Word(q), 0) <=> Word(q) % 2 = 1
    BY <2>5, PowerIs DEF BitOf
  <2>7. 0 + i = i
    BY <1>1
  <2> QED BY <1>7, <2>1, <2>2, <2>3, <2>4, <2>6, <2>7
<1>12. Shifted(w, i) % 2 \in 0 .. 1
  <2>1. Shifted(w, i) \in Int
    BY <1>7, WordsAre
  <2>2. Shifted(w, i) % 2 \in 0 .. 2 - 1
    BY <2>1, DivMod
  <2> QED BY <2>2
<1> QED BY <1>7, <1>9, <1>10, <1>11, <1>12

\* One round, on integers: x has been added up, y is to be added, on double words.
Adds(p, h, l, bh, bl, x) ==
  LET s == (l + bl) % p
      c == IF s < bl THEN 1 ELSE 0
  IN /\ s \in 0 .. p - 1 /\ (h + c + bh) % p \in 0 .. p - 1
     /\ ((h + c + bh) % p) * p + s = x

\* The sum of the round of a set bit: low words, their carry, high words.
LEMMA RoundAdds ==
  ASSUME NEW p \in Nat \ {0}, NEW h \in Nat, NEW l \in Nat, NEW bh \in Nat, NEW bl \in Nat,
         h < p, l < p, bh < p, bl < p,
         NEW x \in Int, x = (h * p + l) + (bh * p + bl), x < p * p
  PROVE  Adds(p, h, l, bh, bl, x)
<1> DEFINE s == (l + bl) % p
           c == IF s < bl THEN 1 ELSE 0
<1>1. s \in 0 .. p - 1 /\ l + bl = c * p + s /\ c \in 0 .. 1
  <2>1. CASE l + bl < p
    <3>1. PICK d \in 0 .. p - 1 : d = l + bl /\ 0 * p + d = d
      BY <2>1
    <3>2. (0 * p + d) % p = d
      BY DivIs
    <3> QED BY <3>1, <3>2
  <2>2. CASE l + bl >= p
    <3>1. PICK d \in 0 .. p - 1 : l + bl = 1 * p + d
      <4>1. l + bl - p \in 0 .. p - 1 /\ l + bl = 1 * p + (l + bl - p)
        BY <2>2
      <4> QED BY <4>1
    <3>2. (1 * p + d) % p = d
      BY DivIs
    <3>3. s = d /\ s < bl /\ c = 1
      BY <3>1, <3>2
    <3> QED BY <3>1, <3>3
  <2> QED BY <2>1, <2>2
<1>2. PICK t \in Int : t = h + c + bh /\ t >= 0
  BY <1>1
<1>3. t * p + s = x
  <2>1. t * p = (h + c) * p + bh * p /\ (h + c) * p = h * p + c * p
    BY <1>1, <1>2, TimesAdd
  <2>2. PICK x1 \in Int, x2 \in Int, x3 \in Int : x1 = h * p /\ x2 = c * p /\ x3 = bh * p
    BY <1>1
  <2> QED BY <1>1, <2>1, <2>2
<1>4. t < p
  <2>1. PICK y \in Int : y = t * p /\ y <= x
    BY <1>1, <1>3
  <2>2. t * p < p * p
    BY <2>1
  <2> QED BY <2>2, TimesOrder
<1>5. t % p = t
  <2>1. t \in 0 .. p - 1 /\ 0 * p + t = t
    BY <1>2, <1>4
  <2>2. (0 * p + t) % p = t
    BY <2>1, DivIs
  <2> QED BY <2>1, <2>2
<1>6. (h + c + bh) % p = t
  BY <1>2, <1>5
<1>7. t \in 0 .. p - 1
  BY <1>2, <1>4
<1>8. ((h + c + bh) % p) * p + s = x
  BY <1>3, <1>6
<1> QED BY <1>1, <1>6, <1>7, <1>8 DEF Adds

\* What a round does to b: the double word h:l doubled.
Doubles(h, p, bh, bl) ==
  /\ ((2 * bh) % p) + bl \div h \in 0 .. p - 1 /\ (2 * bl) % p \in 0 .. p - 1
  /\ (((2 * bh) % p) + bl \div h) * p + ((2 * bl) % p) = 2 * (bh * p + bl)

\* A double word that is doubled: the top bit of the low word goes to the high one.
LEMMA RoundDoubles ==
  ASSUME NEW h \in Nat \ {0}, NEW p \in Nat \ {0}, NEW bh \in Nat, NEW bl \in Nat,
         p = 2 * h, bh < p, bl < p, 2 * (bh * p + bl) < p * p
  PROVE  Doubles(h, p, bh, bl)
<1>1. PICK c \in 0 .. 1, d \in 0 .. p - 1 : bl \div h = c /\ (2 * bl) % p = d /\ 2 * bl = c * p + d
  <2>1. CASE bl < h
    <3>1. bl \in 0 .. h - 1 /\ 0 * h + bl = bl /\ 2 * bl \in 0 .. p - 1 /\ 0 * p + 2 * bl = 2 * bl
      BY <2>1
    <3>2. (0 * h + bl) \div h = 0 /\ (0 * p + 2 * bl) % p = 2 * bl
      BY <3>1, DivIs
    <3> QED BY <3>1, <3>2
  <2>2. CASE bl >= h
    <3>1. PICK e \in 0 .. h - 1, d \in 0 .. p - 1 : bl = 1 * h + e /\ 2 * bl = 1 * p + d
      <4>1. bl - h \in 0 .. h - 1 /\ bl = 1 * h + (bl - h)
        BY <2>2
      <4>2. 2 * bl - p \in 0 .. p - 1 /\ 2 * bl = 1 * p + (2 * bl - p)
        BY <2>2
      <4> QED BY <4>1, <4>2
    <3>2. (1 * h + e) \div h = 1 /\ (1 * p + d) % p = d
      BY DivIs
    <3> QED BY <3>1, <3>2
  <2> QED BY <2>1, <2>2
<1>2. PICK x \in Int : x = bh * p /\ 0 <= x
  <2>1. 0 * p <= bh * p
    BY TimesOrder
  <2> QED BY <2>1
<1>3. 2 * bh + c < p
  <2>1. (2 * bh + c) * p = (2 * bh) * p + c * p /\ (2 * bh) * p = 2 * (bh * p)
    BY TimesAdd, Times
  <2>2. PICK y \in Int : y = c * p
    OBVIOUS
  <2>3. (2 * bh + c) * p <= 2 * (x + bl)
    BY <1>1, <1>2, <2>1, <2>2
  <2>4. (2 * bh + c) * p < p * p
    <3>1. (2 * bh + c) * p \in Int /\ p * p \in Int
      OBVIOUS
    <3> QED BY <1>2, <2>3, <3>1
  <2> QED BY <2>4, TimesOrder
<1>4. (2 * bh) % p = 2 * bh
  <2>1. 2 * bh \in 0 .. p - 1 /\ 0 * p + 2 * bh = 2 * bh
    BY <1>3
  <2>2. (0 * p + 2 * bh) % p = 2 * bh
    BY <2>1, DivIs
  <2> QED BY <2>1, <2>2
<1>5. (2 * bh + c) * p + d = 2 * (x + bl)
  <2>1. (2 * bh + c) * p = (2 * bh) * p + c * p /\ (2 * bh) * p = 2 * (bh * p)
    BY TimesAdd, Times
  <2>2. PICK y \in Int : y = c * p
    OBVIOUS
  <2> QED BY <1>1, <1>2, <2>1, <2>2
<1>6. ((2 * bh) % p) + bl \div h = 2 * bh + c /\ (2 * bl) % p = d
  BY <1>1, <1>4
<1>7. 2 * bh + c \in 0 .. p - 1
  BY <1>3
<1>8. (2 * bh + c) * p + d = 2 * (bh * p + bl)
  BY <1>2, <1>5
<1> QED BY <1>1, <1>6, <1>7, <1>8 DEF Doubles

\* One round of the loop of Mult.
Round(s) ==
  LET sum == Word(s.lo + s.bLo)
      carry == IF sum < s.bLo THEN 1 ELSE 0
  IN IF s.a = 0 THEN s
     ELSE [a |-> Shifted(s.a, 1),
           bHi |-> Word(2 * s.bHi) + s.bLo \div SIGN_BIT, bLo |-> Word(2 * s.bLo),
           hi |-> IF s.a % 2 = 1 THEN Word(s.hi + carry + s.bHi) ELSE s.hi,
           lo |-> IF s.a % 2 = 1 THEN sum ELSE s.lo]

\* The start of MultLoop.
FirstRound(a, b) == [a |-> a, bHi |-> 0, bLo |-> b, hi |-> 0, lo |-> 0]

\* A function that does the rounds of MultLoop.
Rounds(f, a, b) == f[0] = FirstRound(a, b) /\ \A i \in 0 .. WordBits - 1 : f[i + 1] = Round(f[i])

\* SIGN_BIT is half the number of words.
LEMMA SignBitIs == SIGN_BIT \in Nat \ {0} /\ Bytes(4) = 2 * SIGN_BIT
<1>1. 0 \in Words
  BY NoBits
<1> QED BY <1>1, TopBit

\* MultLoop is the end of such rounds.
LEMMA LoopIs ==
  ASSUME NEW a \in Words, NEW b \in Words
  PROVE  \E f : Rounds(f, a, b) /\ MultLoop(a, b) = f[WordBits]
<1> DEFINE S == [a : Words, bHi : Int, bLo : Int, hi : Int, lo : Int]
           h == [p \in Nat \X S |-> Round(p[2])]
           P(f) == [i \in 0 .. WordBits |-> IF i = 0 THEN FirstRound(a, b) ELSE Round(f[i - 1])]
<1>1. ASSUME NEW s \in S PROVE Round(s) \in S
  <2>1. s.a \in Words /\ s.bHi \in Int /\ s.bLo \in Int /\ s.hi \in Int /\ s.lo \in Int
    BY <1>1
  <2>2. Shifted(s.a, 1) \in Words
    <3>1. Signed(s.a) \in Int /\ Power2[1] \in Nat \ {0}
      BY <2>1, SignedInt, PowerNat
    <3>2. Signed(s.a) \div Power2[1] \in Int
      BY <3>1, DivMod
    <3> QED BY <3>2, WordIs DEF Shifted
  <2>3. \A x \in Int : Word(x) \in Int
    BY WordIs, WordsAre
  <2>4. s.bLo \div SIGN_BIT \in Int
    BY <2>1, SignBitIs, DivMod
  <2>5. Word(2 * s.bHi) + s.bLo \div SIGN_BIT \in Int /\ Word(2 * s.bLo) \in Int
    BY <2>1, <2>3, <2>4
  <2>6. Word(s.lo + s.bLo) \in Int /\ \A c \in 0 .. 1 : Word(s.hi + c + s.bHi) \in Int
    BY <2>1, <2>3
  <2>7. (IF Word(s.lo + s.bLo) < s.bLo THEN 1 ELSE 0) \in 0 .. 1
    OBVIOUS
  <2> QED BY <1>1, <2>1, <2>2, <2>5, <2>6, <2>7 DEF Round
<1>2. FirstRound(a, b) \in S
  BY WordsAre DEF FirstRound
<1>3. h \in [Nat \X S -> S]
  <2> HIDE DEF S
  <2> QED BY <1>1
<1>4. PICK f \in [Nat -> S] : Steps(f, FirstRound(a, b), h)
  <2> HIDE DEF h, S
  <2> QED BY <1>2, <1>3, Recursion
<1>5. f[0] = FirstRound(a, b) /\ \A n \in Nat : f[n + 1] = Round(f[n])
  <2> HIDE DEF S
  <2> QED BY <1>4 DEF Steps
<1> DEFINE g == [i \in 0 .. WordBits |-> f[i]]
<1>6. g = P(g)
  <2>1. g[0] = FirstRound(a, b) /\ 0 \in 0 .. WordBits
    BY <1>5, WordFacts
  <2>2. ASSUME NEW i \in 0 .. WordBits, i # 0 PROVE g[i] = Round(g[i - 1])
    <3>1. i - 1 \in Nat /\ (i - 1) + 1 = i /\ i - 1 \in 0 .. WordBits
      BY <2>2, WordFacts
    <3> QED BY <1>5, <3>1
  <2> HIDE DEF h, S
  <2>3. \A i \in 0 .. WordBits : g[i] = P(g)[i]
    BY <2>1, <2>2
  <2> QED BY <2>3
<1>7. MultLoop(a, b) = (CHOOSE g2 : g2 = P(g2))[WordBits]
  BY DEF MultLoop, Round, FirstRound
<1> DEFINE u == CHOOSE g2 : g2 = P(g2)
<1>8. u = P(u)
  <2> HIDE DEF P, g
  <2> QED BY <1>6
<1>9. MultLoop(a, b) = u[WordBits]
  BY <1>7
<1> HIDE DEF u, g, h, S
<1>10. u[0] = FirstRound(a, b)
  BY <1>8, WordFacts
<1>11. ASSUME NEW i \in 0 .. WordBits - 1 PROVE u[i + 1] = Round(u[i])
  <2>1. i + 1 \in 0 .. WordBits /\ i + 1 # 0 /\ (i + 1) - 1 = i
    BY WordFacts
  <2> QED BY <1>8, <2>1
<1>12. Rounds(u, a, b)
  BY <1>10, <1>11 DEF Rounds
<1> QED BY <1>9, <1>12

\* After i rounds: what a and b have become, and the product of b and the low bits
\* of a.
After(s, a, b, i) ==
  /\ s.a = Shifted(a, i)
  /\ s.bHi \in Words /\ s.bLo \in Words /\ s.hi \in Words /\ s.lo \in Words
  /\ s.a # 0 => s.bHi * Bytes(4) + s.bLo = b * Power2[i]
  /\ s.hi * Bytes(4) + s.lo = (a % Power2[i]) * b

\* The invariant of the rounds: what is summed, and what is left to add, is the product.
LEMMA RoundIs ==
  ASSUME NEW a \in Words, NEW b \in Words, NEW i \in 0 .. WordBits - 1, NEW s, After(s, a, b, i)
  PROVE  After(Round(s), a, b, i + 1)
<1>1. PICK p \in Nat \ {0}, h \in Nat \ {0} :
        p = Bytes(4) /\ p = Power2[WordBits] /\ p = 2 * h /\ h = SIGN_BIT
  BY SignBitIs, WordFacts
<1>2. PICK e \in Nat \ {0} : e = Power2[i] /\ 2 * e = Power2[i + 1] /\ 2 * e <= p
  <2>1. i \in Nat /\ i + 1 \in 0 .. WordBits
    BY WordFacts
  <2>2. Power2[i] \in Nat \ {0} /\ Power2[i + 1] = 2 * Power2[i]
    BY <2>1, PowerNat, PowerIs
  <2>3. Power2[i + 1] <= p
    BY <1>1, <2>1, PowerMinus, WordFacts
  <2> QED BY <2>2, <2>3
<1>3. a \in Int /\ 0 <= a /\ a < p /\ b \in Int /\ 0 <= b /\ b < p
  BY <1>1, WordsAre
<1>4. PICK m \in Nat : m = a % e /\ m < e /\ m <= a
  <2>1. a % e \in 0 .. e - 1 /\ a = (a \div e) * e + (a % e) /\ a \div e \in Int
    BY <1>3, DivMod
  <2>2. a \div e >= 0
    <3>1. PICK x \in Int : x = (a \div e) * e /\ x > -e
      BY <1>3, <2>1
    <3>2. (-1) * e < (a \div e) * e
      BY <3>1
    <3>3. -1 \in Int /\ -1 < a \div e
      BY <2>1, <3>2, TimesOrder
    <3> QED BY <2>1, <3>3
  <2>3. PICK y \in Int : y = (a \div e) * e /\ y >= 0
    <3>1. 0 * e <= (a \div e) * e
      BY <2>1, <2>2, TimesOrder
    <3> QED BY <2>1, <3>1
  <2> QED BY <2>1, <2>3
<1>5. /\ Shifted(s.a, 1) = Shifted(a, i + 1) /\ s.a = Shifted(a, i) /\ s.a \in Words
      /\ s.a % 2 = 1 <=> BitOf(a, i)
  BY ShiftedStep DEF After
<1>6. a % (2 * e) = m + (IF BitOf(a, i) THEN e ELSE 0)
  <2>1. i \in Nat
    BY WordFacts
  <2> QED BY <1>2, <1>3, <1>4, <2>1, RestStep
<1>7. /\ s.bHi \in 0 .. p - 1 /\ s.bLo \in 0 .. p - 1 /\ s.hi \in 0 .. p - 1 /\ s.lo \in 0 .. p - 1
      /\ s.a # 0 => s.bHi * p + s.bLo = b * e
      /\ s.hi * p + s.lo = m * b
  BY <1>1, <1>2, <1>4, WordsAre DEF After
<1>8. CASE s.a = 0
  <2>1. ~BitOf(a, i)
    <3>1. 0 % 2 # 1
      OBVIOUS
    <3> QED BY <1>5, <1>8, <3>1
  <2>2. Round(s) = s
    BY <1>8 DEF Round
  <2>3. Shifted(0, 1) = 0
    <3>1. Signed(0) = 0
      BY NoBits, TopBit, WordsAre, SignBitIs
    <3>2. 0 \div Power2[1] = 0
      <4>1. PICK two \in Nat \ {0} : two = Power2[1]
        BY PowerNat
      <4>2. (0 * two + 0) \div two = 0 /\ 0 * two + 0 = 0
        BY DivIs
      <4> QED BY <4>1, <4>2
    <3> QED BY <3>1, <3>2, NoBits, WordOfWord DEF Shifted
  <2>4. a % (2 * e) = m
    BY <1>6, <2>1
  <2> QED BY <1>1, <1>2, <1>5, <1>7, <1>8, <2>2, <2>3, <2>4, WordsAre DEF After
<1>9. CASE s.a # 0
  <2> DEFINE sum == Word(s.lo + s.bLo)
             carry == IF sum < s.bLo THEN 1 ELSE 0
             n == Round(s)
  <2>1. /\ n.a = Shifted(s.a, 1) /\ n.bHi = Word(2 * s.bHi) + s.bLo \div SIGN_BIT
        /\ n.bLo = Word(2 * s.bLo)
        /\ n.hi = IF s.a % 2 = 1 THEN Word(s.hi + carry + s.bHi) ELSE s.hi
        /\ n.lo = IF s.a % 2 = 1 THEN sum ELSE s.lo
    BY <1>9 DEF Round
  <2> HIDE DEF n
  <2>2. \A x : Word(x) = x % p
    BY <1>1 DEF Word
  <2>3. s.bHi * p + s.bLo = b * e
    BY <1>7, <1>9
  <2>4. 2 * (s.bHi * p + s.bLo) < p * p /\ 2 * (b * e) = b * (2 * e)
    <3>1. 2 * (b * e) = b * (2 * e) /\ b * (2 * e) = (2 * e) * b
      BY <1>3, Times
    <3>2. (2 * e) * b < p * p
      <4>1. (2 * e) * b <= p * b
        <5>1. CASE b = 0
          BY <5>1
        <5>2. CASE b # 0
          <6>1. b \in Nat \ {0}
            BY <1>3, <5>2
          <6> QED BY <1>2, <6>1, TimesOrder
        <5> QED BY <5>1, <5>2
      <4>2. b * p < p * p /\ p * b = b * p
        BY <1>3, TimesOrder, Times
      <4>3. PICK x \in Int, y \in Int, z \in Int : x = (2 * e) * b /\ y = b * p /\ z = p * p
        BY <1>3, Times
      <4> QED BY <4>1, <4>2, <4>3
    <3> QED BY <2>3, <3>1, <3>2
  <2>5. /\ ((2 * s.bHi) % p) + s.bLo \div h \in 0 .. p - 1 /\ (2 * s.bLo) % p \in 0 .. p - 1
        /\ (((2 * s.bHi) % p) + s.bLo \div h) * p + ((2 * s.bLo) % p) = 2 * (s.bHi * p + s.bLo)
    <3>1. PICK bh \in Nat, bl \in Nat : bh < p /\ bl < p /\ bh = s.bHi /\ bl = s.bLo
      BY <1>7
    <3>2. 2 * (bh * p + bl) < p * p
      BY <2>4, <3>1
    <3>3. Doubles(h, p, bh, bl)
      BY <1>1, <3>1, <3>2, RoundDoubles
    <3> QED BY <3>1, <3>3 DEF Doubles
  <2>6. n.bHi \in 0 .. p - 1 /\ n.bLo \in 0 .. p - 1 /\ n.bHi * p + n.bLo = b * (2 * e)
    <3>1. n.bHi = ((2 * s.bHi) % p) + s.bLo \div h /\ n.bLo = (2 * s.bLo) % p
      BY <1>1, <2>1, <2>2
    <3> QED BY <2>3, <2>4, <2>5, <3>1
  <2>7. n.hi \in 0 .. p - 1 /\ n.lo \in 0 .. p - 1 /\ n.hi * p + n.lo = (a % (2 * e)) * b
    <3>1. CASE s.a % 2 = 1
      <4>1. a % (2 * e) = m + e /\ m + e <= a
        <5>1. a % (2 * e) = m + e
          BY <1>5, <1>6, <3>1
        <5>2. PICK f \in Nat \ {0} : f = 2 * e
          OBVIOUS
        <5>3. a % f = m + e /\ a = (a \div f) * f + (a % f) /\ a \div f \in Int
          BY <1>3, <5>1, <5>2, DivMod
        <5>4. m + e < f
          BY <1>4, <5>2
        <5>5. a \div f >= 0
          <6>1. PICK x \in Int : x = (a \div f) * f /\ x > -f
            BY <1>3, <5>3, <5>4
          <6>2. (-1) * f < (a \div f) * f
            BY <6>1
          <6>3. -1 \in Int /\ -1 < a \div f
            BY <5>3, <6>2, TimesOrder
          <6> QED BY <5>3, <6>3
        <5>6. PICK y \in Int : y = (a \div f) * f /\ y >= 0
          <6>1. 0 * f <= (a \div f) * f
            BY <5>3, <5>5, TimesOrder
          <6> QED BY <5>3, <6>1
        <5> QED BY <5>1, <5>3, <5>6
      <4>2. PICK x \in Int : x = (s.hi * p + s.lo) + (s.bHi * p + s.bLo) /\ x = (m + e) * b /\ x < p * p
        <5>1. (m + e) * b = m * b + e * b /\ e * b = b * e
          BY <1>3, TimesAdd, Times
        <5>2. (m + e) * b < p * p
          <6>1. (m + e) * b <= p * b
            <7>1. CASE b = 0
              BY <7>1
            <7>2. CASE b # 0
              <8>1. b \in Nat \ {0} /\ m + e <= p
                BY <1>3, <4>1, <7>2
              <8> QED BY <8>1, TimesOrder
            <7> QED BY <7>1, <7>2
          <6>2. b * p < p * p /\ p * b = b * p
            BY <1>3, TimesOrder, Times
          <6>3. PICK x \in Int, y \in Int, z \in Int : x = (m + e) * b /\ y = b * p /\ z = p * p
            BY <1>3, Times
          <6> QED BY <6>1, <6>2, <6>3
        <5>3. (s.hi * p + s.lo) + (s.bHi * p + s.bLo) = (m + e) * b
          BY <1>7, <2>3, <5>1
        <5>4. (m + e) * b \in Int
          BY <1>3
        <5> QED BY <5>2, <5>3, <5>4
      <4>3. sum = (s.lo + s.bLo) % p
        BY <2>2
      <4>4. /\ sum \in 0 .. p - 1 /\ (s.hi + carry + s.bHi) % p \in 0 .. p - 1
            /\ ((s.hi + carry + s.bHi) % p) * p + sum = x
        <5> HIDE DEF sum
        <5>1. PICK hh \in Nat, l \in Nat, bh \in Nat, bl \in Nat :
                 /\ hh < p /\ l < p /\ bh < p /\ bl < p
                 /\ hh = s.hi /\ l = s.lo /\ bh = s.bHi /\ bl = s.bLo
          BY <1>7
        <5>2. sum = (l + bl) % p /\ x = (hh * p + l) + (bh * p + bl)
          BY <4>2, <4>3, <5>1
        <5>3. Adds(p, hh, l, bh, bl, x)
          BY <4>2, <5>1, <5>2, RoundAdds
        <5> QED BY <5>1, <5>2, <5>3 DEF Adds
      <4>5. n.hi = (s.hi + carry + s.bHi) % p /\ n.lo = sum
        BY <2>1, <2>2, <3>1
      <4> HIDE DEF sum, carry
      <4> QED BY <4>1, <4>2, <4>4, <4>5
    <3>2. CASE s.a % 2 # 1
      <4>1. a % (2 * e) = m /\ n.hi = s.hi /\ n.lo = s.lo
        BY <1>5, <1>6, <2>1, <3>2
      <4> QED BY <1>7, <4>1
    <3> QED BY <3>1, <3>2
  <2>8. n.bHi \in Words /\ n.bLo \in Words /\ n.hi \in Words /\ n.lo \in Words
    BY <1>1, <2>6, <2>7, WordsAre
  <2>9. n.a = Shifted(a, i + 1)
    BY <1>5, <2>1
  <2>10. After(n, a, b, i + 1)
    BY <1>1, <1>2, <2>6, <2>7, <2>8, <2>9 DEF After
  <2> QED BY <2>10 DEF n
<1> QED BY <1>8, <1>9

\* MultLoop gives the product of two words in a double word.
LEMMA LoopProduct ==
  ASSUME NEW a \in Words, NEW b \in Words
  PROVE  /\ MultLoop(a, b).hi \in Words /\ MultLoop(a, b).lo \in Words
         /\ MultLoop(a, b).hi * Bytes(4) + MultLoop(a, b).lo = a * b
<1>1. PICK f : Rounds(f, a, b) /\ MultLoop(a, b) = f[WordBits]
  BY LoopIs
<1>2. a \in Int /\ b \in Int /\ 0 \in Words
  BY WordsAre, NoBits
<1> DEFINE T == {i \in Nat : i <= WordBits => After(f[i], a, b, i)}
<1>3. 0 \in T
  <2>1. Shifted(a, 0) = a
    <3>1. 0 \in 0 .. WordBits - 1
      BY WordFacts
    <3> QED BY <3>1, ShiftedStep
  <2>2. a % 1 = 0 /\ b * 1 = b
    BY <1>2
  <2>3. 0 * Bytes(4) = 0
    BY BytesAre
  <2>4. f[0] = FirstRound(a, b)
    BY <1>1 DEF Rounds
  <2>5. After(FirstRound(a, b), a, b, 0)
    BY <1>2, <2>1, <2>2, <2>3, PowerIs DEF After, FirstRound
  <2> QED BY <2>4, <2>5
<1>4. ASSUME NEW i \in Nat, i \in T PROVE i + 1 \in T
  <2>1. SUFFICES ASSUME i + 1 <= WordBits PROVE After(f[i + 1], a, b, i + 1)
    OBVIOUS
  <2>2. i \in 0 .. WordBits - 1 /\ i <= WordBits
    BY <2>1, WordFacts
  <2>3. After(Round(f[i]), a, b, i + 1)
    BY <1>4, <2>2, RoundIs
  <2> QED BY <1>1, <2>2, <2>3 DEF Rounds
<1>5. Nat \subseteq T
  <2> HIDE DEF T
  <2> QED BY <1>3, <1>4, Induct
<1>6. After(f[WordBits], a, b, WordBits)
  BY <1>5, WordFacts
<1>7. a % Power2[WordBits] = a
  BY WordOfWord, WordIs
<1> QED BY <1>1, <1>6, <1>7 DEF After

\* A double word of the two's complement of h and l.
LEMMA Negated ==
  ASSUME NEW h \in Words, NEW l \in Words, NEW x \in Int, x = -(h * Bytes(4) + l)
  PROVE  /\ Word(-l) = x % Bytes(4)
         /\ Word(Bytes(4) - 1 - h + (IF Word(-l) = 0 THEN 1 ELSE 0)) = (x \div Bytes(4)) % Bytes(4)
<1>1. PICK p \in Nat \ {0} : p = Bytes(4)
  BY BytesAre
<1>2. h \in 0 .. p - 1 /\ l \in 0 .. p - 1 /\ h \in Int /\ l \in Int
  BY <1>1, WordsAre, WordFacts
<1>3. PICK y \in Int : y = h * p /\ x = -y - l
  BY <1>1, <1>2
<1>4. CASE l = 0
  <2>1. (-h) * p + 0 = x /\ -h \in Int
    BY <1>2, <1>3, <1>4
  <2>2. ((-h) * p + 0) \div p = -h /\ ((-h) * p + 0) % p = 0
    <3>1. PICK g \in Int : g = -h
      BY <2>1
    <3>2. (g * p + 0) \div p = g /\ (g * p + 0) % p = 0
      BY DivIs
    <3> QED BY <3>1, <3>2
  <2>3. Word(-l) = 0
    <3>1. -l = 0
      <4>1. l <= 0 /\ l >= 0
        BY <1>2, <1>4
      <4>2. \A z \in Int : z <= 0 /\ z >= 0 => -z = z
        OBVIOUS
      <4>3. -l = l
        BY <1>2, <4>1, <4>2, Zenon
      <4> QED BY <1>4, <4>3
    <3>2. 0 \in Words
      BY NoBits
    <3> QED BY <3>1, <3>2, WordOfWord
  <2>4. Bytes(4) - 1 - h + 1 = 1 * Bytes(4) + (-h)
    BY <1>1, <1>2
  <2>5. Word(Bytes(4) - 1 - h + 1) = Word(-h)
    <3>1. Bytes(4) - 1 - h + 1 \in Int /\ 1 \in Int
      BY <1>1, <1>2
    <3> QED BY <2>1, <2>4, <3>1, SameWord
  <2> QED BY <1>1, <2>1, <2>2, <2>3, <2>5 DEF Word
<1>5. CASE l # 0
  <2>1. PICK g \in Int, c \in 0 .. p - 1 : g = -h - 1 /\ c = p - l /\ x = g * p + c /\ c # 0
    <3>1. PICK g \in Int, c \in 0 .. p - 1 : g = -h - 1 /\ c = p - l /\ c # 0
      BY <1>2, <1>5
    <3>2. g * p = (-h) * p - 1 * p /\ (-h) * p = -(h * p)
      BY <1>2, <3>1, TimesAdd
    <3> QED BY <1>2, <1>3, <3>1, <3>2
  <2>2. (g * p + c) \div p = g /\ (g * p + c) % p = c
    BY DivIs
  <2>3. Word(-l) = c
    <3>1. -l = (-1) * p + c /\ -1 \in Int
      BY <1>2, <2>1
    <3>2. ((-1) * p + c) % p = c
      BY <3>1, DivIs
    <3> QED BY <1>1, <3>1, <3>2 DEF Word
  <2>4. Word(Bytes(4) - 1 - h + 0) = Word(g)
    <3>1. Bytes(4) - 1 - h + 0 \in Int /\ 1 \in Int /\ Bytes(4) - 1 - h + 0 = 1 * Bytes(4) + g
      BY <1>1, <1>2, <2>1
    <3> QED BY <3>1, SameWord
  <2> QED BY <1>1, <2>1, <2>2, <2>3, <2>4 DEF Word
<1> QED BY <1>4, <1>5

\* Mult computes the product, with signs or without.
Product(a, b, signedArith) == IF signedArith THEN Signed(a) * Signed(b) ELSE a * b

\* Mult computes the low and the high word of the product, of the integers that two
\* words are with their signs or without (mipssim.cc:777).
THEOREM MultIs ==
  ASSUME NEW a \in Words, NEW b \in Words, NEW signedArith \in BOOLEAN
  PROVE  /\ Mult(a, b, signedArith).lo = Product(a, b, signedArith) % Bytes(4)
         /\ Mult(a, b, signedArith).hi = (Product(a, b, signedArith) \div Bytes(4)) % Bytes(4)
         /\ Mult(a, b, signedArith).lo \in Words /\ Mult(a, b, signedArith).hi \in Words
<1> DEFINE magnitude(w) == IF signedArith /\ Negative(w) THEN Word(-w) ELSE w
           product == MultLoop(magnitude(a), magnitude(b))
           m == Mult(a, b, signedArith)
           x == Product(a, b, signedArith)
<1>1. PICK p \in Nat \ {0} : p = Bytes(4)
  BY BytesAre
<1>2. a \in Int /\ b \in Int /\ Signed(a) \in Int /\ Signed(b) \in Int
  BY WordsAre, SignedInt
<1>3. x \in Int
  BY <1>2, Times DEF Product
<1>4. m.lo = x % p /\ m.hi = (x \div p) % p
  <2>1. CASE a = 0 \/ b = 0
    <3>1. Signed(0) = 0
      BY NoBits, TopBit, SignBitIs, WordsAre
    <3>2. x = 0
      BY <1>2, <2>1, <3>1 DEF Product
    <3>3. (0 * p + 0) \div p = 0 /\ (0 * p + 0) % p = 0 /\ 0 * p + 0 = 0
      BY DivIs
    <3>4. m = [hi |-> 0, lo |-> 0]
      BY <2>1 DEF Mult
    <3> HIDE DEF m, x
    <3> QED BY <3>2, <3>3, <3>4
  <2>2. CASE ~(a = 0 \/ b = 0)
    <3>1. ASSUME NEW w \in Words
          PROVE  /\ magnitude(w) \in Words
                 /\ signedArith => magnitude(w) = IF Negative(w) THEN -Signed(w) ELSE Signed(w)
      <4>1. w \in Int /\ -w \in Int
        BY WordsAre
      <4>2. CASE signedArith /\ Negative(w)
        <5>1. Signed(w) = w - p /\ w >= SIGN_BIT /\ SIGN_BIT \in Nat \ {0}
          BY <1>1, <4>2, TopBit
        <5>2. p - w \in Words
          BY <1>1, <4>1, <5>1, WordsAre, WordFacts
        <5>3. -w = (-1) * Bytes(4) + (p - w) /\ -1 \in Int /\ p - w \in Int
          BY <1>1, <4>1
        <5>4. Word(-w) = p - w
          BY <4>1, <5>2, <5>3, SameWord, WordOfWord
        <5> QED BY <4>1, <4>2, <5>1, <5>2, <5>4
      <4>3. CASE ~(signedArith /\ Negative(w))
        BY <4>3, TopBit
      <4> QED BY <4>2, <4>3
    <3>2. magnitude(a) \in Words /\ magnitude(b) \in Words
      BY <3>1
    <3>3. PICK h \in Words, l \in Words : h = product.hi /\ l = product.lo /\ h * p + l = magnitude(a) * magnitude(b)
      BY <1>1, <3>2, LoopProduct
    <3>4. PICK y \in Int : y = magnitude(a) * magnitude(b)
      <4>1. magnitude(a) \in Int /\ magnitude(b) \in Int
        BY <3>2, WordsAre
      <4> HIDE DEF magnitude
      <4> QED BY <4>1
    <3>5. CASE signedArith /\ Negative(a) # Negative(b)
      <4>1. x = -y
        <5>1. x = Signed(a) * Signed(b)
          BY <3>5 DEF Product
        <5>2. PICK s \in Int, t \in Int : s = Signed(a) /\ t = Signed(b)
          BY <1>2
        <5>3. (-s) * t = -(s * t) /\ s * (-t) = -(s * t)
          OBVIOUS
        <5>4. y = (-s) * t \/ y = s * (-t)
          BY <3>1, <3>4, <3>5, <5>2 DEF Negative
        <5> HIDE DEF x, magnitude
        <5>5. y = -(s * t)
          BY <5>3, <5>4
        <5>6. PICK z \in Int : z = s * t
          OBVIOUS
        <5>7. x = z /\ y = -z
          BY <5>1, <5>2, <5>5, <5>6
        <5> QED BY <5>7
      <4>2. m = [lo |-> Word(-l), hi |-> Word(Bytes(4) - 1 - h + (IF Word(-l) = 0 THEN 1 ELSE 0))]
        BY <2>2, <3>3, <3>5 DEF Mult
      <4> HIDE DEF m, x, magnitude, product
      <4>3. x = -(h * Bytes(4) + l)
        BY <1>1, <3>3, <3>4, <4>1
      <4>4. /\ Word(-l) = x % Bytes(4)
            /\ Word(Bytes(4) - 1 - h + (IF Word(-l) = 0 THEN 1 ELSE 0)) = (x \div Bytes(4)) % Bytes(4)
        BY <1>3, <4>3, Negated
      <4> QED BY <1>1, <4>2, <4>4
    <3>6. CASE ~(signedArith /\ Negative(a) # Negative(b))
      <4>1. x = y
        <5>1. CASE signedArith
          <6>1. x = Signed(a) * Signed(b)
            BY <5>1 DEF Product
          <6>2. PICK s \in Int, t \in Int : s = Signed(a) /\ t = Signed(b)
            BY <1>2
          <6>3. (-s) * (-t) = s * t
            OBVIOUS
          <6>4. y = (-s) * (-t) \/ y = s * t
            BY <3>1, <3>4, <3>6, <5>1, <6>2 DEF Negative
          <6> QED BY <6>1, <6>2, <6>3, <6>4
        <5>2. CASE ~signedArith
          BY <3>4, <5>2 DEF Product
        <5> QED BY <5>1, <5>2
      <4>2. m = [lo |-> l, hi |-> h]
        BY <2>2, <3>3, <3>6 DEF Mult
      <4> HIDE DEF m, x, magnitude, product
      <4>3. h \in 0 .. p - 1 /\ l \in 0 .. p - 1 /\ h \in Int
        BY <1>1, WordsAre, WordFacts
      <4>4. x = h * p + l
        BY <3>3, <3>4, <4>1
      <4>5. (h * p + l) \div p = h /\ (h * p + l) % p = l
        BY <4>3, DivIs
      <4>6. h % p = h
        BY <1>1, WordOfWord DEF Word
      <4> QED BY <4>2, <4>4, <4>5, <4>6
    <3> QED BY <3>5, <3>6
  <2> QED BY <2>1, <2>2
<1>5. x % p \in Words /\ (x \div p) % p \in Words
  <2> HIDE DEF x
  <2>1. x \div p \in Int
    BY <1>3, DivMod
  <2> QED BY <1>1, <1>3, <2>1, WordIs, WordFacts
<1> HIDE DEF m, x
<1>6. m.lo \in Words /\ m.hi \in Words
  BY <1>4, <1>5
<1> QED BY <1>1, <1>4, <1>6 DEF m, x

\* opTable has the operations at the numbers that the MIPS gives them ...
LEMMA MajorTable ==
  \A op \in DOMAIN Major : opTable(Major[op]) = op /\ Major[op] # 0 /\ Major[op] # 1
BY DEF Major, opTable

\* ... and so has specialTable; only BREAK is not implemented.
LEMMA FunctTable ==
  \A op \in DOMAIN Funct :
    specialTable(Funct[op]) = (IF op = "BREAK" THEN "UNIMP" ELSE op) /\ op \notin DOMAIN Major
BY DEF Funct, specialTable, Major

\* The entries that lead on to the other fields, and that the groups are apart.
LEMMA Tables ==
  /\ opTable(0) = "SPECIAL" /\ opTable(1) = "BCOND"
  /\ {"SPECIAL", "BCOND"} \cap DOMAIN Major = {}
  /\ \A op \in DOMAIN Cond : op \notin DOMAIN Major /\ op \notin DOMAIN Funct
BY DEF opTable, Major, Cond, Funct

\* The field of an immediate has the integer that it stands for.
LEMMA HalfWord ==
  ASSUME NEW n \in Int, -(Bytes(2) \div 2) <= n, n <= Bytes(2) \div 2 - 1
  PROVE  SignedOf(n % Bytes(2), 2) = n
<1>1. PICK q \in Nat \ {0}, h \in Nat \ {0} : q = Bytes(2) /\ q = 2 * h
  <2>1. Bytes(2) = Power2[ByteBits * 2] /\ ByteBits * 2 - 1 \in Nat /\ (ByteBits * 2 - 1) + 1 = ByteBits * 2
    BY WordFacts DEF Bytes
  <2>2. Power2[ByteBits * 2] = 2 * Power2[ByteBits * 2 - 1] /\ Power2[ByteBits * 2 - 1] \in Nat \ {0}
    <3>1. PICK m \in Nat : m = ByteBits * 2 - 1
      BY <2>1
    <3> QED BY <2>1, <3>1, PowerIs, PowerNat
  <2> QED BY <2>1, <2>2
<1>2. q \div 2 = h /\ -h <= n /\ n <= h - 1
  <2>1. (2 * h) \div 2 = h
    OBVIOUS
  <2> QED BY <1>1, <2>1
<1>3. CASE n >= 0
  <2>1. n \in 0 .. q - 1 /\ 0 * q + n = n
    BY <1>1, <1>2, <1>3
  <2>2. (0 * q + n) % q = n
    BY <2>1, DivIs
  <2> QED BY <1>1, <1>2, <2>1, <2>2 DEF SignedOf
<1>4. CASE n < 0
  <2>1. PICK c \in 0 .. q - 1 : c = n + q /\ (-1) * q + c = n
    BY <1>1, <1>2, <1>4
  <2>2. ((-1) * q + c) % q = c /\ -1 \in Int
    BY DivIs
  <2> QED BY <1>1, <1>2, <2>1, <2>2 DEF SignedOf
<1> QED BY <1>3, <1>4

\* A logical operand, which Decode extends by a sign, has its bits in the low half.
LEMMA HalfLogical ==
  ASSUME NEW n \in 0 .. Bytes(2) - 1
  PROVE  /\ n \in Words /\ Low16(Word(SignedOf(n % Bytes(2), 2))) = n
         /\ Word(Word(SignedOf(n % Bytes(2), 2)) * Bytes(2)) = n * Bytes(2)
<1>1. PICK q \in Nat \ {0} : q = Bytes(2) /\ Bytes(4) = q * q
  BY BytesAre
<1>2. PICK c \in Int : SignedOf(n % Bytes(2), 2) = c * q + n /\ c * q \in Int
  <2>1. n % Bytes(2) = n
    <3>1. n \in 0 .. q - 1 /\ 0 * q + n = n
      BY <1>1
    <3>2. (0 * q + n) % q = n
      BY <3>1, DivIs
    <3> QED BY <1>1, <3>1, <3>2
  <2>2. n = 0 * q + n /\ n - q = (-1) * q + n /\ 0 \in Int /\ -1 \in Int /\ 0 * q \in Int /\ (-1) * q \in Int
    BY <1>1
  <2>3. SignedOf(n, 2) = n \/ SignedOf(n, 2) = n - q
    BY <1>1 DEF SignedOf
  <2>4. CASE SignedOf(n, 2) = n
    BY <2>1, <2>2, <2>4
  <2>5. CASE SignedOf(n, 2) = n - q
    BY <2>1, <2>2, <2>5
  <2> QED BY <2>3, <2>4, <2>5
<1>3. n \in Int /\ n \in 0 .. q - 1
  BY <1>1
<1>4. n \in Words
  <2>1. 1 * q <= q * q
    <3>1. 1 <= q
      OBVIOUS
    <3> QED BY <3>1, TimesOrder
  <2>2. PICK z \in Int : z = q * q
    OBVIOUS
  <2> QED BY <1>1, <1>3, <2>1, <2>2, WordsAre, WordFacts
<1>5. PICK x \in Int : x = c * q + n /\ x = SignedOf(n % Bytes(2), 2)
  BY <1>2, <1>3
<1>6. PICK d \in Int : x = d * (q * q) + Word(x)
  BY <1>1, WordDiffers
<1>7. PICK y \in Int : y = Word(x) /\ y = (c - d * q) * q + n
  <2>1. Word(x) \in Int
    BY WordIs, WordsAre
  <2>2. (c - d * q) * q = c * q - (d * q) * q /\ (d * q) * q = d * (q * q)
    <3>1. d * q \in Int
      BY Times
    <3> QED BY <3>1, TimesAdd, Times
  <2>3. PICK z \in Int, z2 \in Int : z = d * (q * q) /\ z2 = c * q
    BY Times
  <2> QED BY <1>3, <1>5, <1>6, <2>1, <2>2, <2>3
<1>8. Low16(y) = n
  <2>1. PICK e \in Int : e = c - d * q
    BY Times
  <2>2. (e * q + n) % q = n
    BY <1>3, DivIs
  <2> QED BY <1>1, <1>7, <2>1, <2>2 DEF Low16, Lower
<1>9. Word(y * q) = n * q
  <2>1. PICK e \in Int : e = c - d * q
    BY Times
  <2>2. y * q = (e * q) * q + n * q /\ (e * q) * q = e * (q * q)
    <3>1. e * q \in Int
      BY Times
    <3> QED BY <1>3, <1>7, <2>1, <3>1, TimesAdd, Times
  <2>3. n * q \in Words
    <3>1. 0 * q <= n * q /\ n * q < q * q /\ n * q \in Int
      BY <1>3, TimesOrder
    <3>2. 0 * q = 0
      OBVIOUS
    <3> QED BY <1>1, <3>1, <3>2, WordsAre, WordFacts
  <2>4. y * q \in Int /\ n * q \in Int
    BY <1>3, Times
  <2> QED BY <1>1, <2>2, <2>3, <2>4, SameWord, WordOfWord
<1> QED BY <1>1, <1>4, <1>5, <1>7, <1>8, <1>9

-----------------------------------------------------------------------------
(* What is decoded is what was encoded.                                    *)

\* What an operation is called once it is decoded: BREAK is not implemented.
Decoded(op) == IF op = "BREAK" THEN "UNIMP" ELSE op

\* The operations with an immediate that is read as an unsigned field.
Logical == {"ANDI", "ORI", "XORI", "LUI"}

\* Those with a shift amount.
ShiftAmounts == {"SLL", "SRL", "SRA"}

\* Decode finds the registers and the operation that Encode was given; a branch on
\* a sign has its condition in the field rt.
LEMMA DecodedFields ==
  ASSUME NEW i, IsInstruction(i)
  PROVE  /\ Decode(Encode(i)).rs = i.rs /\ Decode(Encode(i)).rd = i.rd
         /\ Decode(Encode(i)).opCode = Decoded(i.op)
         /\ i.op \notin DOMAIN Cond => Decode(Encode(i)).rt = i.rt
         /\ Decode(Encode(i)).rt \in Registers \cup {0, 1, 16, 17}
<1>1. CASE i.op \in DOMAIN Major
  <2>1. Encode(i).op = Major[i.op] /\ Encode(i).rs = i.rs /\ Encode(i).rd = i.rd /\ Encode(i).rt = i.rt
    BY <1>1 DEF Encode
  <2>2. opTable(Encode(i).op) = i.op /\ i.op \notin {"SPECIAL", "BCOND"} /\ i.op # "BREAK"
    BY <1>1, <2>1, MajorTable, Tables, FunctTable DEF Funct
  <2>3. i.rt \in Registers
    BY DEF IsInstruction
  <2> QED BY <2>1, <2>2, <2>3 DEF Decode, Decoded
<1>2. CASE i.op \in DOMAIN Funct
  <2>1. /\ Encode(i).op = 0 /\ Encode(i).rs = i.rs /\ Encode(i).rd = i.rd /\ Encode(i).rt = i.rt
        /\ Encode(i).funct = Funct[i.op]
    BY <1>2, FunctTable DEF Encode
  <2>2. opTable(Encode(i).op) = "SPECIAL" /\ specialTable(Encode(i).funct) = Decoded(i.op)
    BY <1>2, <2>1, Tables, FunctTable DEF Decoded
  <2>3. i.rt \in Registers
    BY DEF IsInstruction
  <2> QED BY <2>1, <2>2, <2>3 DEF Decode
<1>3. CASE i.op \in DOMAIN Cond
  <2>1. /\ Encode(i).op = 1 /\ Encode(i).rs = i.rs /\ Encode(i).rd = i.rd
        /\ Encode(i).rt = Cond[i.op]
    BY <1>3, Tables DEF Encode
  <2>2. opTable(Encode(i).op) = "BCOND"
    BY <2>1, Tables
  <2>3. \/ i.op = "BLTZ" /\ Cond[i.op] = 0
        \/ i.op = "BGEZ" /\ Cond[i.op] = 1
        \/ i.op = "BLTZAL" /\ Cond[i.op] = 16
        \/ i.op = "BGEZAL" /\ Cond[i.op] = 17
    BY <1>3 DEF Cond
  <2>4. Decode(Encode(i)).rs = i.rs /\ Decode(Encode(i)).rd = i.rd /\ Decode(Encode(i)).rt = Cond[i.op]
    BY <2>1 DEF Decode
  <2>5. Decode(Encode(i)).opCode = i.op
    BY <2>1, <2>2, <2>3 DEF Decode
  <2> QED BY <1>3, <2>3, <2>4, <2>5 DEF Decoded
<1> QED BY <1>1, <1>2, <1>3 DEF IsInstruction, Operations

\* The immediates, as Decode extends them.
LEMMA DecodedExtra ==
  ASSUME NEW i, IsInstruction(i)
  PROVE  /\ i.op \in ShiftAmounts => Decode(Encode(i)).extra = i.imm /\ i.imm \in 0 .. WordBits - 1
         /\ i.op \in {"J", "JAL"} => Decode(Encode(i)).extra = i.imm /\ i.imm \in Nat
         /\ i.op \in Logical => /\ Decode(Encode(i)).extra = Word(SignedOf(i.imm % Bytes(2), 2))
                                /\ i.imm \in 0 .. Bytes(2) - 1
         /\ i.op \in (DOMAIN Major \cup DOMAIN Cond) \ (Logical \cup {"J", "JAL"}) =>
              Decode(Encode(i)).extra = Word(i.imm) /\ i.imm \in Int
<1>1. CASE i.op \in ShiftAmounts
  <2>1. i.op \in DOMAIN Funct /\ i.op \notin DOMAIN Major /\ i.op \notin DOMAIN Cond
        /\ i.op \notin Logical \cup {"J", "JAL"}
    BY <1>1 DEF ShiftAmounts, Funct, Major, Cond, Logical
  <2>2. Encode(i).op = 0 /\ Encode(i).shamt = i.imm % 32
    BY <2>1 DEF Encode
  <2>3. i.imm \in 0 .. 31 /\ i.imm < WordBits
    BY <1>1, <2>1 DEF IsInstruction, Immediates, ShiftAmounts, Logical
  <2>4. i.imm % 32 = i.imm /\ i.imm \in 0 .. WordBits - 1
    BY <2>3, WordFacts
  <2>5. opTable(Encode(i).op) = "SPECIAL"
    BY <2>2, Tables
  <2>6. Decode(Encode(i)).extra = i.imm
    BY <2>2, <2>4, <2>5 DEF Decode
  <2> QED BY <1>1, <2>1, <2>4, <2>6
<1>2. CASE i.op \in DOMAIN Major \ {"J", "JAL"}
  <2>1. i.op \notin ShiftAmounts /\ i.op \notin DOMAIN Cond
    BY <1>2 DEF ShiftAmounts, Major, Cond
  <2>2. Encode(i).op = Major[i.op] /\ Encode(i).imm = i.imm % Bytes(2)
    BY <1>2 DEF Encode
  <2>3. opTable(Encode(i).op) = i.op /\ i.op \notin {"SPECIAL", "BCOND"}
    BY <1>2, <2>2, MajorTable, Tables
  <2>4. Decode(Encode(i)).extra = Word(SignedOf(i.imm % Bytes(2), 2))
    BY <1>2, <2>2, <2>3 DEF Decode
  <2>5. CASE i.op \in Logical
    <3>1. i.imm \in 0 .. Bytes(2) - 1
      BY <2>5 DEF IsInstruction, Immediates, Logical
    <3> QED BY <1>2, <2>1, <2>4, <2>5, <3>1
  <2>6. CASE i.op \notin Logical
    <3>1. i.imm \in -(Bytes(2) \div 2) .. Bytes(2) \div 2 - 1
      BY <1>2, <2>1, <2>6 DEF IsInstruction, Immediates, Logical, ShiftAmounts
    <3>2. i.imm \in Int /\ -(Bytes(2) \div 2) <= i.imm /\ i.imm <= Bytes(2) \div 2 - 1
      <4>1. PICK q \in Nat : q = Bytes(2)
        BY BytesAre
      <4> QED BY <3>1, <4>1
    <3>3. SignedOf(i.imm % Bytes(2), 2) = i.imm
      BY <3>2, HalfWord
    <3> QED BY <1>2, <2>1, <2>4, <2>6, <3>2, <3>3
  <2> QED BY <2>5, <2>6
<1>3. CASE i.op \in {"J", "JAL"}
  <2>1. i.op \in DOMAIN Major /\ i.op \notin ShiftAmounts /\ i.op \notin Logical
    BY <1>3 DEF ShiftAmounts, Major, Logical
  <2>2. Encode(i).op = Major[i.op] /\ Encode(i).target = i.imm % Bytes(3)
    BY <2>1 DEF Encode
  <2>3. opTable(Encode(i).op) = i.op
    BY <2>1, <2>2, MajorTable
  <2>4. i.imm \in 0 .. Bytes(3) - 1
    BY <1>3 DEF IsInstruction, Immediates
  <2>5. i.imm % Bytes(3) = i.imm /\ i.imm \in Nat
    <3>1. PICK q \in Nat \ {0} : q = Bytes(3)
      BY BytesAre
    <3>2. i.imm \in 0 .. q - 1 /\ 0 * q + i.imm = i.imm
      BY <2>4, <3>1
    <3>3. (0 * q + i.imm) % q = i.imm
      BY <3>2, DivIs
    <3> QED BY <3>1, <3>2, <3>3
  <2>6. Decode(Encode(i)).extra = i.imm
    BY <1>3, <2>2, <2>3, <2>5 DEF Decode
  <2> QED BY <1>3, <2>1, <2>5, <2>6
<1>4. CASE i.op \in DOMAIN Cond
  <2>1. i.op \notin ShiftAmounts /\ i.op \notin Logical \cup {"J", "JAL"} /\ i.op \notin DOMAIN Major
        /\ i.op \notin DOMAIN Funct
    BY <1>4, Tables DEF ShiftAmounts, Logical, Cond
  <2>2. Encode(i).op = 1 /\ Encode(i).imm = i.imm % Bytes(2)
    BY <2>1 DEF Encode
  <2>3. opTable(Encode(i).op) = "BCOND"
    BY <2>2, Tables
  <2>4. Decode(Encode(i)).extra = Word(SignedOf(i.imm % Bytes(2), 2))
    BY <2>2, <2>3 DEF Decode
  <2>5. i.imm \in -(Bytes(2) \div 2) .. Bytes(2) \div 2 - 1
    BY <1>4, <2>1 DEF IsInstruction, Immediates, Logical, ShiftAmounts
  <2>6. i.imm \in Int /\ -(Bytes(2) \div 2) <= i.imm /\ i.imm <= Bytes(2) \div 2 - 1
    <3>1. PICK q \in Nat : q = Bytes(2)
      BY BytesAre
    <3> QED BY <2>5, <3>1
  <2>7. SignedOf(i.imm % Bytes(2), 2) = i.imm
    BY <2>6, HalfWord
  <2> QED BY <2>1, <2>4, <2>6, <2>7
<1>5. CASE i.op \in DOMAIN Funct \ ShiftAmounts
  BY <1>5, Tables, FunctTable DEF Logical, Funct
<1> QED BY <1>1, <1>2, <1>3, <1>4, <1>5 DEF IsInstruction, Operations

-----------------------------------------------------------------------------
(* The invariant: besides the types, that the data are whole words.  Without *)
(* it a load of a word could run past them.                                  *)

\* The data in memory are those of one of DataSets, of whole words.
WholeWords ==
  \E bytes \in DataSets : DOMAIN mem = DataAddress .. DataAddress + Len(bytes) - 1

\* The inductive invariant.
Inv == TypeOK /\ WholeWords

\* The registers that the processor names by number are registers of programs, and
\* 0 is a word.
LEMMA RegisterFacts ==
  /\ Registers \subseteq 0 .. 31 /\ Registers \subseteq Nat
  /\ 0 \in Registers /\ 2 \in Registers /\ 4 \in Registers /\ 5 \in Registers /\ 31 \in Registers
  /\ 0 \in Words
BY WordAssumption, NoBits

\* What is fetched is an instruction of the program, decoded to the operation and
\* the registers that it was written with; they hold words.
LEMMA InstructionIs ==
  ASSUME TypeOK, Fetches
  PROVE  /\ IsInstruction(current) /\ instr.opCode = Decoded(current.op)
         /\ instr.opCode # "UNIMP" => current.op = instr.opCode
         /\ instr.opCode = "UNIMP" <=> current.op = "BREAK"
         /\ instr.opCode # "RES"
         /\ instr.rs = current.rs /\ instr.rd = current.rd
         /\ current.op \notin DOMAIN Cond => instr.rt = current.rt
         /\ current.rs \in Registers /\ current.rt \in Registers /\ current.rd \in Registers
         /\ regs[current.rs] \in Words /\ regs[current.rt] \in Words /\ regs[current.rd] \in Words
         /\ Rs = regs[current.rs]
         /\ current.op \notin DOMAIN Cond => Rt = regs[current.rt]
<1>1. IsInstruction(current)
  BY ProgramsAssumption DEF TypeOK, Fetches, current
<1>2. current.rs \in Registers /\ current.rt \in Registers /\ current.rd \in Registers
  BY <1>1 DEF IsInstruction
<1>3. regs[current.rs] \in Words /\ regs[current.rt] \in Words /\ regs[current.rd] \in Words
  BY <1>2 DEF TypeOK
<1>4. /\ instr.rs = current.rs /\ instr.rd = current.rd /\ instr.opCode = Decoded(current.op)
      /\ current.op \notin DOMAIN Cond => instr.rt = current.rt
  BY <1>1, DecodedFields DEF instr
<1>5. current.op \in Operations /\ "UNIMP" \notin Operations /\ "RES" \notin Operations
  BY <1>1 DEF IsInstruction, Operations, Major, Funct, Cond
<1>6. /\ instr.opCode # "UNIMP" => current.op = instr.opCode
      /\ instr.opCode = "UNIMP" <=> current.op = "BREAK"
      /\ instr.opCode # "RES"
  BY <1>4, <1>5 DEF Decoded
<1>7. /\ Rs = regs[current.rs]
      /\ current.op \notin DOMAIN Cond => Rt = regs[current.rt]
  BY <1>4 DEF Rs, Rt
<1> QED BY <1>1, <1>2, <1>3, <1>4, <1>6, <1>7

\* The groups of operations that the actions treat alike, and how they are encoded.
LEMMA Groups ==
  /\ (IntoRt \cup IntoRd \cup Aligned \cup Unaligned \cup Jumps) \cap DOMAIN Cond = {}
  /\ {"MTHI", "MTLO", "MULT", "MULTU", "DIV", "DIVU", "SYSCALL", "BREAK", "BEQ", "BNE", "BGTZ", "BLEZ"}
        \cap DOMAIN Cond = {}
  /\ IntoRt \subseteq DOMAIN Major /\ Aligned \cup Unaligned \subseteq DOMAIN Major
  /\ (Aligned \cup Unaligned) \cap (Logical \cup {"J", "JAL"}) = {}
  /\ Conditional \subseteq DOMAIN Major \cup DOMAIN Cond
  /\ Conditional \cap (Logical \cup {"J", "JAL"}) = {}
  /\ IntoRd \cap DOMAIN Major = {}
  /\ Logical \subseteq IntoRt /\ IntoRt \cap {"J", "JAL"} = {}
  /\ "UNIMP" \notin IntoRt \cup IntoRd \cup Aligned \cup Unaligned \cup Jumps \cup Conditional
BY DEF IntoRt, IntoRd, Aligned, Unaligned, Jumps, Cond, Major, Logical, Conditional

\* The immediate of an operation on registers, of an access to memory or of a branch
\* is a word, that of a shift an amount, and that of a jump a number.
LEMMA ExtraIs ==
  ASSUME TypeOK, Fetches
  PROVE  /\ current.op \in ShiftAmounts => instr.extra = current.imm /\ instr.extra \in 0 .. WordBits - 1
         /\ current.op \in {"J", "JAL"} => instr.extra = current.imm /\ instr.extra \in Nat
         /\ current.op \in Logical => instr.extra \in Words
         /\ current.op \in (IntoRt \ Logical) \cup Aligned \cup Unaligned \cup Conditional =>
              instr.extra = Word(current.imm) /\ current.imm \in Int /\ instr.extra \in Words
<1>1. IsInstruction(current)
  BY InstructionIs
<1> DEFINE i == current
<1>2. IsInstruction(i)
  BY <1>1
<1>3. instr = Decode(Encode(i))
  BY DEF instr
<1> HIDE DEF i
<1>4. /\ i.op \in ShiftAmounts => instr.extra = i.imm /\ i.imm \in 0 .. WordBits - 1
      /\ i.op \in {"J", "JAL"} => instr.extra = i.imm /\ i.imm \in Nat
      /\ i.op \in Logical => /\ instr.extra = Word(SignedOf(i.imm % Bytes(2), 2))
                             /\ i.imm \in 0 .. Bytes(2) - 1
      /\ i.op \in (DOMAIN Major \cup DOMAIN Cond) \ (Logical \cup {"J", "JAL"}) =>
           instr.extra = Word(i.imm) /\ i.imm \in Int
  BY <1>2, <1>3, DecodedExtra
<1>5. i.op \in Logical => instr.extra \in Words
  <2>1. ASSUME i.op \in Logical PROVE SignedOf(i.imm % Bytes(2), 2) \in Int
    <3>1. PICK q \in Nat \ {0} : q = Bytes(2)
      BY BytesAre
    <3>2. i.imm \in Int
      BY <1>4, <2>1, <3>1
    <3>3. i.imm % q \in Int
      BY <3>2, DivMod
    <3> QED BY <3>1, <3>3 DEF SignedOf
  <2> QED BY <1>4, <2>1, WordIs
<1>6. i.op \in (IntoRt \ Logical) \cup Aligned \cup Unaligned \cup Conditional =>
        instr.extra = Word(i.imm) /\ i.imm \in Int /\ instr.extra \in Words
  BY <1>4, Groups, WordIs
<1> QED BY <1>4, <1>5, <1>6 DEF i

\* A bitwise operation, a shift and a difference of words give words.
LEMMA ShiftedWord ==
  ASSUME NEW w \in Words, NEW n \in Nat
  PROVE  Shifted(w, n) \in Words /\ Word(w * Power2[n]) \in Words
<1>1. Signed(w) \in Int /\ w \in Int /\ Power2[n] \in Nat \ {0}
  BY SignedInt, PowerNat, WordsAre
<1>2. PICK p \in Nat \ {0} : p = Power2[n]
  BY <1>1
<1>3. Signed(w) \div p \in Int /\ w * p \in Int
  <2>1. PICK s \in Int : s = Signed(w)
    BY <1>1
  <2>2. s \div p \in Int
    BY DivMod
  <2>3. w * p \in Int
    BY <1>1
  <2> QED BY <2>1, <2>2, <2>3
<1> QED BY <1>2, <1>3, WordIs DEF Shifted

\* What an operation on registers gives is a word.
LEMMA ResultWord ==
  ASSUME TypeOK, Fetches, instr.opCode \in IntoRt \cup IntoRd
  PROVE  Result \in Words
<1>1. current.op = instr.opCode /\ Rs \in Words /\ Rt \in Words /\ hi \in Words /\ lo \in Words
  BY InstructionIs, Groups DEF TypeOK
<1>2. PICK r \in Words, t \in Words : r = Rs /\ t = Rt
  BY <1>1
<1>3. PICK e : e = instr.extra
  OBVIOUS
<1>4. PICK o : o = instr.opCode
  OBVIOUS
<1>5. /\ o \in ShiftAmounts => e \in Nat
      /\ o \in IntoRt => e \in Words
  BY <1>1, <1>3, <1>4, ExtraIs, WordFacts
<1>6. r \in Int /\ t \in Int /\ 0 \in Words /\ 1 \in Words
  <2>1. 1 \in Words
    <3>1. WordBits - 1 \in Nat /\ Power2[WordBits] = 2 * Power2[WordBits - 1] /\ Power2[WordBits - 1] \in Nat \ {0}
      <4>1. PICK m \in Nat : m = WordBits - 1 /\ m + 1 = WordBits
        BY WordFacts
      <4> QED BY <4>1, PowerIs, PowerNat
    <3> QED BY <3>1, WordsAre
  <2> QED BY <2>1, WordsAre, RegisterFacts
<1>7. CASE o \in {"ADD", "ADDU", "SUB", "SUBU"}
  <2>1. Word(r + t) \in Words /\ Word(r - t) \in Words
    BY <1>6, WordIs
  <2> QED BY <1>2, <1>4, <1>7, <2>1 DEF Result
<1>8. CASE o \in {"ADDI", "ADDIU"}
  <2>1. e \in Int
    BY <1>5, <1>8, WordsAre DEF IntoRt
  <2>2. Word(r + e) \in Words
    BY <1>6, <2>1, WordIs
  <2> QED BY <1>2, <1>3, <1>4, <1>8, <2>2 DEF Result
<1>9. CASE o \in {"AND", "OR", "XOR", "NOR"}
  <2>1. And(r, t) \in Words /\ Or(r, t) \in Words /\ Xor(r, t) \in Words
    BY Combined
  <2>2. Bytes(4) - 1 - Or(r, t) \in Words
    BY <2>1, ComplementIs
  <2> QED BY <1>2, <1>4, <1>9, <2>1, <2>2 DEF Result
<1>10. CASE o \in Logical
  <2>1. e \in Words
    BY <1>5, <1>10, Groups
  <2>2. Low16(e) \in Words /\ Word(e * Bytes(2)) \in Words
    <3>1. PICK q \in Nat \ {0} : q = Bytes(2)
      BY BytesAre
    <3>2. e \in Int /\ e >= 0 /\ e < Power2[WordBits] /\ e * q \in Int
      BY <2>1, <3>1, WordsAre
    <3>3. e % q \in Int /\ e % q >= 0 /\ e % q <= e
      <4>1. e % q \in 0 .. q - 1
        BY <3>2, DivMod
      <4>2. CASE e < q
        <5>1. e \in 0 .. q - 1 /\ 0 * q + e = e
          BY <3>2, <4>2
        <5>2. (0 * q + e) % q = e
          BY <5>1, DivIs
        <5> QED BY <3>2, <5>1, <5>2
      <4>3. CASE e >= q
        BY <3>2, <4>1, <4>3
      <4> QED BY <3>2, <4>1, <4>2, <4>3
    <3>4. PICK P \in Nat : P = Power2[WordBits]
      BY WordFacts
    <3>5. e % q \in Words
      BY <3>2, <3>3, <3>4, WordsAre
    <3> QED BY <3>1, <3>2, <3>5, WordIs DEF Low16, Lower
  <2>3. And(r, Low16(e)) \in Words /\ Or(r, Low16(e)) \in Words /\ Xor(r, Low16(e)) \in Words
    BY <2>2, Combined
  <2> QED BY <1>2, <1>3, <1>4, <1>10, <2>2, <2>3 DEF Result, Logical
<1>11. CASE o \in {"SLT", "SLTI", "SLTU", "SLTIU"}
  BY <1>4, <1>6, <1>11 DEF Result
<1>12. CASE o \in ShiftAmounts
  <2>1. Shifted(t, e) \in Words /\ Word(t * Power2[e]) \in Words
    BY <1>5, <1>12, ShiftedWord
  <2> QED BY <1>2, <1>3, <1>4, <1>12, <2>1 DEF Result, ShiftAmounts
<1>13. CASE o \in {"SLLV", "SRLV", "SRAV"}
  <2>1. And(r, ShiftMask) \in Nat
    BY ShiftMaskIs, WordFacts
  <2>2. Shifted(t, And(r, ShiftMask)) \in Words /\ Word(t * Power2[And(r, ShiftMask)]) \in Words
    BY <2>1, ShiftedWord
  <2> QED BY <1>2, <1>4, <1>13, <2>2 DEF Result
<1>14. CASE o \in {"MFHI", "MFLO"}
  BY <1>1, <1>4, <1>14 DEF Result
<1>15. o \in {"ADD", "ADDU", "SUB", "SUBU"} \cup {"ADDI", "ADDIU"} \cup {"AND", "OR", "XOR", "NOR"}
             \cup Logical \cup {"SLT", "SLTI", "SLTU", "SLTIU"} \cup ShiftAmounts
             \cup {"SLLV", "SRLV", "SRAV"} \cup {"MFHI", "MFLO"}
  BY <1>4 DEF IntoRt, IntoRd, Logical, ShiftAmounts
<1> QED BY <1>7, <1>8, <1>9, <1>10, <1>11, <1>12, <1>13, <1>14, <1>15

-----------------------------------------------------------------------------
(* The memory: addresses within it, and the words read.                    *)

\* The data are at least a word, start at a word and end with one.
LEMMA DataAre ==
  ASSUME WholeWords
  PROVE  \E m, k \in Nat : k # 0 /\ DOMAIN mem = 4 * m .. 4 * m + 4 * k - 1 /\ 4 * m + 4 * k <= Bytes(4)
<1>1. PICK bytes \in DataSets : DOMAIN mem = DataAddress .. DataAddress + Len(bytes) - 1
  BY DEF WholeWords
<1>2. /\ bytes \in Seq(0 .. Bytes(1) - 1) /\ Len(bytes) % 4 = 0 /\ bytes # <<>>
      /\ DataAddress + Len(bytes) <= Bytes(4)
  BY ProgramsAssumption
<1>3. Len(bytes) \in Nat /\ Len(bytes) # 0
  BY <1>2
<1>4. PICK n \in Nat : n = Len(bytes) /\ n # 0 /\ n % 4 = 0
  BY <1>2, <1>3
<1>5. PICK k \in Nat : n = 4 * k /\ k # 0
  <2>1. n = 4 * (n \div 4) /\ n \div 4 \in Nat
    BY <1>4
  <2> QED BY <1>4, <2>1
<1>6. PICK m \in Nat : DataAddress = 4 * m
  <2>1. PICK d \in Nat : d = DataAddress /\ d % 4 = 0
    BY ProgramsAssumption
  <2>2. d = 4 * (d \div 4) /\ d \div 4 \in Nat
    BY <2>1
  <2> QED BY <2>1, <2>2
<1>7. k # 0 /\ DOMAIN mem = 4 * m .. 4 * m + 4 * k - 1 /\ 4 * m + 4 * k <= Bytes(4)
  BY <1>1, <1>2, <1>4, <1>5, <1>6
<1> QED BY <1>7

\* The bytes of the word, or of the half word, of an address within the data are
\* within the data, and an address is past them when its word is.
LEMMA WordIn ==
  ASSUME WholeWords, NEW a \in Nat
  PROVE  /\ a % 4 \in 0 .. 3 /\ a - (a % 4) \in Nat /\ (a - (a % 4)) % 4 = 0
         /\ a \in DOMAIN mem <=> a - (a % 4) \in DOMAIN mem
         /\ a \in DOMAIN mem => \A k \in 0 .. 3 : (a - (a % 4)) + k \in DOMAIN mem
         /\ a \in DOMAIN mem /\ a % 2 = 0 => a + 1 \in DOMAIN mem
         /\ Past(a) <=> Past(a - (a % 4))
         /\ DOMAIN mem \subseteq Nat
<1>1. PICK m \in Nat, k \in Nat : k # 0 /\ DOMAIN mem = 4 * m .. 4 * m + 4 * k - 1
  BY DataAre
<1>2. PICK q \in Nat, r \in 0 .. 3 : a = 4 * q + r /\ a % 4 = r /\ a - (a % 4) = 4 * q
  <2>1. a % 4 \in 0 .. 3 /\ a \div 4 \in Nat /\ a = 4 * (a \div 4) + (a % 4)
    OBVIOUS
  <2> QED BY <2>1
<1>3. (4 * q) % 4 = 0
  OBVIOUS
<1>4. a \in DOMAIN mem <=> 4 * q \in DOMAIN mem
  BY <1>1, <1>2
<1>5. a \in DOMAIN mem => \A j \in 0 .. 3 : 4 * q + j \in DOMAIN mem
  BY <1>1, <1>2
<1>6. a \in DOMAIN mem /\ a % 2 = 0 => a + 1 \in DOMAIN mem
  <2>1. ASSUME a % 2 = 0 PROVE r \in {0, 2}
    BY <1>2, <2>1
  <2> QED BY <1>1, <1>2, <2>1
<1>7. \A b : Past(b) <=> \A c \in DOMAIN mem : c < b
  BY DEF Past
<1>8. PICK t \in Nat : t = 4 * m + 4 * k - 1 /\ t \in DOMAIN mem /\ \A c \in DOMAIN mem : c \in Nat /\ c <= t
  BY <1>1
<1>9. Past(a) <=> Past(4 * q)
  <2>1. Past(a) <=> t < a
    BY <1>7, <1>8
  <2>2. Past(4 * q) <=> t < 4 * q
    <3>1. PICK z \in Nat : z = 4 * q
      OBVIOUS
    <3>2. Past(z) <=> t < z
      BY <1>7, <1>8
    <3> QED BY <3>1, <3>2
  <2> QED BY <1>2, <1>8, <2>1, <2>2
<1> QED BY <1>1, <1>2, <1>3, <1>4, <1>5, <1>6, <1>9

\* What is read is made of the bytes of the memory, and is a word.
LEMMA ReadIs ==
  ASSUME TypeOK, WholeWords, NEW a \in Nat
  PROVE  /\ Accessible(a, 1) => ReadMem(a, 1) = FromBytes(mem[a], 0, 0, 0) /\ ReadMem(a, 1) \in Words
         /\ Accessible(a, 2) => /\ ReadMem(a, 2) = FromBytes(mem[a], mem[a + 1], 0, 0)
                                /\ ReadMem(a, 2) \in Words
         /\ Accessible(a, 4) => /\ ReadMem(a, 4) = FromBytes(mem[a], mem[a + 1], mem[a + 2], mem[a + 3])
                                /\ ReadMem(a, 4) \in Words
                                /\ \A k \in 0 .. 3 : a + k \in DOMAIN mem /\ mem[a + k] = ByteOf(ReadMem(a, 4), k)
<1>1. \A b \in DOMAIN mem : mem[b] \in Byte
  BY DEF TypeOK, Byte
<1>2. /\ Bytes(1) \in Int /\ Bytes(2) \in Int /\ Bytes(3) \in Int
      /\ \A z \in Int : z + 0 = z /\ z + 0 * Bytes(1) = z /\ z + 0 * Bytes(2) = z /\ z + 0 * Bytes(3) = z
  BY BytesAre
<1>3. Byte \subseteq Int
  BY BytesAre DEF Byte
<1>4. ASSUME Accessible(a, 1)
      PROVE  ReadMem(a, 1) = FromBytes(mem[a], 0, 0, 0) /\ ReadMem(a, 1) \in Words
  <2>1. PICK x \in Byte : x = mem[a]
    BY <1>1, <1>4 DEF Accessible
  <2>2. FromBytes(x, 0, 0, 0) = x
    BY <1>2, <1>3 DEF FromBytes
  <2>3. FromBytes(x, 0, 0, 0) \in Words
    BY ByteSum, ZeroByte
  <2> QED BY <2>1, <2>2, <2>3 DEF ReadMem
<1>5. ASSUME Accessible(a, 2)
      PROVE  ReadMem(a, 2) = FromBytes(mem[a], mem[a + 1], 0, 0) /\ ReadMem(a, 2) \in Words
  <2>1. PICK x \in Byte, y \in Byte : x = mem[a] /\ y = mem[a + 1]
    BY <1>1, <1>5, WordIn DEF Accessible
  <2>2. FromBytes(x, y, 0, 0) = x + y * Bytes(1)
    <3>1. y * Bytes(1) \in Int
      BY <1>2, <1>3, Times
    <3>2. x + y * Bytes(1) \in Int
      BY <1>3, <3>1
    <3> QED BY <1>2, <3>2 DEF FromBytes
  <2>3. FromBytes(x, y, 0, 0) \in Words
    BY ByteSum, ZeroByte
  <2> QED BY <2>1, <2>2, <2>3 DEF ReadMem
<1>6. ASSUME Accessible(a, 4)
      PROVE  /\ ReadMem(a, 4) = FromBytes(mem[a], mem[a + 1], mem[a + 2], mem[a + 3])
             /\ ReadMem(a, 4) \in Words
             /\ \A k \in 0 .. 3 : a + k \in DOMAIN mem /\ mem[a + k] = ByteOf(ReadMem(a, 4), k)
  <2>1. a % 4 = 0 /\ a - (a % 4) = a /\ a \in DOMAIN mem
    BY <1>6 DEF Accessible
  <2>2. \A k \in 0 .. 3 : a + k \in DOMAIN mem
    BY <2>1, WordIn
  <2>3. a + 0 = a /\ 0 \in 0 .. 3 /\ 1 \in 0 .. 3 /\ 2 \in 0 .. 3 /\ 3 \in 0 .. 3
    OBVIOUS
  <2>4. PICK x \in Byte, y \in Byte, z \in Byte, w \in Byte :
          x = mem[a + 0] /\ x = mem[a] /\ y = mem[a + 1] /\ z = mem[a + 2] /\ w = mem[a + 3]
    BY <1>1, <2>2, <2>3
  <2>5. FromBytes(x, y, z, w) \in Words
    BY ByteSum
  <2>6. ReadMem(a, 4) = FromBytes(x, y, z, w)
    BY <2>4 DEF ReadMem, FromBytes
  <2>7. \A k \in 0 .. 3 : mem[a + k] = ByteOf(ReadMem(a, 4), k)
    <3>1. \A k \in 0 .. 3 : k = 0 \/ k = 1 \/ k = 2 \/ k = 3
      OBVIOUS
    <3>2. /\ ByteOf(FromBytes(x, y, z, w), 0) = x /\ ByteOf(FromBytes(x, y, z, w), 1) = y
          /\ ByteOf(FromBytes(x, y, z, w), 2) = z /\ ByteOf(FromBytes(x, y, z, w), 3) = w
      BY ByteOfSum
    <3> QED BY <2>4, <2>6, <3>1, <3>2
  <2> QED BY <2>2, <2>4, <2>5, <2>6, <2>7
<1> QED BY <1>4, <1>5, <1>6

\* The address of an access is a word, and the word that it is in starts at a
\* multiple of 4.
LEMMA AddressIs ==
  ASSUME TypeOK, Fetches, instr.opCode \in Aligned \cup Unaligned
  PROVE  /\ current.op = instr.opCode /\ instr.rs = current.rs /\ instr.rt = current.rt
         /\ current.imm \in Int /\ instr.extra = Word(current.imm)
         /\ addr0 = Word(regs[current.rs] + current.imm) /\ addr0 \in Words /\ addr0 \in Nat
         /\ byte = addr0 % 4 /\ byte \in 0 .. 3
         /\ Touched \in Nat /\ Touched = (IF instr.opCode \in Unaligned THEN addr0 - (addr0 % 4) ELSE addr0)
         /\ Size \in {1, 2, 4}
         /\ Rt = regs[current.rt] /\ Rt \in Words
<1>1. /\ current.op = instr.opCode /\ instr.rs = current.rs /\ instr.rt = current.rt
      /\ Rs = regs[current.rs] /\ Rt = regs[current.rt] /\ Rs \in Words /\ Rt \in Words
  BY InstructionIs, Groups
<1>2. instr.extra = Word(current.imm) /\ current.imm \in Int /\ instr.extra \in Words
  BY <1>1, ExtraIs
<1>3. PICK r \in Words, m \in Int : r = Rs /\ m = current.imm
  BY <1>1, <1>2
<1>4. r \in Int /\ r + Word(m) \in Int /\ r + m \in Int
  BY <1>2, <1>3, WordsAre
<1>5. addr0 = Word(r + Word(m)) /\ Word(r + Word(m)) = Word(r + m)
  BY <1>2, <1>3, <1>4, WordAdds DEF addr0
<1>6. addr0 \in Words /\ addr0 \in Nat
  BY <1>4, <1>5, WordIs, WordsAre
<1>7. byte = addr0 % 4 /\ byte \in 0 .. 3 /\ addr0 - (addr0 % 4) \in Nat
  <2>1. PICK a \in Nat : a = addr0
    BY <1>6
  <2>2. a % 4 \in 0 .. 3 /\ a - (a % 4) \in Nat
    OBVIOUS
  <2> QED BY <2>1, <2>2 DEF byte
<1>8. Touched \in Nat /\ Touched = (IF instr.opCode \in Unaligned THEN addr0 - (addr0 % 4) ELSE addr0)
  BY <1>6, <1>7 DEF Touched
<1>9. Size \in {1, 2, 4}
  BY DEF Size
<1> QED BY <1>1, <1>2, <1>3, <1>5, <1>6, <1>7, <1>8, <1>9

\* A load that is extended by its sign gives a word.
LEMMA ExtendedWord ==
  ASSUME NEW v \in Words, NEW n \in {1, 2, 4}
  PROVE  Word(SignedOf(v, n)) \in Words
<1>1. PICK q \in Nat \ {0} : q = Bytes(n)
  BY BytesAre
<1>2. v \in Int
  BY WordsAre
<1>3. SignedOf(v, n) \in Int
  BY <1>1, <1>2 DEF SignedOf
<1> QED BY <1>3, WordIs

\* The merge of LWL and LWR gives a word.
LEMMA MergedWord ==
  ASSUME byte \in 0 .. 3, Previous \in Words, NEW word \in Words, instr.opCode \in {"LWL", "LWR"}
  PROVE  Merged(word) \in Words
<1>1. CASE instr.opCode = "LWL"
  <2>1. PICK j \in 0 .. 3 : j = 3 - byte
    OBVIOUS
  <2>2. Lower(Previous, j) + Word(word * Bytes(j)) \in Words
    BY MergeAbove
  <2> QED BY <1>1, <2>1, <2>2 DEF Merged
<1>2. CASE instr.opCode = "LWR"
  <2>1. PICK j \in 0 .. 3 : j = byte
    OBVIOUS
  <2>2. Previous - Lower(Previous, 4 - j) + word \div Bytes(j) \in Words
    BY MergeBelow
  <2> QED BY <1>2, <2>1, <2>2 DEF Merged
<1> QED BY <1>1, <1>2

\* The next counter is a word, and so is what a jump ors.
LEMMA NextWord ==
  ASSUME TypeOK
  PROVE  pcAfter0 \in Words
<1>1. nextPC \in Words
  BY DEF TypeOK
<1>2. nextPC \in Int
  BY <1>1, WordsAre
<1>3. nextPC + 4 \in Int
  BY <1>2
<1> QED BY <1>3, WordIs DEF pcAfter0

\* An or gives a word.
LEMMA OrWord ==
  ASSUME NEW x, NEW y
  PROVE  Or(x, y) \in Words
<1>1. Bits(x) \cup Bits(y) \in SUBSET (0 .. WordBits - 1)
  BY DEF Bits
<1> QED BY <1>1, BitsOfBits DEF Or

\* What ends an instruction keeps the types, if it is given words.
LEMMA RetireType ==
  ASSUME Inv, NEW registers \in [Registers -> Words], NEW nextReg \in Registers, NEW nextValue \in Words,
         NEW pcAfter \in Words, Retire(registers, nextReg, nextValue, pcAfter),
         hi' \in Words, lo' \in Words, mem' \in [DOMAIN mem -> 0 .. Bytes(1) - 1]
  PROVE  Inv'
<1>1. regs' = [registers EXCEPT ![loadReg] = loadValue, ![0] = 0] /\ loadReg' = nextReg /\ loadValue' = nextValue
  BY DEF Retire, DelayedLoad
<1>2. loadReg \in Registers /\ loadValue \in Words /\ 0 \in Registers /\ 0 \in Words
  BY RegisterFacts DEF Inv, TypeOK
<1>3. regs' \in [Registers -> Words] /\ regs'[0] = 0
  BY <1>1, <1>2
<1>4. pc' \in Words /\ nextPC' \in Words /\ program' \in Programs /\ status' = status
  BY DEF Retire, Inv, TypeOK
<1>5. mem' \in [DOMAIN mem' -> 0 .. Bytes(1) - 1] /\ DOMAIN mem' = DOMAIN mem
  OBVIOUS
<1>6. WholeWords'
  BY <1>5 DEF Inv, WholeWords
<1> QED BY <1>1, <1>3, <1>4, <1>5, <1>6 DEF Inv, TypeOK

\* An exception keeps the types, too.
LEMMA ExceptionType ==
  ASSUME Inv, NEW which \in {"halted", "overflow", "illegal instruction", "address error"},
         RaiseException(which)
  PROVE  Inv'
<1>1. regs' = [regs EXCEPT ![loadReg] = loadValue, ![0] = 0] /\ loadReg' = 0 /\ loadValue' = 0
  BY DEF RaiseException, DelayedLoad
<1>2. loadReg \in Registers /\ loadValue \in Words /\ 0 \in Registers /\ 0 \in Words /\ regs \in [Registers -> Words]
  BY RegisterFacts DEF Inv, TypeOK
<1>3. regs' \in [Registers -> Words] /\ regs'[0] = 0
  BY <1>1, <1>2
<1>4. status' = which /\ UNCHANGED <<program, mem, hi, lo, pc, nextPC>>
  BY DEF RaiseException
<1>5. WholeWords'
  BY <1>4 DEF Inv, WholeWords
<1> QED BY <1>1, <1>2, <1>3, <1>4, <1>5 DEF Inv, TypeOK

\* A write of a word's bytes leaves bytes.
LEMMA WriteType ==
  ASSUME TypeOK, NEW v \in Words, NEW n \in {1, 2, 4}, NEW a \in Nat, WholeWords, WriteMem(a, n, v)
  PROVE  mem' \in [DOMAIN mem -> 0 .. Bytes(1) - 1]
<1>1. \A b \in DOMAIN mem : b \in a .. a + n - 1 => ByteOf(v, b - a) \in 0 .. Bytes(1) - 1
  <2> SUFFICES ASSUME NEW b \in DOMAIN mem, b \in a .. a + n - 1
               PROVE  ByteOf(v, b - a) \in 0 .. Bytes(1) - 1
    OBVIOUS
  <2>1. b - a \in 0 .. 3
    OBVIOUS
  <2>2. PICK k \in 0 .. 3 : k = b - a
    BY <2>1
  <2>3. ByteOf(v, k) \in Byte
    BY ByteOfByte
  <2> QED BY <2>2, <2>3 DEF Byte
<1>2. \A b \in DOMAIN mem : mem[b] \in 0 .. Bytes(1) - 1
  BY DEF TypeOK
<1>3. mem' = [b \in DOMAIN mem |-> IF b \in a .. a + n - 1 THEN ByteOf(v, b - a) ELSE mem[b]]
  BY DEF WriteMem
<1> QED BY <1>1, <1>2, <1>3, Zenon

-----------------------------------------------------------------------------
(* The types are kept by each action.                                      *)

\* Operations on registers keep the types, ...
LEMMA ComputeType ==
  ASSUME Inv, Compute
  PROVE  Inv'
<1>1. Fetches /\ instr.opCode \in IntoRt \cup IntoRd /\ UNCHANGED <<mem, hi, lo>>
  BY DEF Compute
<1>2. Result \in Words /\ pcAfter0 \in Words
  BY <1>1, ResultWord, NextWord DEF Inv
<1> DEFINE r == IF instr.opCode \in IntoRt THEN instr.rt ELSE instr.rd
<1>3. Retire([regs EXCEPT ![r] = Result], 0, 0, pcAfter0)
  BY DEF Compute, RetireWith
<1> HIDE DEF r
<1>4. [regs EXCEPT ![r] = Result] \in [Registers -> Words]
  BY <1>2 DEF Inv, TypeOK
<1> QED BY <1>1, <1>2, <1>3, <1>4, RetireType, RegisterFacts DEF Inv, TypeOK

\* ... moves to HI and LO, products and quotients, ...
LEMMA RestType ==
  ASSUME Inv, MoveToHiLo \/ Multiply \/ Divide
  PROVE  Inv'
<1>1. Fetches /\ Retire(regs, 0, 0, pcAfter0) /\ UNCHANGED mem
  BY DEF MoveToHiLo, Multiply, Divide
<1>2. /\ pcAfter0 \in Words /\ Rs \in Words /\ hi \in Words /\ lo \in Words /\ 0 \in Words /\ 0 \in Registers
      /\ regs \in [Registers -> Words] /\ mem \in [DOMAIN mem -> 0 .. Bytes(1) - 1]
  BY <1>1, InstructionIs, NextWord, RegisterFacts DEF Inv, TypeOK
<1>3. ASSUME instr.opCode \in {"MULT", "MULTU", "DIV", "DIVU"} PROVE Rt \in Words
  BY <1>1, <1>3, InstructionIs, Groups DEF Inv
<1>4. hi' \in Words /\ lo' \in Words
  <2>1. CASE MoveToHiLo
    BY <1>2, <2>1 DEF MoveToHiLo
  <2>2. CASE Multiply
    <3>1. PICK a \in Words, b \in Words : a = Rs /\ b = Rt
      BY <1>2, <1>3, <2>2 DEF Multiply
    <3>2. PICK s \in BOOLEAN : s = (instr.opCode = "MULT")
      OBVIOUS
    <3>3. hi' = Mult(a, b, s).hi /\ lo' = Mult(a, b, s).lo
      BY <2>2, <3>1, <3>2 DEF Multiply
    <3>4. Mult(a, b, s).hi \in Words /\ Mult(a, b, s).lo \in Words
      BY MultIs
    <3> QED BY <3>3, <3>4
  <2>3. CASE Divide
    <3>1. PICK a \in Words, b \in Words : a = Rs /\ b = Rt
      BY <1>2, <1>3, <2>3 DEF Divide
    <3>2. a \in Int /\ b \in Int /\ Signed(a) \in Int /\ Signed(b) \in Int
      BY WordsAre, SignedInt
    <3>3. PICK n \in Int, d \in Int :
            IF d = 0 THEN lo' = 0 /\ hi' = 0
            ELSE lo' = Word(Quotient(n, d)) /\ hi' = Word(n - d * Quotient(n, d))
      <4>1. CASE instr.opCode = "DIV"
        BY <2>3, <3>1, <3>2, <4>1 DEF Divide
      <4>2. CASE instr.opCode # "DIV"
        BY <2>3, <3>1, <3>2, <4>2 DEF Divide
      <4> QED BY <4>1, <4>2
    <3>4. CASE d = 0
      BY <1>2, <3>3, <3>4
    <3>5. CASE d # 0
      <4>1. Quotient(n, d) \in Int /\ d * Quotient(n, d) \in Int
        BY <3>5, QuotientIs
      <4>2. n - d * Quotient(n, d) \in Int
        BY <4>1
      <4> QED BY <3>3, <3>5, <4>1, <4>2, WordIs
    <3> QED BY <3>4, <3>5
  <2> QED BY <2>1, <2>2, <2>3
<1> QED BY <1>1, <1>2, <1>4, RetireType DEF Inv

\* A call writes a word into a register of the program.
LEMMA LinkedType ==
  ASSUME TypeOK, Fetches
  PROVE  Linked \in [Registers -> Words]
<1>1. pcAfter0 \in Words /\ regs \in [Registers -> Words]
  BY NextWord DEF TypeOK
<1> QED BY <1>1 DEF Linked

\* ... branches and jumps, ...
LEMMA BranchType ==
  ASSUME Inv, Branch \/ Jump
  PROVE  Inv'
<1>1. Fetches /\ UNCHANGED <<mem, hi, lo>>
  BY DEF Branch, Jump
<1>2. /\ pcAfter0 \in Words /\ Linked \in [Registers -> Words] /\ 0 \in Words /\ 0 \in Registers
      /\ hi \in Words /\ lo \in Words /\ mem \in [DOMAIN mem -> 0 .. Bytes(1) - 1]
      /\ nextPC \in Int
  BY <1>1, LinkedType, NextWord, RegisterFacts, WordsAre DEF Inv, TypeOK
<1>3. \E p \in Words : Retire(Linked, 0, 0, p)
  <2>1. CASE Branch
    <3>1. instr.extra \in Words
      BY <1>1, <2>1, ExtraIs, InstructionIs, Groups DEF Branch, Inv
    <3>2. PICK e \in Int : e = instr.extra
      BY <3>1, WordsAre
    <3>3. Word(nextPC + IndexToAddr(e)) \in Words
      <4>1. nextPC + 4 * e \in Int
        BY <1>2
      <4> QED BY <4>1, WordIs DEF IndexToAddr
    <3>4. Retire(Linked, 0, 0, IF Taken THEN Word(nextPC + IndexToAddr(e)) ELSE pcAfter0)
      BY <2>1, <3>2 DEF Branch
    <3>5. (IF Taken THEN Word(nextPC + IndexToAddr(e)) ELSE pcAfter0) \in Words
      BY <1>2, <3>3
    <3> QED BY <3>4, <3>5
  <2>2. CASE Jump
    <3>1. CASE instr.opCode \in {"J", "JAL"}
      <4>1. Or(And(pcAfter0, RegionBits), IndexToAddr(instr.extra)) \in Words
        BY OrWord
      <4>2. Retire(Linked, 0, 0, Or(And(pcAfter0, RegionBits), IndexToAddr(instr.extra)))
        BY <2>2, <3>1 DEF Jump
      <4> QED BY <4>1, <4>2
    <3>2. CASE instr.opCode \notin {"J", "JAL"}
      <4>1. Retire(Linked, 0, 0, Linked[instr.rs])
        BY <2>2, <3>2 DEF Jump
      <4>2. instr.rs \in Registers
        BY <1>1, InstructionIs DEF Inv
      <4> QED BY <1>2, <4>1, <4>2
    <3> QED BY <3>1, <3>2
  <2> QED BY <2>1, <2>2
<1>4. PICK p \in Words : Retire(Linked, 0, 0, p)
  BY <1>3
<1> QED BY <1>1, <1>2, <1>4, RetireType

\* ... loads, ...
LEMMA LoadType ==
  ASSUME Inv, LoadAligned \/ LoadUnaligned
  PROVE  Inv'
<1>1. Fetches /\ UNCHANGED <<mem, hi, lo>> /\ instr.opCode \in Aligned \cup Unaligned
  BY DEF LoadAligned, LoadUnaligned, Unaligned
<1>2. /\ pcAfter0 \in Words /\ regs \in [Registers -> Words] /\ hi \in Words /\ lo \in Words
      /\ mem \in [DOMAIN mem -> 0 .. Bytes(1) - 1] /\ loadValue \in Words
  BY NextWord DEF Inv, TypeOK
<1>3. instr.rt \in Registers /\ addr0 \in Nat /\ Size \in {1, 2, 4} /\ byte \in 0 .. 3 /\ Touched \in Nat /\ Rt \in Words
  BY <1>1, AddressIs, InstructionIs DEF Inv
<1>4. \E v \in Words : Retire(regs, instr.rt, v, pcAfter0)
  <2>1. CASE LoadAligned
    <3>1. Accessible(addr0, Size)
      BY <2>1 DEF LoadAligned
    <3>2. PICK a \in Nat : a = addr0
      BY <1>3
    <3>3. ReadMem(a, Size) \in Words
      BY <1>3, <3>1, <3>2, ReadIs DEF Inv
    <3>4. PICK v \in Words : v = ReadMem(a, Size)
      BY <3>3
    <3>5. Word(SignedOf(v, Size)) \in Words
      BY <1>3, ExtendedWord
    <3>6. Retire(regs, instr.rt, IF instr.opCode \in {"LB", "LH"} THEN Word(SignedOf(v, Size)) ELSE v, pcAfter0)
      BY <2>1, <3>2, <3>4 DEF LoadAligned
    <3>7. (IF instr.opCode \in {"LB", "LH"} THEN Word(SignedOf(v, Size)) ELSE v) \in Words
      BY <3>5
    <3> QED BY <3>6, <3>7
  <2>2. CASE LoadUnaligned
    <3>1. Accessible(Touched, 4)
      BY <2>2 DEF LoadUnaligned
    <3>2. PICK a \in Nat : a = Touched
      BY <1>3
    <3>3. ReadMem(a, 4) \in Words
      BY <3>1, <3>2, ReadIs DEF Inv
    <3>4. Previous \in Words
      BY <1>2, <1>3 DEF Previous
    <3>5. Merged(ReadMem(a, 4)) \in Words
      BY <1>3, <2>2, <3>3, <3>4, MergedWord DEF LoadUnaligned
    <3>6. Retire(regs, instr.rt, Merged(ReadMem(a, 4)), pcAfter0)
      BY <2>2, <3>2 DEF LoadUnaligned
    <3> QED BY <3>5, <3>6
  <2> QED BY <2>1, <2>2
<1>5. PICK v \in Words : Retire(regs, instr.rt, v, pcAfter0)
  BY <1>4
<1> QED BY <1>1, <1>2, <1>3, <1>5, RetireType

\* The word that SWL and SWR write is a word.
LEMMA StoredWord ==
  ASSUME NEW v \in Words, NEW t \in Words, byte \in 0 .. 3
  PROVE  /\ v - Lower(v, byte + 1) + t \div Bytes(3 - byte) \in Words
         /\ Lower(v, byte) + Word(t * Bytes(byte)) \in Words
<1>1. PICK j \in 0 .. 3, k \in 0 .. 3 : j = 3 - byte /\ k = byte /\ 4 - j = byte + 1
  OBVIOUS
<1>2. v - Lower(v, 4 - j) + t \div Bytes(j) \in Words
  BY MergeBelow
<1>3. Lower(v, k) + Word(t * Bytes(k)) \in Words
  BY MergeAbove
<1> QED BY <1>1, <1>2, <1>3

\* ... stores, ...
LEMMA StoreType ==
  ASSUME Inv, StoreAligned \/ StoreUnaligned
  PROVE  Inv'
<1>1. Fetches /\ UNCHANGED <<hi, lo>> /\ instr.opCode \in Aligned \cup Unaligned /\ Retire(regs, 0, 0, pcAfter0)
  BY DEF StoreAligned, StoreUnaligned, Aligned, Unaligned, hilo
<1>2. /\ pcAfter0 \in Words /\ regs \in [Registers -> Words] /\ hi \in Words /\ lo \in Words
      /\ 0 \in Registers /\ 0 \in Words
  BY NextWord, RegisterFacts DEF Inv, TypeOK
<1>3. Rt \in Words /\ addr0 \in Nat /\ Size \in {1, 2, 4} /\ byte \in 0 .. 3 /\ Touched \in Nat
  BY <1>1, AddressIs DEF Inv
<1>4. mem' \in [DOMAIN mem -> 0 .. Bytes(1) - 1]
  <2>1. CASE StoreAligned
    <3>1. WriteMem(addr0, Size, Rt)
      BY <2>1 DEF StoreAligned
    <3> QED BY <1>3, <3>1, WriteType DEF Inv
  <2>2. CASE StoreUnaligned
    <3>1. PICK a \in Nat : a = Touched /\ Accessible(a, 4)
      BY <1>3, <2>2 DEF StoreUnaligned
    <3>2. PICK v \in Words : v = ReadMem(a, 4)
      BY <3>1, ReadIs DEF Inv
    <3>3. \E w \in Words : WriteMem(a, 4, w)
      <4>1. /\ v - Lower(v, byte + 1) + Rt \div Bytes(3 - byte) \in Words
            /\ Lower(v, byte) + Word(Rt * Bytes(byte)) \in Words
        BY <1>3, StoredWord
      <4>2. WriteMem(a, 4, IF instr.opCode = "SWL" THEN v - Lower(v, byte + 1) + Rt \div Bytes(3 - byte)
                                                  ELSE Lower(v, byte) + Word(Rt * Bytes(byte)))
        BY <2>2, <3>1, <3>2 DEF StoreUnaligned
      <4> QED BY <4>1, <4>2
    <3>4. PICK w \in Words : WriteMem(a, 4, w)
      BY <3>3
    <3> QED BY <3>4, WriteType DEF Inv
  <2> QED BY <2>1, <2>2
<1> QED BY <1>1, <1>2, <1>4, RetireType

\* ... the system call that returns, ...
LEMMA AddType ==
  ASSUME Inv, Add
  PROVE  Inv'
<1>1. /\ loadReg \in Registers /\ loadValue \in Words /\ regs \in [Registers -> Words] /\ pc \in Int
  BY WordsAre DEF Inv, TypeOK
<1>2. AfterLoad \in [Registers -> Words] /\ AfterLoad[0] = 0
  BY <1>1, RegisterFacts DEF AfterLoad
<1>3. AfterLoad[4] \in Int /\ AfterLoad[5] \in Int
  BY <1>2, RegisterFacts, WordsAre
<1>4. PICK s \in Words : s = Word(AfterLoad[4] + AfterLoad[5])
  BY <1>3, WordIs
<1>5. regs' = [AfterLoad EXCEPT ![2] = s]
  BY <1>4 DEF Add
<1>6. regs' \in [Registers -> Words] /\ regs'[0] = 0
  BY <1>2, <1>5, RegisterFacts
<1>7. pc' \in Words /\ nextPC' \in Words
  BY <1>1, WordIs DEF Add
<1>8. loadReg' = 0 /\ loadValue' = 0 /\ UNCHANGED <<program, mem, hi, lo, status>>
  BY DEF Add
<1>9. WholeWords'
  BY <1>8 DEF Inv, WholeWords
<1> QED BY <1>6, <1>7, <1>8, <1>9, RegisterFacts DEF Inv, TypeOK

\* ... and an interrupt between two instructions.
LEMMA CheckType ==
  ASSUME Inv, CheckIfDue
  PROVE  Inv'
<1>1. regs' = [regs EXCEPT ![loadReg] = loadValue, ![0] = 0] /\ loadReg' = 0 /\ loadValue' = 0
      /\ UNCHANGED <<program, mem, hi, lo, pc, nextPC, status>>
  BY DEF CheckIfDue, DelayedLoad
<1>2. loadReg \in Registers /\ loadValue \in Words /\ 0 \in Registers /\ 0 \in Words /\ regs \in [Registers -> Words]
  BY RegisterFacts DEF Inv, TypeOK
<1>3. regs' \in [Registers -> Words] /\ regs'[0] = 0
  BY <1>1, <1>2
<1>4. WholeWords'
  BY <1>1 DEF Inv, WholeWords
<1> QED BY <1>1, <1>2, <1>3, <1>4 DEF Inv, TypeOK

\* The registers, counters and memory hold words and bytes, register 0 is 0, and the
\* data are whole words, whatever a program does.
THEOREM TypesKept == Spec => []Inv
<1>1. ASSUME Init PROVE Inv
  <2>1. regs \in [Registers -> Words] /\ regs[0] = 0
    BY <1>1, RegisterFacts DEF Init
  <2>2. PICK bytes \in DataSets :
          mem = [a \in DataAddress .. DataAddress + Len(bytes) - 1 |-> bytes[a - DataAddress + 1]]
    BY <1>1 DEF Init
  <2>3. bytes \in Seq(0 .. Bytes(1) - 1) /\ DataAddress \in Nat
    BY ProgramsAssumption
  <2>4. DOMAIN mem = DataAddress .. DataAddress + Len(bytes) - 1
    BY <2>2
  <2>5. \A a \in DOMAIN mem : mem[a] \in 0 .. Bytes(1) - 1
    <3> SUFFICES ASSUME NEW a \in DOMAIN mem PROVE mem[a] \in 0 .. Bytes(1) - 1
      OBVIOUS
    <3>1. PICK n \in Nat : n = Len(bytes)
      BY <2>3
    <3>2. PICK j \in 1 .. n : j = a - DataAddress + 1
      BY <2>3, <2>4, <3>1
    <3>3. bytes[j] \in 0 .. Bytes(1) - 1
      <4>1. \A S : \A s \in Seq(S) : \A k \in 1 .. Len(s) : s[k] \in S
        OBVIOUS
      <4> QED BY <2>3, <3>1, <3>2, <4>1
    <3> QED BY <2>2, <2>4, <3>2, <3>3
  <2>6. mem \in [DOMAIN mem -> 0 .. Bytes(1) - 1]
    BY <2>2, <2>5
  <2>7. 4 \in Words
    <3>1. PICK q \in Nat : q = Bytes(1) /\ q >= 4
      BY BytesAre
    <3>2. PICK q3 \in Nat \ {0} : q3 = Bytes(3) /\ Bytes(4) = q3 * q
      BY <3>1, BytesAre
    <3>3. q3 >= 2
      <4>1. q3 = q * Bytes(2) /\ Bytes(2) \in Nat \ {0}
        BY <3>1, <3>2, BytesAre
      <4>2. PICK b \in Nat \ {0} : b = Bytes(2)
        BY <4>1
      <4>3. 1 * q <= b * q /\ b * q = q * b
        BY <3>1, <4>2, TimesOrder, Times
      <4> QED BY <3>1, <4>1, <4>2, <4>3
    <3>4. 2 * q <= q3 * q /\ q3 * q \in Int
      BY <3>1, <3>2, <3>3, TimesOrder
    <3>5. 4 < Bytes(4)
      BY <3>1, <3>2, <3>4
    <3> QED BY <3>5, WordsAre, WordFacts
  <2> QED BY <1>1, <2>1, <2>4, <2>6, <2>7, RegisterFacts DEF Init, Inv, TypeOK, WholeWords
<1>2. ASSUME Inv, [Next]_vars PROVE Inv'
  <2>1. CASE Compute
    BY <1>2, <2>1, ComputeType
  <2>2. CASE OverflowException \/ IllegalInstruction \/ AddressError \/ FetchError \/ Halt
    <3>1. \E which \in {"halted", "overflow", "illegal instruction", "address error"} : RaiseException(which)
      BY <2>2 DEF OverflowException, IllegalInstruction, AddressError, FetchError, Halt
    <3> QED BY <1>2, <3>1, ExceptionType
  <2>3. CASE MoveToHiLo \/ Multiply \/ Divide
    BY <1>2, <2>3, RestType
  <2>4. CASE HostTrap
    BY <1>2, <2>4 DEF HostTrap, Inv, TypeOK, WholeWords
  <2>5. CASE Branch \/ Jump
    BY <1>2, <2>5, BranchType
  <2>6. CASE LoadAligned \/ LoadUnaligned
    BY <1>2, <2>6, LoadType
  <2>7. CASE StoreAligned \/ StoreUnaligned
    BY <1>2, <2>7, StoreType
  <2>8. CASE Add
    BY <1>2, <2>8, AddType
  <2>9. CASE CheckIfDue
    BY <1>2, <2>9, CheckType
  <2>10. CASE UNCHANGED vars
    BY <1>2, <2>10 DEF vars, Inv, TypeOK, WholeWords
  <2> QED BY <1>2, <2>1, <2>2, <2>3, <2>4, <2>5, <2>6, <2>7, <2>8, <2>9, <2>10 DEF Next, OneInstruction
<1> QED BY <1>1, <1>2, PTL DEF Spec

\* The registers, counters and memory of the simulated processor hold words and
\* bytes, and register 0 is 0.
THEOREM TypeCorrect == Spec => []TypeOK
BY TypesKept, PTL DEF Inv

-----------------------------------------------------------------------------
(* The refinement.  The instance of the architecture has its own copies of   *)
(* the definitions of MipsWords; they are the same.                          *)

\* What the architecture calls a word, a byte or a bit is what the simulator does.
LEMMA SameWords ==
  /\ \A n : Architecture!Bytes(n) = Bytes(n)
  /\ \A n : Architecture!Word(n) = Word(n)
  /\ \A w : Architecture!Signed(w) = Signed(w)
  /\ \A w, n : Architecture!SignedOf(w, n) = SignedOf(w, n)
  /\ \A w : Architecture!Negative(w) = Negative(w)
  /\ Architecture!Words = Words /\ Architecture!WordBits = WordBits
  /\ Architecture!Least = Least /\ Architecture!Greatest = Greatest
  /\ \A w : Architecture!Bits(w) = Bits(w)
  /\ \A S : Architecture!OfBits(S) = OfBits(S)
  /\ \A v, w : Architecture!And(v, w) = And(v, w)
  /\ \A v, w : Architecture!Or(v, w) = Or(v, w)
  /\ \A v, w : Architecture!Xor(v, w) = Xor(v, w)
  /\ \A w, k : Architecture!ByteOf(w, k) = ByteOf(w, k)
  /\ Architecture!SC_Halt = SC_Halt /\ Architecture!SC_Add = SC_Add
<1>1. Architecture!Power2 = Power2
  BY DEF Architecture!Power2, Power2
<1>2. \A n : Architecture!Bytes(n) = Bytes(n)
  BY <1>1 DEF Architecture!Bytes, Bytes
<1>3. Architecture!WordBits = WordBits
  BY DEF Architecture!WordBits, WordBits
<1>4. \A n : Architecture!Word(n) = Word(n)
  BY <1>2 DEF Architecture!Word, Word
<1>5. \A w, n : Architecture!SignedOf(w, n) = SignedOf(w, n)
  BY <1>2 DEF Architecture!SignedOf, SignedOf
<1>6. \A w : Architecture!Signed(w) = Signed(w)
  BY <1>5 DEF Architecture!Signed, Signed
<1>7. \A w : Architecture!Negative(w) = Negative(w)
  BY <1>6 DEF Architecture!Negative, Negative
<1>8. Architecture!Words = Words
  BY <1>2 DEF Architecture!Words, Words
<1>9. Architecture!Least = Least /\ Architecture!Greatest = Greatest
  BY <1>2 DEF Architecture!Least, Architecture!Greatest, Least, Greatest
<1>10. \A w : Architecture!Bits(w) = Bits(w)
  BY <1>1, <1>3 DEF Architecture!Bits, Bits
<1>11. \A S : Architecture!OfBits(S) = OfBits(S)
  BY <1>1, <1>3 DEF Architecture!OfBits, OfBits
<1>12. \A v, w : /\ Architecture!And(v, w) = And(v, w) /\ Architecture!Or(v, w) = Or(v, w)
                 /\ Architecture!Xor(v, w) = Xor(v, w)
  BY <1>10, <1>11 DEF Architecture!And, And, Architecture!Or, Or, Architecture!Xor, Xor
<1>13. \A w, k : Architecture!ByteOf(w, k) = ByteOf(w, k)
  BY <1>2 DEF Architecture!ByteOf, ByteOf
<1>14. Architecture!SC_Halt = SC_Halt /\ Architecture!SC_Add = SC_Add
  BY DEF Architecture!SC_Halt, SC_Halt, Architecture!SC_Add, SC_Add
<1> QED BY <1>2, <1>3, <1>4, <1>5, <1>6, <1>7, <1>8, <1>9, <1>10, <1>11, <1>12, <1>13, <1>14

\* The registers with the load that is pending counted as done: those that it is not
\* for hold what they held.
LEMMA AfterLoadIs ==
  ASSUME Inv
  PROVE  /\ AfterLoad \in [Registers -> Words] /\ AfterLoad[0] = 0
         /\ \A r \in Registers : loadReg = 0 \/ loadReg # r => AfterLoad[r] = regs[r]
         /\ loadReg # 0 => AfterLoad[loadReg] = loadValue
<1>1. /\ loadReg \in Registers /\ loadValue \in Words /\ 0 \in Registers /\ 0 \in Words
      /\ regs \in [Registers -> Words] /\ regs[0] = 0
  BY RegisterFacts DEF Inv, TypeOK
<1> QED BY <1>1 DEF AfterLoad

\* What Retire and RaiseException do to them: a pending load changes nothing when
\* it is done, ...
LEMMA PendingDone ==
  ASSUME Inv, DelayedLoad(regs, 0, 0)
  PROVE  AfterLoad' = AfterLoad
<1>1. regs' = [regs EXCEPT ![loadReg] = loadValue, ![0] = 0] /\ loadReg' = 0 /\ loadValue' = 0
  BY DEF DelayedLoad
<1>2. regs' = AfterLoad
  BY <1>1 DEF AfterLoad
<1>3. AfterLoad \in [Registers -> Words] /\ AfterLoad[0] = 0 /\ 0 \in Registers
  BY AfterLoadIs, RegisterFacts
<1>4. AfterLoad' = [regs' EXCEPT ![loadReg'] = loadValue', ![0] = 0]
  BY DEF AfterLoad
<1>5. AfterLoad' = [regs' EXCEPT ![0] = 0, ![0] = 0]
  BY <1>1, <1>4
<1>6. PICK f \in [Registers -> Words] : f = AfterLoad /\ f[0] = 0
  BY <1>3
<1>7. [f EXCEPT ![0] = 0, ![0] = 0] = f
  BY <1>3, <1>6
<1> QED BY <1>2, <1>5, <1>6, <1>7

\* ... a register that is written is written ...
LEMMA WrittenIs ==
  ASSUME Inv, NEW r \in Registers, NEW v \in Words, loadReg = 0 \/ loadReg # r,
         DelayedLoad([regs EXCEPT ![r] = v], 0, 0)
  PROVE  Architecture!Put(r, v)
<1>1. /\ loadReg \in Registers /\ loadValue \in Words /\ 0 \in Registers /\ 0 \in Words
      /\ regs \in [Registers -> Words] /\ regs[0] = 0
  BY RegisterFacts DEF Inv, TypeOK
<1>2. /\ regs' = [[regs EXCEPT ![r] = v] EXCEPT ![loadReg] = loadValue, ![0] = 0]
      /\ loadReg' = 0 /\ loadValue' = 0
  BY DEF DelayedLoad
<1>3. AfterLoad' = [regs' EXCEPT ![0] = 0, ![0] = 0]
  <2>1. AfterLoad' = [regs' EXCEPT ![loadReg'] = loadValue', ![0] = 0]
    BY DEF AfterLoad
  <2> QED BY <1>2, <2>1
<1>4. PICK f : f = [[regs EXCEPT ![r] = v] EXCEPT ![loadReg] = loadValue, ![0] = 0]
  OBVIOUS
<1>5. f \in [Registers -> Words] /\ f[0] = 0
  BY <1>1, <1>4
<1>6. [f EXCEPT ![0] = 0, ![0] = 0] = f
  BY <1>1, <1>5
<1>7. AfterLoad \in [Registers -> Words]
  BY AfterLoadIs
<1>8. \A q \in Registers : f[q] = [AfterLoad EXCEPT ![r] = IF r = 0 THEN 0 ELSE v][q]
  BY <1>1, <1>4, <1>7 DEF AfterLoad
<1>9. f = [AfterLoad EXCEPT ![r] = IF r = 0 THEN 0 ELSE v]
  BY <1>5, <1>7, <1>8
<1> QED BY <1>2, <1>3, <1>4, <1>6, <1>9 DEF Architecture!Put

\* ... and so is one that is loaded, at once.
LEMMA LoadedIs ==
  ASSUME Inv, NEW r \in Registers, NEW v \in Words, DelayedLoad(regs, r, v)
  PROVE  Architecture!Put(r, v)
<1>1. regs' = AfterLoad /\ loadReg' = r /\ loadValue' = v
  BY DEF DelayedLoad, AfterLoad
<1>2. AfterLoad' = [regs' EXCEPT ![loadReg'] = loadValue', ![0] = 0]
  BY DEF AfterLoad
<1>3. PICK f \in [Registers -> Words] : f = AfterLoad /\ f[0] = 0
  BY AfterLoadIs
<1>4. [f EXCEPT ![r] = v, ![0] = 0] = [f EXCEPT ![r] = IF r = 0 THEN 0 ELSE v]
  BY <1>3, RegisterFacts
<1> QED BY <1>1, <1>2, <1>3, <1>4 DEF Architecture!Put

\* The registers of a disciplined instruction hold what the architecture sees.
LEMMA UsedIs ==
  ASSUME Inv, Fetches, Obeys(current)
  PROVE  /\ current.op \notin {"SYSCALL", "BREAK"} => AfterLoad[current.rs] = regs[current.rs]
         /\ current.op \notin {"SYSCALL", "BREAK"} \cup ((Aligned \cup Unaligned) \ Stores) =>
              /\ AfterLoad[current.rt] = regs[current.rt] /\ AfterLoad[current.rd] = regs[current.rd]
              /\ loadReg = 0 \/ (loadReg # current.rt /\ loadReg # current.rd)
              /\ current.op \in Linking \ {"JALR"} => loadReg = 0 \/ loadReg # 31
<1>1. /\ current.rs \in Registers /\ current.rt \in Registers /\ current.rd \in Registers
      /\ \A r \in Registers : loadReg = 0 \/ loadReg # r => AfterLoad[r] = regs[r]
  BY InstructionIs, AfterLoadIs DEF Inv
<1>2. loadReg = 0 \/ loadReg \notin Uses(current)
  BY DEF Obeys
<1>3. current.op \notin {"SYSCALL", "BREAK"} => current.rs \in Uses(current)
  BY DEF Uses
<1>4. current.op \notin {"SYSCALL", "BREAK"} \cup ((Aligned \cup Unaligned) \ Stores) =>
        /\ current.rt \in Uses(current) /\ current.rd \in Uses(current)
        /\ current.op \in Linking \ {"JALR"} => 31 \in Uses(current)
  BY DEF Uses
<1> QED BY <1>1, <1>2, <1>3, <1>4

\* What is fetched, and whether something is.
LEMMA FetchedIs ==
  /\ Architecture!Running <=> Fetches
  /\ Architecture!Fetched = current
BY DEF Architecture!Running, Fetches, Running, Architecture!Fetched, current

\* An immediate is far from the ends of the integers: the word that it is extended
\* to stands for it.
LEMMA ImmediateSigned ==
  ASSUME NEW m \in Int, -(Bytes(2) \div 2) <= m, m <= Bytes(2) \div 2 - 1
  PROVE  Signed(Word(m)) = m
<1>1. PICK q \in Nat \ {0} : q = Bytes(2) /\ Bytes(4) = q * q
  BY BytesAre
<1>2. PICK h \in Nat : h = q \div 2 /\ 2 * h <= q /\ q <= 2 * h + 1
  <2>1. q \div 2 \in Nat /\ 2 * (q \div 2) <= q /\ q <= 2 * (q \div 2) + 1
    OBVIOUS
  <2> QED BY <2>1
<1>3. PICK s \in Nat \ {0}, P \in Nat \ {0} : s = SIGN_BIT /\ P = Bytes(4) /\ P = 2 * s
  BY TopBit, NoBits
<1>4. q <= P
  <2>1. 1 <= q /\ 1 * q = q
    OBVIOUS
  <2>2. 1 * q <= q * q
    BY <2>1, TimesOrder
  <2> QED BY <1>1, <1>3, <2>1, <2>2
<1>5. h <= s
  BY <1>2, <1>3, <1>4
<1>6. Least = -s /\ Greatest = s - 1
  BY <1>3 DEF Least, Greatest, SIGN_BIT
<1>7. -h <= m /\ m <= h - 1
  BY <1>1, <1>2
<1>8. -Bytes(4) <= m /\ m < Bytes(4) /\ ~(m > Greatest) /\ ~(m < Least)
  BY <1>3, <1>5, <1>6, <1>7
<1> QED BY <1>8, Wrapped

\* The immediates of the operations that read them as integers.
LEMMA ImmediateIs ==
  ASSUME TypeOK, Fetches,
         current.op \in (IntoRt \ Logical) \cup Aligned \cup Unaligned \cup Conditional
  PROVE  /\ current.imm \in Int /\ instr.extra = Word(current.imm) /\ Signed(instr.extra) = current.imm
         /\ instr.extra \in Words
<1>1. IsInstruction(current) /\ current.imm \in Int /\ instr.extra = Word(current.imm) /\ instr.extra \in Words
  BY InstructionIs, ExtraIs
<1>2. current.op \notin Logical \cup {"J", "JAL"} \cup ShiftAmounts
  BY DEF IntoRt, Aligned, Unaligned, Conditional, Logical, ShiftAmounts
<1>3. current.imm \in -(Bytes(2) \div 2) .. Bytes(2) \div 2 - 1
  BY <1>1, <1>2 DEF IsInstruction, Immediates, Logical, ShiftAmounts
<1>4. PICK q \in Nat : q = Bytes(2)
  BY BytesAre
<1>5. -(Bytes(2) \div 2) <= current.imm /\ current.imm <= Bytes(2) \div 2 - 1
  BY <1>1, <1>3, <1>4
<1>6. PICK m \in Int : m = current.imm
  BY <1>1
<1>7. Signed(Word(m)) = m
  BY <1>5, <1>6, ImmediateSigned
<1> QED BY <1>1, <1>6, <1>7

\* An operation that overflows is one whose result does not fit.
LEMMA OverflowsIs ==
  ASSUME Inv, Fetches, Obeys(current)
  PROVE  /\ current.op \in {"ADD", "ADDI", "SUB"} => (Overflow <=> Architecture!Overflows)
         /\ current.op \notin {"ADD", "ADDI", "SUB"} => ~Overflow /\ ~Architecture!Overflows
<1>1. /\ Rs \in Words /\ Rs = regs[current.rs] /\ (current.op # "BREAK" => instr.opCode = current.op)
      /\ (current.op = "BREAK" => instr.opCode = "UNIMP")
      /\ (current.op \in {"ADD", "SUB"} => Rt = regs[current.rt] /\ Rt \in Words)
  BY InstructionIs, Groups DEF Inv, Decoded, IntoRd
<1>2. Architecture!Fetched = current
  BY FetchedIs
<1>3. \A n \in Int : Architecture!Fits(n) <=> Least <= n /\ n <= Greatest
  <2>1. PICK s \in Nat : s = SIGN_BIT
    BY TopBit, NoBits
  <2>2. Least = -s /\ Greatest = s - 1
    BY <2>1 DEF Least, Greatest, SIGN_BIT
  <2> QED BY <2>1, <2>2, SameWords DEF Architecture!Fits
<1>4. CASE current.op \in {"ADD", "SUB"}
  <2>1. AfterLoad[current.rs] = Rs /\ AfterLoad[current.rt] = Rt
    BY <1>1, <1>4, UsedIs DEF Aligned, Unaligned
  <2>2. PICK r \in Words, t \in Words : r = Rs /\ t = Rt
    BY <1>1, <1>4
  <2>3. PICK a \in Int, b \in Int : a = Signed(r) /\ b = Signed(t)
    BY SignedInt
  <2>4. a + b \in Int /\ a - b \in Int /\ Least \in Int /\ Greatest \in Int
    BY BytesAre DEF Least, Greatest
  <2>5. CASE current.op = "ADD"
    <3>1. Overflow <=> SameSign(r, t) /\ ~SameSign(r, Word(r + t))
      BY <1>1, <2>2, <2>5 DEF Overflow, Result
    <3>2. Overflow <=> a + b < Least \/ a + b > Greatest
      BY <2>3, <3>1, OverflowIs
    <3>3. Architecture!Sum = a + b
      BY <1>2, <2>1, <2>2, <2>3, <2>5, SameWords DEF Architecture!Sum
    <3>4. Architecture!Overflows <=> ~Architecture!Fits(a + b)
      BY <1>2, <2>5, <3>3 DEF Architecture!Overflows
    <3>5. Overflow <=> Architecture!Overflows
      BY <1>3, <2>4, <3>2, <3>4
    <3> QED BY <2>5, <3>5
  <2>6. CASE current.op = "SUB"
    <3>1. Overflow <=> ~SameSign(r, t) /\ ~SameSign(r, Word(r - t))
      BY <1>1, <2>2, <2>6 DEF Overflow, Result
    <3>2. Overflow <=> a - b < Least \/ a - b > Greatest
      BY <2>3, <3>1, OverflowIs
    <3>3. Architecture!Difference = a - b
      BY <1>2, <2>1, <2>2, <2>3, SameWords DEF Architecture!Difference
    <3>4. Architecture!Overflows <=> ~Architecture!Fits(a - b)
      BY <1>2, <2>6, <3>3 DEF Architecture!Overflows
    <3>5. Overflow <=> Architecture!Overflows
      BY <1>3, <2>4, <3>2, <3>4
    <3> QED BY <2>6, <3>5
  <2> QED BY <1>4, <2>5, <2>6
<1>5. CASE current.op = "ADDI"
  <2>1. AfterLoad[current.rs] = Rs
    BY <1>1, <1>5, UsedIs
  <2>2. current.imm \in Int /\ Signed(instr.extra) = current.imm /\ instr.extra \in Words
    BY <1>5, ImmediateIs DEF Inv, IntoRt, Logical
  <2>3. PICK r \in Words, e \in Words : r = Rs /\ e = instr.extra
    BY <1>1, <2>2
  <2>4. PICK a \in Int, b \in Int : a = Signed(r) /\ b = Signed(e) /\ b = current.imm
    BY <2>2, <2>3, SignedInt
  <2>5. a + b \in Int /\ Least \in Int /\ Greatest \in Int
    BY BytesAre DEF Least, Greatest
  <2>6. Overflow <=> SameSign(r, e) /\ ~SameSign(e, Word(r + e))
    BY <1>1, <1>5, <2>3 DEF Overflow, Result
  <2>7. Overflow <=> a + b < Least \/ a + b > Greatest
    BY <2>4, <2>6, OverflowIs
  <2>8. Architecture!Sum = a + b
    BY <1>2, <1>5, <2>1, <2>3, <2>4, SameWords DEF Architecture!Sum
  <2>9. Architecture!Overflows <=> ~Architecture!Fits(a + b)
    BY <1>2, <1>5, <2>8 DEF Architecture!Overflows
  <2>10. Overflow <=> Architecture!Overflows
    BY <1>3, <2>5, <2>7, <2>9
  <2> QED BY <1>5, <2>10
<1>6. CASE current.op \notin {"ADD", "ADDI", "SUB"}
  BY <1>1, <1>2, <1>6 DEF Overflow, Architecture!Overflows
<1> QED BY <1>4, <1>5, <1>6

\* What an operation on registers computes is what the architecture says.
LEMMA ValueIs ==
  ASSUME Inv, Fetches, Obeys(current), instr.opCode \in IntoRt \cup IntoRd
  PROVE  Architecture!Value = Result
<1> DEFINE o == current.op
<1>1. /\ o = instr.opCode /\ Rs \in Words /\ Rt \in Words /\ Rs = regs[current.rs] /\ Rt = regs[current.rt]
      /\ o \notin {"SYSCALL", "BREAK"} \cup ((Aligned \cup Unaligned) \ Stores)
  BY InstructionIs, Groups DEF Inv, Aligned, Unaligned, IntoRt, IntoRd
<1>2. AfterLoad[current.rs] = Rs /\ AfterLoad[current.rt] = Rt
  BY <1>1, UsedIs
<1>3. PICK r \in Words, t \in Words : r = Rs /\ t = Rt
  BY <1>1
<1>4. PICK e, m : e = instr.extra /\ m = current.imm
  OBVIOUS
<1>6. /\ Architecture!Fetched = current /\ AfterLoad[current.rs] = r /\ AfterLoad[current.rt] = t
      /\ current.imm = m
  BY <1>2, <1>3, <1>4, FetchedIs
<1>7. r \in Int /\ t \in Int /\ Signed(r) \in Int /\ Signed(t) \in Int
  BY WordsAre, SignedInt
<1>8. Architecture!BitNumbers = 0 .. WordBits - 1
  BY SameWords DEF Architecture!BitNumbers
<1> HIDE DEF o
<1>9. CASE o \in {"ADD", "ADDU"}
  <2>1. Word(r + t) = Word(Signed(r) + Signed(t))
    BY OverflowIs
  <2>2. Architecture!Sum = Signed(r) + Signed(t)
    BY <1>6, <1>9, SameWords DEF Architecture!Sum, o
  <2>3. Architecture!Value = Word(Signed(r) + Signed(t))
    BY <1>6, <1>9, <2>2, SameWords DEF Architecture!Value, o
  <2>4. Result = Word(r + t)
    BY <1>1, <1>3, <1>9 DEF Result
  <2> QED BY <2>1, <2>3, <2>4
<1>10. CASE o \in {"SUB", "SUBU"}
  <2>1. Word(r - t) = Word(Signed(r) - Signed(t))
    BY OverflowIs
  <2>2. Architecture!Difference = Signed(r) - Signed(t)
    BY <1>6, <1>10, SameWords DEF Architecture!Difference
  <2>3. Architecture!Value = Word(Signed(r) - Signed(t))
    BY <1>6, <1>10, <2>2, SameWords DEF Architecture!Value, o
  <2>4. Result = Word(r - t)
    BY <1>1, <1>3, <1>10 DEF Result
  <2> QED BY <2>1, <2>3, <2>4
<1>11. CASE o \in {"ADDI", "ADDIU", "SLTI", "SLTIU"}
  <2>1. m \in Int /\ e = Word(m) /\ Signed(e) = m /\ e \in Words
    BY <1>4, <1>11, ImmediateIs DEF Inv, o, IntoRt, Logical
  <2>2. e \in Int /\ Word(r + Word(m)) = Word(r + m)
    BY <1>7, <2>1, WordsAre, WordAdds
  <2>3. CASE o = "ADDI"
    <3>1. Word(r + e) = Word(Signed(r) + Signed(e))
      BY <2>1, OverflowIs
    <3>2. Architecture!Sum = Signed(r) + m
      BY <1>6, <2>3, SameWords DEF Architecture!Sum, o
    <3>3. Architecture!Value = Word(Signed(r) + m)
      BY <1>6, <2>3, <3>2, SameWords DEF Architecture!Value, o
    <3>4. Result = Word(r + e)
      BY <1>1, <1>3, <1>4, <2>3 DEF Result
    <3> QED BY <2>1, <3>1, <3>3, <3>4
  <2>4. CASE o = "ADDIU"
    <3>1. Architecture!Value = Word(r + m)
      BY <1>6, <2>4, SameWords DEF Architecture!Value, o
    <3>2. Result = Word(r + e)
      BY <1>1, <1>3, <1>4, <2>4 DEF Result
    <3> QED BY <2>1, <2>2, <3>1, <3>2
  <2>5. CASE o = "SLTI"
    <3>1. Architecture!Value = IF Signed(r) < m THEN 1 ELSE 0
      BY <1>6, <2>5, SameWords DEF Architecture!Value, Architecture!Truth, o
    <3>2. Result = IF Signed(r) < Signed(e) THEN 1 ELSE 0
      BY <1>1, <1>3, <1>4, <2>5 DEF Result
    <3> QED BY <2>1, <3>1, <3>2
  <2>6. CASE o = "SLTIU"
    <3>1. Architecture!Value = IF r < Word(m) THEN 1 ELSE 0
      BY <1>6, <2>6, SameWords DEF Architecture!Value, Architecture!Truth, o
    <3>2. Result = IF r < e THEN 1 ELSE 0
      BY <1>1, <1>3, <1>4, <2>6 DEF Result
    <3> QED BY <2>1, <3>1, <3>2
  <2> QED BY <1>11, <2>3, <2>4, <2>5, <2>6
<1>12. CASE o \in {"AND", "OR", "XOR", "NOR"}
  <2>1. Bytes(4) - 1 - Or(r, t) = OfBits((0 .. WordBits - 1) \ (Bits(r) \cup Bits(t)))
    BY Combined, ComplementIs
  <2>2. CASE o = "NOR"
    <3>1. Architecture!Value = OfBits((0 .. WordBits - 1) \ (Bits(r) \cup Bits(t)))
      BY <1>6, <1>8, <2>2, SameWords DEF Architecture!Value, o
    <3>2. Result = Bytes(4) - 1 - Or(r, t)
      BY <1>1, <1>3, <2>2 DEF Result
    <3> QED BY <2>1, <3>1, <3>2
  <2>3. CASE o # "NOR"
    <3>1. Architecture!Value = CASE o = "AND" -> And(r, t) [] o = "OR" -> Or(r, t) [] o = "XOR" -> Xor(r, t)
      BY <1>6, <1>12, <2>3, SameWords DEF Architecture!Value, o
    <3>2. Result = CASE o = "AND" -> And(r, t) [] o = "OR" -> Or(r, t) [] o = "XOR" -> Xor(r, t)
      BY <1>1, <1>3, <1>12, <2>3 DEF Result
    <3> QED BY <3>1, <3>2
  <2> QED BY <2>2, <2>3
<1>13. CASE o \in Logical
  <2>1. e = Word(SignedOf(m % Bytes(2), 2)) /\ m \in 0 .. Bytes(2) - 1
    <3>1. IsInstruction(current)
      BY InstructionIs DEF Inv
    <3> QED BY <1>4, <1>13, <3>1, DecodedExtra DEF instr, o
  <2>2. Low16(e) = m /\ Word(e * Bytes(2)) = m * Bytes(2)
    BY <2>1, HalfLogical
  <2>3. CASE o = "LUI"
    <3>1. Architecture!Value = m * Bytes(2)
      BY <1>6, <2>3, SameWords DEF Architecture!Value, o
    <3>2. Result = Word(e * Bytes(2))
      BY <1>1, <1>4, <2>3 DEF Result
    <3> QED BY <2>2, <3>1, <3>2
  <2>4. CASE o # "LUI"
    <3>1. Architecture!Value = CASE o = "ANDI" -> And(r, m) [] o = "ORI" -> Or(r, m) [] o = "XORI" -> Xor(r, m)
      BY <1>6, <1>13, <2>4, SameWords DEF Architecture!Value, o, Logical
    <3>2. Result = CASE o = "ANDI" -> And(r, Low16(e)) [] o = "ORI" -> Or(r, Low16(e))
                     [] o = "XORI" -> Xor(r, Low16(e))
      BY <1>1, <1>3, <1>4, <1>13, <2>4 DEF Result, Logical
    <3> QED BY <2>2, <3>1, <3>2
  <2> QED BY <2>3, <2>4
<1>14. CASE o \in {"SLT", "SLTU"}
  <2>1. Architecture!Value = CASE o = "SLT" -> IF Signed(r) < Signed(t) THEN 1 ELSE 0
                               [] o = "SLTU" -> IF r < t THEN 1 ELSE 0
    BY <1>6, <1>14, SameWords DEF Architecture!Value, Architecture!Truth, o
  <2>2. Result = CASE o = "SLT" -> IF Signed(r) < Signed(t) THEN 1 ELSE 0
                   [] o = "SLTU" -> IF r < t THEN 1 ELSE 0
    BY <1>1, <1>3, <1>14 DEF Result
  <2> QED BY <2>1, <2>2
<1>15. CASE o \in {"SLL", "SLLV"}
  <2>1. \A n \in Nat : Architecture!ShiftLeft(t, n) = Word(t * Power2[n])
    BY <1>8, LeftIs, SameWords DEF Architecture!ShiftLeft
  <2>2. CASE o = "SLL"
    <3>1. e = m /\ m \in Nat
      BY <1>4, <2>2, ExtraIs, WordFacts DEF Inv, o, ShiftAmounts
    <3>2. Architecture!Value = Architecture!ShiftLeft(t, m)
      BY <1>6, <2>2 DEF Architecture!Value, o
    <3>3. Result = Word(t * Power2[e])
      BY <1>1, <1>3, <1>4, <2>2 DEF Result
    <3> QED BY <2>1, <3>1, <3>2, <3>3
  <2>3. CASE o = "SLLV"
    <3>1. And(r, ShiftMask) = r % WordBits /\ r % WordBits \in Nat
      BY ShiftMaskIs, WordFacts
    <3>2. Architecture!Value = Architecture!ShiftLeft(t, r % WordBits)
      BY <1>6, <2>3, SameWords DEF Architecture!Value, Architecture!Shift, o
    <3>3. Result = Word(t * Power2[And(r, ShiftMask)])
      BY <1>1, <1>3, <2>3 DEF Result
    <3> QED BY <2>1, <3>1, <3>2, <3>3
  <2> QED BY <1>15, <2>2, <2>3
<1>16. CASE o \in {"SRL", "SRA", "SRLV", "SRAV"}
  <2>1. \A n \in Nat : Architecture!ShiftRight(t, n, Negative(t)) = Shifted(t, n)
    BY <1>8, RightIs, SameWords DEF Architecture!ShiftRight
  <2>2. Negative(t) \in BOOLEAN
    BY DEF Negative
  <2>3. o \in {"SRL", "SRLV"} => Negative(t) = FALSE
    BY <1>1, <1>3, <2>2 DEF Obeys, o
  <2>4. CASE o \in {"SRL", "SRA"}
    <3>1. e = m /\ m \in Nat
      BY <1>4, <2>4, ExtraIs, WordFacts DEF Inv, o, ShiftAmounts
    <3>2. Architecture!Value = Architecture!ShiftRight(t, m, Negative(t))
      BY <1>6, <2>3, <2>4, SameWords DEF Architecture!Value, o
    <3>3. Result = Shifted(t, e)
      BY <1>1, <1>3, <1>4, <2>4 DEF Result
    <3> QED BY <2>1, <3>1, <3>2, <3>3
  <2>5. CASE o \in {"SRLV", "SRAV"}
    <3>1. And(r, ShiftMask) = r % WordBits /\ r % WordBits \in Nat
      BY ShiftMaskIs, WordFacts
    <3>2. Architecture!Value = Architecture!ShiftRight(t, r % WordBits, Negative(t))
      BY <1>6, <2>3, <2>5, SameWords DEF Architecture!Value, Architecture!Shift, o
    <3>3. Result = Shifted(t, And(r, ShiftMask))
      BY <1>1, <1>3, <2>5 DEF Result
    <3> QED BY <2>1, <3>1, <3>2, <3>3
  <2> QED BY <1>16, <2>4, <2>5
<1>17. CASE o \in {"MFHI", "MFLO"}
  <2>1. Architecture!Value = CASE o = "MFHI" -> hi [] o = "MFLO" -> lo
    BY <1>6, <1>17 DEF Architecture!Value, o
  <2>2. Result = CASE o = "MFHI" -> hi [] o = "MFLO" -> lo
    BY <1>1, <1>17 DEF Result
  <2> QED BY <2>1, <2>2
<1>18. o \in {"ADD", "ADDU"} \cup {"SUB", "SUBU"} \cup {"ADDI", "ADDIU", "SLTI", "SLTIU"}
             \cup {"AND", "OR", "XOR", "NOR"} \cup Logical \cup {"SLT", "SLTU"} \cup {"SLL", "SLLV"}
             \cup {"SRL", "SRA", "SRLV", "SRAV"} \cup {"MFHI", "MFLO"}
  BY <1>1 DEF IntoRt, IntoRd, Logical
<1> QED BY <1>9, <1>10, <1>11, <1>12, <1>13, <1>14, <1>15, <1>16, <1>17, <1>18

\* The address of an access is the one of the architecture.
LEMMA AccessIs ==
  ASSUME Inv, Fetches, Obeys(current), instr.opCode \in Aligned \cup Unaligned
  PROVE  Architecture!Address = addr0 /\ addr0 \in Nat /\ current.op = instr.opCode
<1>1. /\ current.op = instr.opCode /\ addr0 = Word(regs[current.rs] + current.imm) /\ addr0 \in Nat
  BY AddressIs DEF Inv
<1>2. AfterLoad[current.rs] = regs[current.rs]
  BY <1>1, UsedIs DEF Aligned, Unaligned
<1> QED BY <1>1, <1>2, FetchedIs, SameWords DEF Architecture!Address

-----------------------------------------------------------------------------
(* Each action is one of the architecture, or none.                        *)

\* The counters move on as the architecture has them do.
LEMMA AdvanceIs ==
  ASSUME NEW f, NEW n, NEW v, Retire(f, n, v, pcAfter0)
  PROVE  Architecture!Advance /\ DelayedLoad(f, n, v)
BY SameWords DEF Retire, Architecture!Advance, pcAfter0

\* Operations on registers.
LEMMA ComputeIs ==
  ASSUME Inv, Obeys(current), Compute
  PROVE  Architecture!Compute
<1>1. Fetches /\ instr.opCode \in IntoRt \cup IntoRd /\ ~Overflow /\ UNCHANGED <<mem, hi, lo>>
  BY DEF Compute
<1>2. /\ current.op = instr.opCode /\ instr.rt = current.rt /\ instr.rd = current.rd
      /\ current.rt \in Registers /\ current.rd \in Registers
      /\ current.op \notin {"SYSCALL", "BREAK"} \cup ((Aligned \cup Unaligned) \ Stores)
  BY <1>1, InstructionIs, Groups DEF Inv, Aligned, Unaligned, IntoRt, IntoRd
<1>3. Architecture!Running /\ Architecture!Fetched = current /\ ~Architecture!Overflows
  <2>1. current.op \in {"ADD", "ADDI", "SUB"} \/ current.op \notin {"ADD", "ADDI", "SUB"}
    OBVIOUS
  <2> QED BY <1>1, <2>1, FetchedIs, OverflowsIs
<1>4. /\ current.op \in Architecture!Computing
      /\ current.op \in Architecture!Immediate <=> instr.opCode \in IntoRt
  BY <1>1, <1>2 DEF Architecture!Computing, Architecture!Immediate, IntoRt, IntoRd
<1> DEFINE r == IF instr.opCode \in IntoRt THEN current.rt ELSE current.rd
<1>5. r \in Registers /\ (loadReg = 0 \/ loadReg # r)
  BY <1>1, <1>2, UsedIs
<1>6. Retire([regs EXCEPT ![r] = Result], 0, 0, pcAfter0)
  BY <1>2 DEF Compute, RetireWith
<1>7. r = IF current.op \in Architecture!Immediate THEN current.rt ELSE current.rd
  BY <1>4
<1> HIDE DEF r
<1>8. Architecture!Advance /\ DelayedLoad([regs EXCEPT ![r] = Result], 0, 0)
  BY <1>6, AdvanceIs
<1>9. PICK v \in Words : v = Result /\ v = Architecture!Value
  BY <1>1, ResultWord, ValueIs DEF Inv
<1>10. Architecture!Put(r, v)
  BY <1>5, <1>8, <1>9, WrittenIs
<1> QED BY <1>1, <1>3, <1>4, <1>7, <1>8, <1>9, <1>10 DEF Architecture!Compute

\* The exceptions.
LEMMA ExceptionIs ==
  ASSUME Inv, Fetches => Obeys(current),
         OverflowException \/ IllegalInstruction \/ AddressError \/ FetchError \/ HostTrap
  PROVE  Architecture!Fault
<1>1. /\ AfterLoad' = AfterLoad /\ UNCHANGED <<program, hi, lo, pc, nextPC, mem>>
  <2>1. CASE HostTrap
    BY <2>1 DEF HostTrap, AfterLoad
  <2>2. CASE OverflowException \/ IllegalInstruction \/ AddressError \/ FetchError
    <3>1. PICK which : RaiseException(which)
      BY <2>2 DEF OverflowException, IllegalInstruction, AddressError, FetchError
    <3> QED BY <3>1, PendingDone DEF RaiseException
  <2> QED BY <2>1, <2>2
<1>2. CASE OverflowException
  <2>1. /\ Fetches /\ instr.opCode \in {"ADD", "ADDI", "SUB"} /\ Overflow /\ status' = "overflow"
    BY <1>2 DEF OverflowException, RaiseException
  <2>2. current.op = instr.opCode
    BY <2>1, InstructionIs DEF Inv
  <2>3. Architecture!Running /\ Architecture!Overflows
    BY <2>1, <2>2, FetchedIs, OverflowsIs
  <2> QED BY <1>1, <2>1, <2>3 DEF Architecture!Fault
<1>3. CASE IllegalInstruction
  <2>1. Fetches /\ instr.opCode \in {"RES", "UNIMP"} /\ status' = "illegal instruction"
    BY <1>3 DEF IllegalInstruction, RaiseException
  <2>2. current.op = "BREAK"
    BY <2>1, InstructionIs DEF Inv
  <2> QED BY <1>1, <2>1, <2>2, FetchedIs DEF Architecture!Fault
<1>4. CASE FetchError
  <2>1. Running /\ Faults(pc, 4) /\ status' = "address error"
    BY <1>4 DEF FetchError, RaiseException
  <2>2. status = "running" /\ (pc % 4 # 0 \/ Architecture!Past(pc))
    BY <2>1 DEF Running, Faults, Past, Architecture!Past, Architecture!Data
  <2> QED BY <1>1, <2>1, <2>2 DEF Architecture!Fault
<1>5. CASE AddressError
  <2>1. Fetches /\ instr.opCode \in Aligned \cup Unaligned /\ Faults(Touched, Size) /\ status' = "address error"
    BY <1>5 DEF AddressError, RaiseException
  <2>2. Architecture!Address = addr0 /\ addr0 \in Nat /\ current.op = instr.opCode
    BY <2>1, AccessIs
  <2>3. addr0 % Architecture!Width # 0 \/ Architecture!Past(addr0)
    <3>1. \A a : Architecture!Past(a) <=> Past(a)
      BY DEF Past, Architecture!Past, Architecture!Data
    <3>2. CASE instr.opCode \in Aligned
      <4>1. Touched = addr0 /\ Size = Architecture!Width
        BY <2>1, <2>2, <3>2, AddressIs, FetchedIs DEF Inv, Aligned, Unaligned, Size, Architecture!Width
      <4> QED BY <2>1, <3>1, <4>1 DEF Faults
    <3>3. CASE instr.opCode \in Unaligned
      <4>1. PICK a \in Nat : a = addr0
        BY <2>2
      <4>2. Touched = a - (a % 4) /\ Size = 4
        BY <2>1, <3>3, <4>1, AddressIs DEF Inv, Unaligned, Size
      <4>3. (a - (a % 4)) % 4 = 0 /\ (Past(a) <=> Past(a - (a % 4)))
        BY WordIn DEF Inv
      <4> QED BY <2>1, <3>1, <4>1, <4>2, <4>3 DEF Faults
    <3> QED BY <2>1, <3>2, <3>3
  <2>4. current.op \in Architecture!Loads \cup Architecture!Stores
    BY <2>1, <2>2 DEF Aligned, Unaligned, Architecture!Loads, Architecture!Stores
  <2> QED BY <1>1, <2>1, <2>2, <2>3, <2>4, FetchedIs DEF Architecture!Fault
<1>6. CASE HostTrap
  <2>1. Fetches /\ instr.opCode = "DIV" /\ Signed(Rs) = Least /\ Signed(Rt) = -1 /\ status' = "host trap"
    BY <1>6 DEF HostTrap, Traps
  <2>2. current.op = "DIV" /\ Rs = regs[current.rs] /\ Rt = regs[current.rt]
    BY <2>1, InstructionIs, Groups DEF Inv
  <2>3. AfterLoad[current.rs] = Rs /\ AfterLoad[current.rt] = Rt
    BY <2>1, <2>2, UsedIs DEF Aligned, Unaligned
  <2>4. /\ Architecture!Running /\ Architecture!Fetched.op = "DIV"
        /\ Architecture!Signed(AfterLoad[Architecture!Fetched.rs]) = Architecture!Least
        /\ Architecture!Signed(AfterLoad[Architecture!Fetched.rt]) = -1
    BY <2>1, <2>2, <2>3, FetchedIs, SameWords
  <2> QED BY <1>1, <2>1, <2>4 DEF Architecture!Fault
<1> QED BY <1>2, <1>3, <1>4, <1>5, <1>6

\* Moves to HI and LO.
LEMMA MoveIs ==
  ASSUME Inv, Obeys(current), MoveToHiLo
  PROVE  Architecture!MoveToHiLo
<1>1. /\ Fetches /\ instr.opCode \in {"MTHI", "MTLO"} /\ Retire(regs, 0, 0, pcAfter0) /\ UNCHANGED mem
      /\ IF instr.opCode = "MTHI" THEN hi' = Rs /\ UNCHANGED lo ELSE lo' = Rs /\ UNCHANGED hi
  BY DEF MoveToHiLo
<1>2. current.op = instr.opCode /\ AfterLoad[current.rs] = Rs
  BY <1>1, InstructionIs, UsedIs DEF Inv
<1>3. Architecture!Advance /\ AfterLoad' = AfterLoad
  BY <1>1, AdvanceIs, PendingDone
<1> QED BY <1>1, <1>2, <1>3, FetchedIs DEF Architecture!MoveToHiLo

\* Products, by MultIs.
LEMMA MultiplyIs ==
  ASSUME Inv, Obeys(current), Multiply
  PROVE  Architecture!Multiply
<1>1. /\ Fetches /\ instr.opCode \in {"MULT", "MULTU"} /\ Retire(regs, 0, 0, pcAfter0) /\ UNCHANGED mem
      /\ hi' = Mult(Rs, Rt, instr.opCode = "MULT").hi /\ lo' = Mult(Rs, Rt, instr.opCode = "MULT").lo
  BY DEF Multiply
<1>2. /\ current.op = instr.opCode /\ Rs = regs[current.rs] /\ Rt = regs[current.rt]
      /\ Rs \in Words /\ Rt \in Words
  BY <1>1, InstructionIs, Groups DEF Inv
<1>3. PICK a \in Words, b \in Words : a = AfterLoad[current.rs] /\ b = AfterLoad[current.rt] /\ a = Rs /\ b = Rt
  BY <1>1, <1>2, UsedIs DEF Aligned, Unaligned
<1>4. PICK s \in BOOLEAN : s = (current.op = "MULT")
  OBVIOUS
<1>5. hi' = Mult(a, b, s).hi /\ lo' = Mult(a, b, s).lo
  BY <1>1, <1>2, <1>3, <1>4
<1>6. hi' = (Product(a, b, s) \div Bytes(4)) % Bytes(4) /\ lo' = Product(a, b, s) % Bytes(4)
  BY <1>5, MultIs
<1>7. Product(a, b, s) = IF current.op = "MULT" THEN Signed(a) * Signed(b) ELSE a * b
  BY <1>4 DEF Product
<1>8. Architecture!Advance /\ AfterLoad' = AfterLoad
  BY <1>1, AdvanceIs, PendingDone
<1>9. PICK x : x = IF current.op = "MULT" THEN Signed(a) * Signed(b) ELSE a * b
  OBVIOUS
<1>10. hi' = (x \div Bytes(4)) % Bytes(4) /\ lo' = x % Bytes(4)
  BY <1>6, <1>7, <1>9
<1>11. x = IF Architecture!Fetched.op = "MULT"
           THEN Architecture!Signed(AfterLoad[Architecture!Fetched.rs]) * Architecture!Signed(AfterLoad[Architecture!Fetched.rt])
           ELSE AfterLoad[Architecture!Fetched.rs] * AfterLoad[Architecture!Fetched.rt]
  BY <1>3, <1>9, FetchedIs, SameWords
<1>12. Architecture!Running /\ Architecture!Fetched.op \in {"MULT", "MULTU"}
  BY <1>1, <1>2, FetchedIs
<1> QED BY <1>1, <1>8, <1>10, <1>11, <1>12, SameWords DEF Architecture!Multiply

\* The quotient of two integers and the remainder fit in words, but for the least
\* integer and -1.
LEMMA DivisionFits ==
  ASSUME NEW n \in Int, NEW d \in Int, d # 0, Least <= n, n <= Greatest, Least <= d, d <= Greatest,
         ~(n = Least /\ d = -1)
  PROVE  LET q == Quotient(n, d)
             r == n - d * Quotient(n, d)
         IN  Architecture!Divides(n, d, Signed(Word(q)), Signed(Word(r))) /\ Word(q) \in Words /\ Word(r) \in Words
<1>1. PICK s \in Nat \ {0} : Least = -s /\ Greatest = s - 1 /\ Bytes(4) = 2 * s
  <2>1. PICK s \in Nat \ {0} : s = SIGN_BIT /\ Bytes(4) = 2 * s
    BY TopBit, NoBits
  <2> QED BY <2>1 DEF Least, Greatest, SIGN_BIT
<1>2. PICK q \in Int, y \in Int : q = Quotient(n, d) /\ y = d * q /\ y = q * d
  BY QuotientIs, Times
<1>3. PICK r \in Int : r = n - y
  BY <1>2
<1>4. /\ n = y + r
      /\ r < 0 => n < 0
      /\ r > 0 => n > 0
      /\ (IF r < 0 THEN -r ELSE r) < (IF d < 0 THEN -d ELSE d)
      /\ q >= -(IF n < 0 THEN -n ELSE n) /\ q <= (IF n < 0 THEN -n ELSE n)
      /\ q = (IF n < 0 THEN -n ELSE n) => n = 0 \/ d = 1 \/ (n < 0 /\ d = -1)
  <2>1. /\ r < 0 => n < 0
        /\ r > 0 => n > 0
        /\ (IF r < 0 THEN -r ELSE r) < (IF d < 0 THEN -d ELSE d)
    <3>1. r = n - d * Quotient(n, d)
      BY <1>2, <1>3
    <3> QED BY <3>1, QuotientIs, Zenon
  <2>2. q >= -(IF n < 0 THEN -n ELSE n) /\ q <= (IF n < 0 THEN -n ELSE n)
    BY <1>2, QuotientIs
  <2>3. q = (IF n < 0 THEN -n ELSE n) => n = 0 \/ d = 1 \/ (n < 0 /\ d = -1)
    BY <1>2, QuotientIs, Zenon
  <2> QED BY <1>2, <1>3, <2>1, <2>2, <2>3
<1>5. Least <= q /\ q <= Greatest
  <2>1. CASE q <= s - 1
    BY <1>1, <1>4, <2>1
  <2>2. CASE q > s - 1
    <3>1. n < 0 /\ n = -s /\ q = s /\ q = -n
      BY <1>1, <1>4, <2>2
    <3>2. d = 1
      BY <1>1, <1>4, <3>1
    <3>3. y = q
      BY <1>2, <3>2
    <3>4. r < 1 /\ -1 < r
      BY <1>4, <3>2
    <3>5. n = q
      BY <1>4, <3>3, <3>4
    <3> QED BY <1>1, <3>1, <3>5
  <2> QED BY <2>1, <2>2
<1>6. Least <= r /\ r <= Greatest
  BY <1>1, <1>4
<1>7. /\ -Bytes(4) <= q /\ q < Bytes(4) /\ ~(q > Greatest) /\ ~(q < Least)
      /\ -Bytes(4) <= r /\ r < Bytes(4) /\ ~(r > Greatest) /\ ~(r < Least)
  BY <1>1, <1>5, <1>6
<1>8. Signed(Word(q)) = q /\ Signed(Word(r)) = r /\ Word(q) \in Words /\ Word(r) \in Words
  BY <1>7, Wrapped
<1>9. r \in -Greatest - 1 .. 2 * Greatest + 1
  BY <1>1, <1>6
<1>10. Architecture!Divides(n, d, q, r)
  BY <1>2, <1>4, <1>9, SameWords DEF Architecture!Divides
<1> QED BY <1>2, <1>3, <1>8, <1>10

\* So do those of two words.
LEMMA WordDivisionFits ==
  ASSUME NEW n \in Words, NEW d \in Words, d # 0
  PROVE  LET q == Quotient(n, d)
             r == n - d * Quotient(n, d)
         IN  Architecture!Divides(n, d, Word(q), Word(r)) /\ Word(q) \in Words /\ Word(r) \in Words
<1>1. PICK s \in Nat \ {0} : Greatest = s - 1 /\ Power2[WordBits] = 2 * s
  <2>1. PICK s \in Nat \ {0} : s = SIGN_BIT /\ Bytes(4) = 2 * s
    BY TopBit, NoBits
  <2> QED BY <2>1, WordFacts DEF Greatest, SIGN_BIT
<1>2. n \in Int /\ d \in Int /\ 0 <= n /\ n < 2 * s /\ 0 < d /\ d < 2 * s
  BY <1>1, WordsAre
<1>3. PICK q \in Int, y \in Int : q = Quotient(n, d) /\ y = d * q /\ y = q * d
  BY <1>2, QuotientIs, Times
<1>4. PICK r \in Int : r = n - y
  BY <1>2, <1>3
<1>5. /\ n = y + r
      /\ r < 0 => n < 0
      /\ r > 0 => n > 0
      /\ (IF r < 0 THEN -r ELSE r) < (IF d < 0 THEN -d ELSE d)
      /\ q <= (IF n < 0 THEN -n ELSE n) /\ q >= 0
  BY <1>2, <1>3, <1>4, QuotientIs
<1>6. q \in Words /\ r \in Words
  <2>1. 0 <= q /\ q < 2 * s /\ 0 <= r /\ r < 2 * s
    BY <1>2, <1>5
  <2> QED BY <1>1, <2>1, WordsAre
<1>7. Word(q) = q /\ Word(r) = r
  BY <1>6, WordOfWord
<1>8. r \in -Greatest - 1 .. 2 * Greatest + 1
  BY <1>1, <1>2, <1>5
<1>9. Architecture!Divides(n, d, q, r)
  BY <1>3, <1>5, <1>8, SameWords DEF Architecture!Divides
<1> QED BY <1>3, <1>4, <1>6, <1>7, <1>9

\* Quotients and remainders.
LEMMA DivideIs ==
  ASSUME Inv, Obeys(current), Divide
  PROVE  Architecture!Divide
<1>1. /\ Fetches /\ instr.opCode \in {"DIV", "DIVU"} /\ ~Traps
      /\ Retire(regs, 0, 0, pcAfter0) /\ UNCHANGED mem
  BY DEF Divide
<1>2. /\ current.op = instr.opCode /\ Rs = regs[current.rs] /\ Rt = regs[current.rt]
      /\ Rs \in Words /\ Rt \in Words
  BY <1>1, InstructionIs, Groups DEF Inv
<1>3. PICK a \in Words, b \in Words : a = AfterLoad[current.rs] /\ b = AfterLoad[current.rt] /\ a = Rs /\ b = Rt
  BY <1>1, <1>2, UsedIs DEF Aligned, Unaligned
<1>4. Architecture!Advance /\ AfterLoad' = AfterLoad
  BY <1>1, AdvanceIs, PendingDone
<1>5. /\ Architecture!Running /\ Architecture!Fetched = current /\ 0 \in Words
  BY <1>1, FetchedIs, RegisterFacts
<1>6. CASE current.op = "DIV"
  <2>1. PICK n \in Int, d \in Int : n = Signed(a) /\ d = Signed(b)
    BY SignedInt
  <2>2. Least <= n /\ n <= Greatest /\ Least <= d /\ d <= Greatest /\ Word(n) = a /\ Word(d) = b
    BY <2>1, SignedInt
  <2>3. ~(n = Least /\ d = -1)
    BY <1>1, <1>2, <1>3, <1>6, <2>1 DEF Traps
  <2>4. IF d = 0 THEN lo' = 0 /\ hi' = 0
        ELSE lo' = Word(Quotient(n, d)) /\ hi' = Word(n - d * Quotient(n, d))
    BY <1>2, <1>3, <1>6, <2>1 DEF Divide
  <2>5. CASE d = 0
    <3>1. b = 0
      BY <2>2, <2>5, RegisterFacts, WordOfWord
    <3> QED BY <1>1, <1>3, <1>4, <1>5, <1>6, <2>4, <2>5, <3>1, SameWords DEF Architecture!Divide
  <2>6. CASE d # 0
    <3>1. lo' \in Words /\ hi' \in Words /\ Architecture!Divides(n, d, Signed(lo'), Signed(hi'))
      BY <2>2, <2>3, <2>4, <2>6, DivisionFits
    <3>2. /\ Architecture!Signed(a) = n /\ Architecture!Signed(b) = d /\ Architecture!Words = Words
          /\ Architecture!Signed(lo') = Signed(lo') /\ Architecture!Signed(hi') = Signed(hi')
      BY <2>1, SameWords
    <3> QED BY <1>1, <1>3, <1>4, <1>5, <1>6, <3>1, <3>2 DEF Architecture!Divide
  <2> QED BY <2>5, <2>6
<1>7. CASE current.op = "DIVU"
  <2>1. IF b = 0 THEN lo' = 0 /\ hi' = 0
        ELSE lo' = Word(Quotient(a, b)) /\ hi' = Word(a - b * Quotient(a, b))
    BY <1>2, <1>3, <1>7 DEF Divide
  <2>2. CASE b = 0
    BY <1>1, <1>3, <1>4, <1>5, <1>7, <2>1, <2>2, SameWords DEF Architecture!Divide
  <2>3. CASE b # 0
    <3>1. lo' \in Words /\ hi' \in Words /\ Architecture!Divides(a, b, lo', hi')
      BY <2>1, <2>3, WordDivisionFits
    <3> QED BY <1>1, <1>3, <1>4, <1>5, <1>7, <3>1, SameWords DEF Architecture!Divide
  <2> QED BY <2>2, <2>3
<1> QED BY <1>1, <1>2, <1>6, <1>7

\* A branch is not in a delay slot: its counters are those of the architecture, and
\* what it links is the address after its own slot.
LEMMA LinkedIs ==
  ASSUME Inv, Fetches, Obeys(current), instr.opCode \in Conditional \cup Jumps, NEW p,
         Retire(Linked, 0, 0, p)
  PROVE  /\ CASE current.op \in {"BGEZAL", "BLTZAL", "JAL"} -> Architecture!Put(31, Word(pc + 8))
              [] current.op = "JALR" -> Architecture!Put(current.rd, Word(pc + 8))
              [] OTHER -> AfterLoad' = AfterLoad
         /\ Linked[instr.rs] = AfterLoad[current.rs] /\ AfterLoad[current.rs] \in Words
         /\ current.op = instr.opCode /\ pc' = Word(pc + 4) /\ nextPC' = p /\ nextPC = Word(pc + 4)
         /\ pcAfter0 = Word(pc + 8) /\ pcAfter0 \in Words /\ pc \in Int /\ UNCHANGED <<program, status>>
         /\ Architecture!Running
<1>1. /\ current.op = instr.opCode /\ instr.rs = current.rs /\ instr.rd = current.rd
      /\ current.rs \in Registers /\ current.rd \in Registers /\ 31 \in Registers
      /\ regs[current.rs] \in Words
  BY InstructionIs, RegisterFacts, Groups DEF Inv
<1>2. current.op \notin {"SYSCALL", "BREAK"} \cup ((Aligned \cup Unaligned) \ Stores)
  BY <1>1 DEF Conditional, Jumps, Aligned, Unaligned
<1>3. /\ AfterLoad[current.rs] = regs[current.rs]
      /\ loadReg = 0 \/ loadReg # current.rd
      /\ current.op \in Linking \ {"JALR"} => loadReg = 0 \/ loadReg # 31
  BY <1>2, UsedIs
<1>4. /\ nextPC = Word(pc + 4)
      /\ current.op \in Linking => current.rs # IF current.op = "JALR" THEN current.rd ELSE 31
  BY <1>1 DEF Obeys
<1>5. pc \in Int /\ pcAfter0 \in Words /\ pcAfter0 = Word(pc + 8)
  <2>1. pc \in Words
    BY DEF Inv, TypeOK
  <2>2. pc \in Int
    BY <2>1, WordsAre
  <2>3. PICK x \in Int : x = pc + 4 /\ x + 4 = pc + 8
    BY <2>2
  <2>4. Word(Word(x) + 4) = Word(x + 4)
    BY WordAdds
  <2> QED BY <1>4, <2>2, <2>3, <2>4, NextWord DEF pcAfter0, Inv
<1>6. DelayedLoad(Linked, 0, 0) /\ pc' = nextPC /\ nextPC' = p /\ UNCHANGED <<program, status>>
  BY DEF Retire
<1>7. Linked = IF current.op \in Linking
               THEN [regs EXCEPT ![IF current.op = "JALR" THEN current.rd ELSE 31] = pcAfter0]
               ELSE regs
  BY <1>1 DEF Linked
<1>8. Linked[instr.rs] = AfterLoad[current.rs]
  <2>1. regs \in [Registers -> Words]
    BY DEF Inv, TypeOK
  <2> QED BY <1>1, <1>3, <1>4, <1>7, <2>1
<1>9. CASE current.op \in {"BGEZAL", "BLTZAL", "JAL"}
  <2>1. Linked = [regs EXCEPT ![31] = pcAfter0] /\ (loadReg = 0 \/ loadReg # 31)
    BY <1>3, <1>7, <1>9 DEF Linking
  <2>2. Architecture!Put(31, pcAfter0)
    BY <1>1, <1>5, <1>6, <2>1, WrittenIs
  <2> QED BY <1>1, <1>3, <1>4, <1>5, <1>6, <1>8, <1>9, <2>2, FetchedIs
<1>10. CASE current.op = "JALR"
  <2>1. Linked = [regs EXCEPT ![current.rd] = pcAfter0]
    BY <1>7, <1>10 DEF Linking
  <2>2. Architecture!Put(current.rd, pcAfter0)
    BY <1>1, <1>3, <1>5, <1>6, <2>1, WrittenIs
  <2> QED BY <1>1, <1>3, <1>4, <1>5, <1>6, <1>8, <1>10, <2>2, FetchedIs
<1>11. CASE current.op \notin {"BGEZAL", "BLTZAL", "JAL", "JALR"}
  <2>1. Linked = regs
    BY <1>7, <1>11 DEF Linking
  <2>2. AfterLoad' = AfterLoad
    BY <1>6, <2>1, PendingDone
  <2> QED BY <1>1, <1>3, <1>4, <1>5, <1>6, <1>8, <1>11, <2>2, FetchedIs
<1> QED BY <1>9, <1>10, <1>11

\* The test of a branch is its condition.
LEMMA TakenIs ==
  ASSUME Inv, Fetches, Obeys(current), instr.opCode \in Conditional,
         Linked[instr.rs] = AfterLoad[current.rs]
  PROVE  Taken <=> Architecture!Condition
<1>1. current.op = instr.opCode /\ current.op \in Conditional /\ regs[current.rs] \in Words
  BY InstructionIs, Groups DEF Inv
<1>2. PICK a \in Words : a = AfterLoad[current.rs] /\ a = Linked[instr.rs]
  BY <1>1, UsedIs DEF Conditional
<1>3. PICK o : o = current.op
  OBVIOUS
<1>4. o \in Conditional
  BY <1>1, <1>3
<1>5. /\ Negative(a) <=> Signed(a) < 0
      /\ And(a, SIGN_BIT) = 0 <=> ~Negative(a)
      /\ Signed(a) \in Int
  BY TopBit, SignedInt DEF Negative
<1>6. CASE o \in {"BEQ", "BNE"}
  <2>1. Rt = regs[current.rt] /\ Rt \in Words
    BY <1>1, <1>3, <1>6, InstructionIs, Groups DEF Inv
  <2>2. PICK b \in Words : b = AfterLoad[current.rt] /\ b = Rt
    BY <1>1, <1>3, <1>6, <2>1, UsedIs DEF Aligned, Unaligned
  <2>3. a = b <=> Signed(a) = Signed(b)
    <3>1. Word(Signed(a)) = a /\ Word(Signed(b)) = b
      BY SignedInt
    <3> QED BY <3>1
  <2>4. Taken <=> IF o = "BEQ" THEN a = b ELSE a # b
    BY <1>1, <1>2, <1>3, <1>6, <2>2 DEF Taken
  <2>5. Architecture!Condition <=> IF o = "BEQ" THEN Signed(a) = Signed(b) ELSE Signed(a) # Signed(b)
    BY <1>2, <1>3, <1>6, <2>2, FetchedIs, SameWords DEF Architecture!Condition
  <2> QED BY <2>3, <2>4, <2>5
<1>7. CASE o \in {"BGTZ", "BLEZ"}
  <2>1. Taken <=> IF o = "BGTZ" THEN Signed(a) > 0 ELSE Signed(a) <= 0
    BY <1>1, <1>2, <1>3, <1>7 DEF Taken
  <2>2. Architecture!Condition <=> IF o = "BGTZ" THEN Signed(a) > 0 ELSE Signed(a) <= 0
    BY <1>2, <1>3, <1>7, FetchedIs, SameWords DEF Architecture!Condition
  <2> QED BY <2>1, <2>2
<1>8. CASE o \in {"BGEZ", "BGEZAL", "BLTZ", "BLTZAL"}
  <2>1. Taken <=> IF o \in {"BGEZ", "BGEZAL"} THEN And(a, SIGN_BIT) = 0 ELSE And(a, SIGN_BIT) # 0
    BY <1>1, <1>2, <1>3, <1>8 DEF Taken
  <2>2. Architecture!Condition <=> IF o \in {"BGEZ", "BGEZAL"} THEN Signed(a) >= 0 ELSE Signed(a) < 0
    BY <1>2, <1>3, <1>8, FetchedIs, SameWords DEF Architecture!Condition
  <2>3. Signed(a) >= 0 <=> ~(Signed(a) < 0)
    BY <1>5
  <2> QED BY <1>5, <2>1, <2>2, <2>3
<1> QED BY <1>4, <1>6, <1>7, <1>8 DEF Conditional

\* An offset is counted from the slot, in instructions.
LEMMA OffsetIs ==
  ASSUME NEW x \in Int, NEW m \in Int
  PROVE  Word(Word(x) + IndexToAddr(Word(m))) = Word(x + 4 * m)
<1>1. PICK c \in Int : m = c * Bytes(4) + Word(m)
  BY WordDiffers
<1>2. PICK w \in Int : w = Word(m)
  BY WordIs, WordsAre
<1>3. PICK P \in Nat : P = Bytes(4)
  BY BytesAre
<1>4. PICK y \in Int : y = c * P /\ m = y + w
  BY <1>1, <1>2, <1>3, Times
<1>5. 4 * y = (4 * c) * P /\ 4 * c \in Int
  BY <1>4, Times
<1>6. x + 4 * m = (4 * c) * Bytes(4) + (x + 4 * w)
  BY <1>3, <1>4, <1>5
<1>7. Word(x + 4 * m) = Word(x + 4 * w)
  <2>1. PICK k \in Int, u \in Int, v \in Int : k = 4 * c /\ u = x + 4 * m /\ v = x + 4 * w
    OBVIOUS
  <2>2. u = k * Bytes(4) + v
    BY <1>6, <2>1
  <2>3. Word(u) = Word(v)
    BY <2>2, SameWord
  <2> QED BY <2>1, <2>3
<1>8. Word(Word(x) + 4 * w) = Word(x + 4 * w)
  <2>1. PICK f \in Int : f = 4 * w
    OBVIOUS
  <2>2. Word(Word(x) + f) = Word(x + f)
    BY WordAdds
  <2> QED BY <2>1, <2>2
<1> QED BY <1>2, <1>7, <1>8 DEF IndexToAddr

\* Branches: the counters after the delay slot are those of the architecture.
LEMMA BranchIs ==
  ASSUME Inv, Obeys(current), Branch
  PROVE  Architecture!Branch
<1>1. /\ Fetches /\ instr.opCode \in Conditional /\ UNCHANGED <<mem, hi, lo>>
      /\ Retire(Linked, 0, 0, IF Taken THEN Word(nextPC + IndexToAddr(instr.extra)) ELSE pcAfter0)
  BY DEF Branch
<1>2. PICK p : p = IF Taken THEN Word(nextPC + IndexToAddr(instr.extra)) ELSE pcAfter0
  OBVIOUS
<1>3. Retire(Linked, 0, 0, p)
  BY <1>1, <1>2
<1>4. /\ CASE current.op \in {"BGEZAL", "BLTZAL", "JAL"} -> Architecture!Put(31, Word(pc + 8))
           [] current.op = "JALR" -> Architecture!Put(current.rd, Word(pc + 8))
           [] OTHER -> AfterLoad' = AfterLoad
      /\ Linked[instr.rs] = AfterLoad[current.rs]
      /\ current.op = instr.opCode /\ pc' = Word(pc + 4) /\ nextPC' = p /\ nextPC = Word(pc + 4)
      /\ pcAfter0 = Word(pc + 8) /\ pc \in Int /\ UNCHANGED <<program, status>>
      /\ Architecture!Running
  BY <1>1, <1>3, LinkedIs
<1>5. Taken <=> Architecture!Condition
  BY <1>1, <1>4, TakenIs
<1>6. current.imm \in Int /\ instr.extra = Word(current.imm)
  BY <1>1, <1>4, ImmediateIs DEF Inv
<1>7. Word(nextPC + IndexToAddr(instr.extra)) = Word(pc + 4 + 4 * current.imm)
  <2>1. PICK x \in Int : x = pc + 4
    BY <1>4
  <2> QED BY <1>4, <1>6, <2>1, OffsetIs
<1>8. current.op \in Conditional /\ current.op \notin {"J", "JAL", "JR", "JALR"}
  BY <1>1, <1>4 DEF Conditional
<1>9. nextPC' = IF ~Architecture!Condition THEN Word(pc + 8) ELSE Word(pc + 4 + 4 * current.imm)
  BY <1>2, <1>4, <1>5, <1>7
<1>10. nextPC' = IF ~Architecture!Condition THEN Architecture!Word(pc + 8)
                 ELSE CASE Architecture!Fetched.op \in {"J", "JAL"} -> 4 * Architecture!Fetched.imm
                        [] Architecture!Fetched.op \in {"JR", "JALR"} -> AfterLoad[Architecture!Fetched.rs]
                        [] OTHER -> Architecture!Word(pc + 4 + 4 * Architecture!Fetched.imm)
  BY <1>8, <1>9, FetchedIs, SameWords
<1>11. (CASE Architecture!Fetched.op \in {"BGEZAL", "BLTZAL", "JAL"} -> Architecture!Put(31, Architecture!Word(pc + 8))
         [] Architecture!Fetched.op = "JALR" -> Architecture!Put(Architecture!Fetched.rd, Architecture!Word(pc + 8))
         [] OTHER -> AfterLoad' = AfterLoad)
  BY <1>4, FetchedIs, SameWords
<1>12. Architecture!Fetched.op \in {"BEQ", "BNE", "BGTZ", "BLEZ", "BGEZ", "BGEZAL", "BLTZ", "BLTZAL", "J", "JAL",
                                    "JR", "JALR"}
  BY <1>8, FetchedIs DEF Conditional
<1> QED BY <1>1, <1>4, <1>10, <1>11, <1>12, SameWords DEF Architecture!Branch

\* The lowest region is within the words.
LEMMA RegionFits ==
  Region \in Int /\ Region <= Power2[WordBits]
<1>1. PICK m \in Nat : m = ByteBits \div 2
  BY WordFacts
<1>2. PICK a \in Nat \ {0}, P \in Nat \ {0} : a = Power2[m] /\ P = Power2[WordBits]
  BY PowerNat, WordFacts
<1>3. P \div a \in Int /\ P % a \in 0 .. a - 1 /\ P = (P \div a) * a + (P % a)
  BY DivMod
<1>4. PICK g \in Int, y \in Int : g = P \div a /\ y = g * a /\ y <= P
  BY <1>3
<1>5. g <= P
  <2>1. CASE g <= 0
    BY <2>1
  <2>2. CASE g > 0
    <3>1. 1 * g <= a * g /\ a * g = g * a
      <4>1. g \in Nat \ {0} /\ 1 <= a
        BY <2>2
      <4> QED BY <4>1, TimesOrder, Times
    <3> QED BY <1>4, <3>1
  <2> QED BY <2>1, <2>2
<1> QED BY <1>1, <1>2, <1>4, <1>5, WordFacts DEF Region

\* Jumps.
LEMMA JumpIs ==
  ASSUME Inv, Obeys(current), Jump
  PROVE  Architecture!Branch
<1>1. Fetches /\ instr.opCode \in Jumps /\ UNCHANGED <<mem, hi, lo>>
  BY DEF Jump
<1>2. PICK p : p = IF instr.opCode \in {"J", "JAL"}
                   THEN Or(And(pcAfter0, RegionBits), IndexToAddr(instr.extra)) ELSE Linked[instr.rs]
  OBVIOUS
<1>3. Retire(Linked, 0, 0, p)
  BY <1>2 DEF Jump
<1>4. /\ CASE current.op \in {"BGEZAL", "BLTZAL", "JAL"} -> Architecture!Put(31, Word(pc + 8))
           [] current.op = "JALR" -> Architecture!Put(current.rd, Word(pc + 8))
           [] OTHER -> AfterLoad' = AfterLoad
      /\ Linked[instr.rs] = AfterLoad[current.rs]
      /\ current.op = instr.opCode /\ pc' = Word(pc + 4) /\ nextPC' = p
      /\ pcAfter0 \in Words /\ UNCHANGED <<program, status>>
      /\ Architecture!Running
  BY <1>1, <1>3, LinkedIs
<1>5. current.op \in Jumps /\ Architecture!Condition = TRUE
  BY <1>1, <1>4, FetchedIs DEF Architecture!Condition, Jumps
<1>6. current.op \in {"J", "JAL"} => nextPC' = 4 * current.imm
  <2> HAVE current.op \in {"J", "JAL"}
  <2>1. instr.extra = current.imm /\ current.imm \in Nat
    BY <1>1, ExtraIs DEF Inv
  <2>2. pcAfter0 < Region /\ 4 * current.imm < Region
    BY DEF Obeys
  <2>3. PICK t \in Nat : t = 4 * current.imm /\ t = IndexToAddr(instr.extra)
    BY <2>1 DEF IndexToAddr
  <2>4. t \in Words
    <3>1. PICK R \in Int : R = Region /\ R <= Power2[WordBits]
      BY RegionFits
    <3>2. PICK P \in Int : P = Power2[WordBits]
      BY WordFacts
    <3>3. t < P
      BY <2>2, <2>3, <3>1, <3>2
    <3> QED BY <2>3, <3>2, <3>3, WordsAre
  <2>5. Or(And(pcAfter0, RegionBits), t) = t
    BY <1>4, <2>2, <2>3, <2>4, JumpKeepsRegion
  <2> QED BY <1>2, <1>4, <2>3, <2>5
<1>7. current.op \notin {"J", "JAL"} => nextPC' = AfterLoad[current.rs]
  BY <1>2, <1>4
<1>8. nextPC' = IF ~Architecture!Condition THEN Architecture!Word(pc + 8)
                 ELSE CASE Architecture!Fetched.op \in {"J", "JAL"} -> 4 * Architecture!Fetched.imm
                        [] Architecture!Fetched.op \in {"JR", "JALR"} -> AfterLoad[Architecture!Fetched.rs]
                        [] OTHER -> Architecture!Word(pc + 4 + 4 * Architecture!Fetched.imm)
  BY <1>5, <1>6, <1>7, FetchedIs DEF Jumps
<1>9. (CASE Architecture!Fetched.op \in {"BGEZAL", "BLTZAL", "JAL"} -> Architecture!Put(31, Architecture!Word(pc + 8))
         [] Architecture!Fetched.op = "JALR" -> Architecture!Put(Architecture!Fetched.rd, Architecture!Word(pc + 8))
         [] OTHER -> AfterLoad' = AfterLoad)
  BY <1>4, FetchedIs, SameWords
<1>10. Architecture!Fetched.op \in {"BEQ", "BNE", "BGTZ", "BLEZ", "BGEZ", "BGEZAL", "BLTZ", "BLTZAL", "J", "JAL",
                                    "JR", "JALR"}
  BY <1>5, FetchedIs DEF Jumps
<1> QED BY <1>1, <1>4, <1>8, <1>9, <1>10, SameWords DEF Architecture!Branch

\* The bytes that the architecture makes words of make the same words.
LEMMA SameBytes ==
  \A a, b, c, d : a + b * Architecture!Bytes(1) + c * Architecture!Bytes(2) + d * Architecture!Bytes(3)
                    = FromBytes(a, b, c, d)
BY SameWords DEF FromBytes

\* An aligned load loads what the architecture says.
LEMMA WholeIs ==
  ASSUME Inv, Fetches, Obeys(current), LoadAligned
  PROVE  LET value == ReadMem(addr0, Size)
         IN  Architecture!Loaded = IF instr.opCode \in {"LB", "LH"} THEN Word(SignedOf(value, Size)) ELSE value
<1>1. instr.opCode \in {"LB", "LBU", "LH", "LHU", "LW"} /\ Accessible(addr0, Size)
  BY DEF LoadAligned, Aligned
<1>2. Architecture!Address = addr0 /\ addr0 \in Nat /\ current.op = instr.opCode
  BY <1>1, AccessIs DEF Aligned, Unaligned
<1>3. PICK a \in Nat : a = addr0
  BY <1>2
<1>4. PICK o : o = current.op
  OBVIOUS
<1>5. Architecture!Width = Size /\ Size = CASE o \in {"LB", "LBU"} -> 1 [] o \in {"LH", "LHU"} -> 2 [] o = "LW" -> 4
  BY <1>1, <1>2, <1>4, FetchedIs DEF Architecture!Width, Size
<1>6. a + 0 = a
  OBVIOUS
<1>7. CASE o \in {"LB", "LBU"}
  <2>1. Size = 1 /\ Architecture!Width = 1
    BY <1>5, <1>7
  <2>2. ReadMem(a, 1) = FromBytes(mem[a], 0, 0, 0)
    BY <1>1, <1>3, <2>1, ReadIs DEF Inv
  <2>3. Architecture!Loaded = IF o = "LB" THEN Word(SignedOf(FromBytes(mem[a], 0, 0, 0), 1)) ELSE FromBytes(mem[a], 0, 0, 0)
    <3>1. CASE o = "LB"
      BY <1>2, <1>3, <1>4, <1>6, <2>1, <3>1, FetchedIs, SameWords, SameBytes
      DEF Architecture!Loaded, Architecture!OfBytes
    <3>2. CASE o = "LBU"
      BY <1>2, <1>3, <1>4, <1>6, <2>1, <3>2, FetchedIs, SameWords, SameBytes
      DEF Architecture!Loaded, Architecture!OfBytes
    <3> QED BY <1>7, <3>1, <3>2
  <2> QED BY <1>2, <1>3, <1>4, <1>7, <2>1, <2>2, <2>3
<1>8. CASE o \in {"LH", "LHU"}
  <2>1. Size = 2 /\ Architecture!Width = 2
    BY <1>5, <1>8
  <2>2. ReadMem(a, 2) = FromBytes(mem[a], mem[a + 1], 0, 0)
    BY <1>1, <1>3, <2>1, ReadIs DEF Inv
  <2>3. Architecture!Loaded = IF o = "LH" THEN Word(SignedOf(FromBytes(mem[a], mem[a + 1], 0, 0), 2))
                              ELSE FromBytes(mem[a], mem[a + 1], 0, 0)
    <3>1. CASE o = "LH"
      BY <1>2, <1>3, <1>4, <1>6, <2>1, <3>1, FetchedIs, SameWords, SameBytes
      DEF Architecture!Loaded, Architecture!OfBytes
    <3>2. CASE o = "LHU"
      BY <1>2, <1>3, <1>4, <1>6, <2>1, <3>2, FetchedIs, SameWords, SameBytes
      DEF Architecture!Loaded, Architecture!OfBytes
    <3> QED BY <1>8, <3>1, <3>2
  <2> QED BY <1>2, <1>3, <1>4, <1>8, <2>1, <2>2, <2>3
<1>9. CASE o = "LW"
  <2>1. Size = 4 /\ Architecture!Width = 4
    BY <1>5, <1>9
  <2>2. ReadMem(a, 4) = FromBytes(mem[a], mem[a + 1], mem[a + 2], mem[a + 3])
    BY <1>1, <1>3, <2>1, ReadIs DEF Inv
  <2>3. Architecture!Loaded = FromBytes(mem[a], mem[a + 1], mem[a + 2], mem[a + 3])
    BY <1>2, <1>3, <1>4, <1>6, <1>9, <2>1, FetchedIs, SameWords, SameBytes
    DEF Architecture!Loaded, Architecture!OfBytes
  <2> QED BY <1>2, <1>3, <1>4, <1>9, <2>1, <2>2, <2>3
<1> QED BY <1>1, <1>2, <1>4, <1>7, <1>8, <1>9

\* LWL and LWR merge the bytes of memory with those of the register, pending or not.
LEMMA MergedIs ==
  ASSUME Inv, Fetches, Obeys(current), LoadUnaligned, current.rt # 0
  PROVE  Architecture!Loaded = Merged(ReadMem(Touched, 4))
<1>1. instr.opCode \in {"LWL", "LWR"} /\ Accessible(Touched, 4)
  BY DEF LoadUnaligned
<1>2. Architecture!Address = addr0 /\ addr0 \in Nat /\ current.op = instr.opCode
  BY <1>1, AccessIs DEF Aligned, Unaligned
<1>3. byte = addr0 % 4 /\ byte \in 0 .. 3 /\ Touched = addr0 - byte /\ Touched \in Nat /\ instr.rt = current.rt
      /\ Rt = regs[current.rt] /\ current.rt \in Registers
  BY <1>1, AddressIs, InstructionIs DEF Inv, Unaligned, byte
<1>4. PICK a \in Nat, t \in Nat, j \in 0 .. 3 : a = addr0 /\ t = Touched /\ j = byte /\ t = a - j
  BY <1>2, <1>3
<1>5. PICK w \in Words : w = ReadMem(t, 4) /\ \A k \in 0 .. 3 : mem[t + k] = ByteOf(w, k)
  BY <1>1, <1>4, ReadIs DEF Inv
<1>6. PICK v \in Words : v = Previous /\ v = AfterLoad[current.rt]
  <2>1. AfterLoad[current.rt] \in Words /\ (loadReg = current.rt => AfterLoad[current.rt] = loadValue)
        /\ (loadReg # current.rt => AfterLoad[current.rt] = regs[current.rt])
    BY <1>3, AfterLoadIs
  <2> QED BY <1>3, <2>1 DEF Previous
<1>7. Architecture!Offset = j
  BY <1>2, <1>3, <1>4 DEF Architecture!Offset
<1>8. 0 \in 0 .. 3 /\ 1 \in 0 .. 3 /\ 2 \in 0 .. 3 /\ 3 \in 0 .. 3
  OBVIOUS
<1>9. CASE instr.opCode = "LWL"
  <2>1. PICK i \in 0 .. 3 : i = 3 - j
    OBVIOUS
  <2>2. PICK m : m = Merged(w)
    OBVIOUS
  <2>3. m = Lower(v, i) + Word(w * Bytes(i))
    BY <1>4, <1>6, <1>9, <2>1, <2>2 DEF Merged
  <2>4. m \in Words /\ \A k \in 0 .. 3 : ByteOf(m, k) = IF k >= i THEN ByteOf(w, k - i) ELSE ByteOf(v, k)
    BY <2>3, MergeAbove
  <2>5. \A k \in 0 .. 3 : ByteOf(m, k) = IF k >= 3 - j THEN mem[a + (k - 3)] ELSE ByteOf(v, k)
    <3> SUFFICES ASSUME NEW k \in 0 .. 3
                 PROVE  ByteOf(m, k) = IF k >= 3 - j THEN mem[a + (k - 3)] ELSE ByteOf(v, k)
      OBVIOUS
    <3>1. CASE k >= i
      <4>1. PICK c \in 0 .. 3 : c = k - i /\ t + c = a + (k - 3)
        BY <1>4, <2>1, <3>1
      <4> QED BY <1>5, <2>1, <2>4, <3>1, <4>1
    <3>2. CASE ~(k >= i)
      BY <2>1, <2>4, <3>2
    <3> QED BY <3>1, <3>2
  <2>6. m = FromBytes(ByteOf(m, 0), ByteOf(m, 1), ByteOf(m, 2), ByteOf(m, 3))
    BY <2>4, ByteParts
  <2>7. Architecture!Loaded =
          FromBytes(IF 0 >= 3 - j THEN mem[a + (0 - 3)] ELSE ByteOf(v, 0),
                    IF 1 >= 3 - j THEN mem[a + (1 - 3)] ELSE ByteOf(v, 1),
                    IF 2 >= 3 - j THEN mem[a + (2 - 3)] ELSE ByteOf(v, 2),
                    IF 3 >= 3 - j THEN mem[a + (3 - 3)] ELSE ByteOf(v, 3))
    BY <1>2, <1>4, <1>6, <1>7, <1>9, FetchedIs, SameWords, SameBytes
    DEF Architecture!Loaded, Architecture!OfBytes
  <2>8. Architecture!Loaded = m
    BY <1>8, <2>5, <2>6, <2>7
  <2> QED BY <1>4, <1>5, <2>2, <2>8
<1>10. CASE instr.opCode = "LWR"
  <2>1. PICK m : m = Merged(w)
    OBVIOUS
  <2>2. m = v - Lower(v, 4 - j) + w \div Bytes(j)
    BY <1>4, <1>6, <1>10, <2>1 DEF Merged
  <2>3. m \in Words /\ \A k \in 0 .. 3 : ByteOf(m, k) = IF k + j <= 3 THEN ByteOf(w, k + j) ELSE ByteOf(v, k)
    BY <2>2, MergeBelow
  <2>4. \A k \in 0 .. 3 : ByteOf(m, k) = IF k <= 3 - j THEN mem[a + k] ELSE ByteOf(v, k)
    <3> SUFFICES ASSUME NEW k \in 0 .. 3
                 PROVE  ByteOf(m, k) = IF k <= 3 - j THEN mem[a + k] ELSE ByteOf(v, k)
      OBVIOUS
    <3>1. CASE k + j <= 3
      <4>1. PICK c \in 0 .. 3 : c = k + j /\ t + c = a + k
        BY <1>4, <3>1
      <4> QED BY <1>5, <2>3, <3>1, <4>1
    <3>2. CASE ~(k + j <= 3)
      BY <2>3, <3>2
    <3> QED BY <3>1, <3>2
  <2>5. m = FromBytes(ByteOf(m, 0), ByteOf(m, 1), ByteOf(m, 2), ByteOf(m, 3))
    BY <2>3, ByteParts
  <2>6. Architecture!Loaded =
          FromBytes(IF 0 <= 3 - j THEN mem[a + 0] ELSE ByteOf(v, 0),
                    IF 1 <= 3 - j THEN mem[a + 1] ELSE ByteOf(v, 1),
                    IF 2 <= 3 - j THEN mem[a + 2] ELSE ByteOf(v, 2),
                    IF 3 <= 3 - j THEN mem[a + 3] ELSE ByteOf(v, 3))
    BY <1>2, <1>4, <1>6, <1>7, <1>10, FetchedIs, SameWords, SameBytes
    DEF Architecture!Loaded, Architecture!OfBytes
  <2>7. Architecture!Loaded = m
    BY <1>8, <2>4, <2>5, <2>6
  <2> QED BY <1>4, <1>5, <2>1, <2>7
<1> QED BY <1>1, <1>9, <1>10

\* Loads.
LEMMA LoadIs ==
  ASSUME Inv, Obeys(current), LoadAligned \/ LoadUnaligned
  PROVE  Architecture!Load
<1>1. /\ Fetches /\ UNCHANGED <<mem, hi, lo>> /\ instr.opCode \in {"LB", "LBU", "LH", "LHU", "LW", "LWL", "LWR"}
      /\ instr.opCode \in Aligned \cup Unaligned
  BY DEF LoadAligned, LoadUnaligned, Aligned, Unaligned
<1>2. /\ Architecture!Address = addr0 /\ addr0 \in Nat /\ current.op = instr.opCode
      /\ instr.rt = current.rt /\ current.rt \in Registers
  BY <1>1, AccessIs, AddressIs, InstructionIs DEF Inv
<1>3. Architecture!Reachable
  <2>1. CASE LoadAligned
    <3>1. Accessible(addr0, Size) /\ instr.opCode \in Aligned
      BY <2>1 DEF LoadAligned
    <3>2. Architecture!Width = Size
      BY <1>2, <3>1, FetchedIs DEF Architecture!Width, Size, Aligned
    <3> QED BY <1>2, <3>1, <3>2 DEF Accessible, Architecture!Reachable, Architecture!Data
  <2>2. CASE LoadUnaligned
    <3>1. Accessible(Touched, 4) /\ instr.opCode \in {"LWL", "LWR"}
      BY <2>2 DEF LoadUnaligned
    <3>2. PICK a \in Nat : a = addr0 /\ Touched = a - (a % 4)
      BY <1>1, <1>2, <3>1, AddressIs DEF Inv, Unaligned
    <3>3. a \in DOMAIN mem
      BY <3>1, <3>2, WordIn DEF Inv, Accessible
    <3>4. Architecture!Width = 1 /\ a % 1 = 0
      BY <1>2, <3>1, FetchedIs DEF Architecture!Width
    <3> QED BY <1>2, <3>2, <3>3, <3>4 DEF Architecture!Reachable, Architecture!Data
  <2> QED BY <2>1, <2>2
<1>4. \E v \in Words : /\ Retire(regs, instr.rt, v, pcAfter0)
                       /\ current.rt # 0 => v = Architecture!Loaded
  <2>1. CASE LoadAligned
    <3>1. PICK v : /\ v = Architecture!Loaded
                   /\ v = IF instr.opCode \in {"LB", "LH"} THEN Word(SignedOf(ReadMem(addr0, Size), Size))
                          ELSE ReadMem(addr0, Size)
      BY <1>1, <2>1, WholeIs
    <3>2. Retire(regs, instr.rt, v, pcAfter0)
      BY <2>1, <3>1 DEF LoadAligned
    <3>3. v \in Words
      <4>1. Size \in {1, 2, 4} /\ Accessible(addr0, Size)
        BY <2>1 DEF LoadAligned, Size
      <4>2. ReadMem(addr0, Size) \in Words
        BY <1>2, <4>1, ReadIs DEF Inv
      <4> QED BY <3>1, <4>1, <4>2, ExtendedWord
    <3> QED BY <3>1, <3>2, <3>3
  <2>2. CASE LoadUnaligned
    <3>1. PICK v : v = Merged(ReadMem(Touched, 4))
      OBVIOUS
    <3>2. Retire(regs, instr.rt, v, pcAfter0)
      BY <2>2, <3>1 DEF LoadUnaligned
    <3>3. current.rt # 0 => v = Architecture!Loaded
      BY <1>1, <2>2, <3>1, MergedIs
    <3>4. v \in Words
      <4>1. Accessible(Touched, 4) /\ instr.opCode \in {"LWL", "LWR"}
        BY <2>2 DEF LoadUnaligned
      <4>2. Touched \in Nat /\ byte \in 0 .. 3 /\ Rt \in Words /\ loadValue \in Words
        BY <1>1, AddressIs DEF Inv, TypeOK
      <4>3. ReadMem(Touched, 4) \in Words /\ Previous \in Words
        BY <4>1, <4>2, ReadIs DEF Inv, Previous
      <4> QED BY <3>1, <4>1, <4>2, <4>3, MergedWord
    <3> QED BY <3>2, <3>3, <3>4
  <2> QED BY <2>1, <2>2
<1>5. PICK v \in Words : Retire(regs, instr.rt, v, pcAfter0) /\ (current.rt # 0 => v = Architecture!Loaded)
  BY <1>4
<1>6. Architecture!Advance /\ DelayedLoad(regs, instr.rt, v)
  BY <1>5, AdvanceIs
<1>7. Architecture!Put(current.rt, v)
  BY <1>2, <1>6, LoadedIs
<1>8. Architecture!Put(current.rt, Architecture!Loaded)
  BY <1>5, <1>7 DEF Architecture!Put
<1>9. Architecture!Running /\ current.op \in Architecture!Loads
  BY <1>1, <1>2, FetchedIs DEF Architecture!Loads
<1> QED BY <1>1, <1>3, <1>6, <1>8, <1>9, FetchedIs DEF Architecture!Load

\* A store writes the bytes that the architecture says, and leaves the others.
LEMMA StoreIs ==
  ASSUME Inv, Obeys(current), StoreAligned \/ StoreUnaligned
  PROVE  Architecture!Store
<1>1. /\ Fetches /\ UNCHANGED <<hi, lo>> /\ Retire(regs, 0, 0, pcAfter0)
      /\ instr.opCode \in {"SB", "SH", "SW", "SWL", "SWR"}
      /\ instr.opCode \in Aligned \cup Unaligned
  BY DEF StoreAligned, StoreUnaligned, Aligned, Unaligned, hilo
<1>2. /\ Architecture!Address = addr0 /\ addr0 \in Nat /\ current.op = instr.opCode
      /\ Rt = regs[current.rt] /\ Rt \in Words /\ byte = addr0 % 4 /\ byte \in 0 .. 3
      /\ Touched = (IF instr.opCode \in Unaligned THEN addr0 - (addr0 % 4) ELSE addr0)
  BY <1>1, AccessIs, AddressIs DEF Inv
<1>3. PICK r \in Words : r = Rt /\ r = AfterLoad[current.rt]
  <2>1. current.op \notin {"SYSCALL", "BREAK"} \cup ((Aligned \cup Unaligned) \ Stores)
    BY <1>1, <1>2 DEF Stores
  <2> QED BY <1>1, <1>2, <2>1, UsedIs
<1>4. PICK a \in Nat, j \in 0 .. 3 : a = addr0 /\ j = byte /\ j = a % 4 /\ a - j \in Nat
  <2>1. PICK a \in Nat : a = addr0
    BY <1>2
  <2>2. a - (a % 4) \in Nat
    OBVIOUS
  <2> QED BY <1>2, <2>1, <2>2
<1>5. Architecture!Offset = j /\ Architecture!Data = DOMAIN mem
  BY <1>2, <1>4 DEF Architecture!Offset, Architecture!Data
<1>6. Architecture!Advance /\ AfterLoad' = AfterLoad
  BY <1>1, AdvanceIs, PendingDone
<1>7. Architecture!Running /\ Architecture!Fetched = current /\ current.op \in Architecture!Stores
  BY <1>1, <1>2, FetchedIs DEF Architecture!Stores
<1>8. DOMAIN mem \subseteq Nat
  BY WordIn DEF Inv
<1> DEFINE stored == [b \in DOMAIN mem |->
             CASE current.op = "SWL" /\ b \in a - j .. a -> ByteOf(r, b - a + 3)
               [] current.op = "SWR" /\ b \in a .. a - j + 3 -> ByteOf(r, b - a)
               [] current.op \in {"SB", "SH", "SW"} /\ b \in a .. a + Architecture!Width - 1 -> ByteOf(r, b - a)
               [] OTHER -> mem[b]]
<1>9. CASE StoreAligned
  <2>1. Accessible(a, Size) /\ WriteMem(a, Size, r) /\ instr.opCode \in {"SB", "SH", "SW"}
    BY <1>3, <1>4, <1>9 DEF StoreAligned
  <2>2. Architecture!Width = Size
    BY <1>2, <2>1, FetchedIs DEF Architecture!Width, Size
  <2>3. mem' = stored
    BY <1>2, <2>1, <2>2 DEF WriteMem
  <2>4. Architecture!Reachable
    BY <1>2, <1>4, <2>1, <2>2 DEF Accessible, Architecture!Reachable, Architecture!Data
  <2> QED BY <1>1, <1>2, <1>3, <1>4, <1>5, <1>6, <1>7, <2>3, <2>4, SameWords DEF Architecture!Store
<1>10. CASE StoreUnaligned
  <2>1. PICK t \in Nat : t = Touched /\ t = a - j /\ Accessible(t, 4) /\ instr.opCode \in {"SWL", "SWR"}
    BY <1>2, <1>4, <1>10 DEF StoreUnaligned, Unaligned
  <2>2. PICK w \in Words : w = ReadMem(t, 4) /\ \A k \in 0 .. 3 : mem[t + k] = ByteOf(w, k)
    BY <2>1, ReadIs DEF Inv
  <2>3. Architecture!Reachable
    <3>1. a \in DOMAIN mem
      BY <1>4, <2>1, WordIn DEF Inv, Accessible
    <3>2. Architecture!Width = 1 /\ a % 1 = 0
      BY <1>2, <2>1, FetchedIs DEF Architecture!Width
    <3> QED BY <1>2, <1>4, <3>1, <3>2 DEF Architecture!Reachable, Architecture!Data
  <2>4. CASE instr.opCode = "SWL"
    <3>1. PICK i \in 0 .. 3 : i = 3 - j /\ 4 - i = j + 1
      OBVIOUS
    <3>2. PICK m : m = w - Lower(w, 4 - i) + r \div Bytes(i)
      OBVIOUS
    <3>3. WriteMem(t, 4, m)
      BY <1>3, <1>4, <1>10, <2>1, <2>2, <2>4, <3>1, <3>2 DEF StoreUnaligned
    <3>4. \A k \in 0 .. 3 : ByteOf(m, k) = IF k + i <= 3 THEN ByteOf(r, k + i) ELSE ByteOf(w, k)
      BY <3>2, MergeBelow
    <3>5. \A b \in DOMAIN mem : mem'[b] = stored[b]
      <4> SUFFICES ASSUME NEW b \in DOMAIN mem PROVE mem'[b] = stored[b]
        OBVIOUS
      <4>1. b \in Nat /\ mem'[b] = IF b \in t .. t + 4 - 1 THEN ByteOf(m, b - t) ELSE mem[b]
        BY <1>8, <3>3 DEF WriteMem
      <4>2. stored[b] = IF b \in a - j .. a THEN ByteOf(r, b - a + 3) ELSE mem[b]
        BY <1>2, <2>4
      <4> HIDE DEF stored
      <4>3. CASE b \in t .. t + 4 - 1
        <5>1. PICK k \in 0 .. 3 : k = b - t /\ b = t + k
          BY <2>1, <4>1, <4>3
        <5>2. CASE k + i <= 3
          <6>1. b \in a - j .. a /\ k + i = b - a + 3
            BY <2>1, <3>1, <4>1, <5>1, <5>2
          <6> QED BY <3>4, <4>1, <4>2, <4>3, <5>1, <5>2, <6>1
        <5>3. CASE ~(k + i <= 3)
          <6>1. b \notin a - j .. a
            BY <2>1, <3>1, <4>1, <5>1, <5>3
          <6> QED BY <2>2, <3>4, <4>1, <4>2, <4>3, <5>1, <5>3, <6>1
        <5> QED BY <5>2, <5>3
      <4>4. CASE b \notin t .. t + 4 - 1
        <5>1. b \notin a - j .. a
          BY <2>1, <4>1, <4>4
        <5> QED BY <4>1, <4>2, <4>4, <5>1
      <4> QED BY <4>3, <4>4
    <3>6. mem' = stored
      <4>1. mem' = [b \in DOMAIN mem |-> IF b \in t .. t + 4 - 1 THEN ByteOf(m, b - t) ELSE mem[b]]
        BY <3>3 DEF WriteMem
      <4> QED BY <3>5, <4>1
    <3> QED BY <1>1, <1>2, <1>3, <1>4, <1>5, <1>6, <1>7, <2>3, <3>6, SameWords DEF Architecture!Store
  <2>5. CASE instr.opCode = "SWR"
    <3>2. PICK m : m = Lower(w, j) + Word(r * Bytes(j))
      OBVIOUS
    <3>3. WriteMem(t, 4, m)
      BY <1>3, <1>4, <1>10, <2>1, <2>2, <2>5, <3>2 DEF StoreUnaligned
    <3>4. \A k \in 0 .. 3 : ByteOf(m, k) = IF k >= j THEN ByteOf(r, k - j) ELSE ByteOf(w, k)
      BY <3>2, MergeAbove
    <3>5. \A b \in DOMAIN mem : mem'[b] = stored[b]
      <4> SUFFICES ASSUME NEW b \in DOMAIN mem PROVE mem'[b] = stored[b]
        OBVIOUS
      <4>1. b \in Nat /\ mem'[b] = IF b \in t .. t + 4 - 1 THEN ByteOf(m, b - t) ELSE mem[b]
        BY <1>8, <3>3 DEF WriteMem
      <4>2. stored[b] = IF b \in a .. a - j + 3 THEN ByteOf(r, b - a) ELSE mem[b]
        BY <1>2, <2>5
      <4> HIDE DEF stored
      <4>3. CASE b \in t .. t + 4 - 1
        <5>1. PICK k \in 0 .. 3 : k = b - t /\ b = t + k
          BY <2>1, <4>1, <4>3
        <5>2. CASE k >= j
          <6>1. b \in a .. a - j + 3 /\ k - j = b - a
            BY <2>1, <4>1, <5>1, <5>2
          <6> QED BY <3>4, <4>1, <4>2, <4>3, <5>1, <5>2, <6>1
        <5>3. CASE ~(k >= j)
          <6>1. b \notin a .. a - j + 3
            BY <2>1, <4>1, <5>1, <5>3
          <6> QED BY <2>2, <3>4, <4>1, <4>2, <4>3, <5>1, <5>3, <6>1
        <5> QED BY <5>2, <5>3
      <4>4. CASE b \notin t .. t + 4 - 1
        <5>1. b \notin a .. a - j + 3
          BY <2>1, <4>1, <4>4
        <5> QED BY <4>1, <4>2, <4>4, <5>1
      <4> QED BY <4>3, <4>4
    <3>6. mem' = stored
      <4>1. mem' = [b \in DOMAIN mem |-> IF b \in t .. t + 4 - 1 THEN ByteOf(m, b - t) ELSE mem[b]]
        BY <3>3 DEF WriteMem
      <4> QED BY <3>5, <4>1
    <3> QED BY <1>1, <1>2, <1>3, <1>4, <1>5, <1>6, <1>7, <2>3, <3>6, SameWords DEF Architecture!Store
  <2> QED BY <2>1, <2>4, <2>5
<1> QED BY <1>9, <1>10

\* The system calls.
LEMMA SyscallIs ==
  ASSUME Inv, Obeys(current), Halt \/ Add
  PROVE  Architecture!Syscall
<1>1. Fetches /\ instr.opCode = "SYSCALL"
  BY DEF Halt, Add
<1>2. current.op = "SYSCALL" /\ Architecture!Running /\ Architecture!Fetched = current
  BY <1>1, InstructionIs, FetchedIs DEF Inv
<1>3. CASE Halt
  <2>1. AfterLoad[2] = SC_Halt /\ RaiseException("halted")
    BY <1>3 DEF Halt
  <2>2. AfterLoad' = AfterLoad /\ status' = "halted" /\ UNCHANGED <<program, hi, lo, pc, nextPC, mem>>
    BY <2>1, PendingDone DEF RaiseException
  <2> QED BY <1>2, <2>1, <2>2, SameWords DEF Architecture!Syscall
<1>4. CASE Add
  <2>1. /\ AfterLoad[2] = SC_Add /\ loadReg' = 0 /\ loadValue' = 0
        /\ pc' = Word(pc + 4) /\ nextPC' = Word(pc + 8) /\ UNCHANGED <<program, mem, hi, lo, status>>
    BY <1>4 DEF Add
  <2>2. AfterLoad \in [Registers -> Words] /\ AfterLoad[0] = 0 /\ 0 \in Registers /\ 2 \in Registers
    BY AfterLoadIs, RegisterFacts
  <2>3. PICK s : s = Word(AfterLoad[4] + AfterLoad[5])
    OBVIOUS
  <2>4. Architecture!Put(2, s)
    <3>1. regs' = [AfterLoad EXCEPT ![2] = s]
      BY <1>4, <2>3 DEF Add
    <3>2. AfterLoad' = [regs' EXCEPT ![loadReg'] = loadValue', ![0] = 0]
      BY DEF AfterLoad
    <3>3. PICK f \in [Registers -> Words] : f = AfterLoad /\ f[0] = 0
      BY <2>2
    <3>4. [[f EXCEPT ![2] = s] EXCEPT ![0] = 0, ![0] = 0] = [f EXCEPT ![2] = IF 2 = 0 THEN 0 ELSE s]
      BY <2>2, <3>3
    <3> QED BY <2>1, <3>1, <3>2, <3>3, <3>4 DEF Architecture!Put
  <2>5. nextPC = Word(pc + 4)
    BY <1>2 DEF Obeys
  <2>6. Word(nextPC + 4) = Word(pc + 8)
    <3>1. pc \in Words
      BY DEF Inv, TypeOK
    <3>2. PICK x \in Int : x = pc + 4 /\ x + 4 = pc + 8
      BY <3>1, WordsAre
    <3>3. Word(Word(x) + 4) = Word(x + 4)
      BY WordAdds
    <3> QED BY <2>5, <3>2, <3>3
  <2>7. Architecture!Advance
    BY <2>1, <2>5, <2>6, SameWords DEF Architecture!Advance
  <2> QED BY <1>2, <2>1, <2>3, <2>4, <2>7, SameWords DEF Architecture!Syscall
<1> QED BY <1>3, <1>4

\* What an interrupt does between two instructions is not seen.
LEMMA CheckIs ==
  ASSUME Inv, CheckIfDue
  PROVE  UNCHANGED Architecture!vars
<1>1. DelayedLoad(regs, 0, 0) /\ UNCHANGED <<program, mem, hi, lo, pc, nextPC, status>>
  BY DEF CheckIfDue
<1>2. AfterLoad' = AfterLoad
  BY <1>1, PendingDone
<1> QED BY <1>1, <1>2 DEF Architecture!vars

\* The simulator runs every program that is disciplined as the architecture says,
\* whatever its instructions, its data and the width of a byte, and whenever
\* interrupts come (mipssim.cc:125, DelayedLoad at mipssim.cc:700).
THEOREM ProcessorImplements == Spec /\ []Disciplined => Implements
<1>1. ASSUME Init PROVE Architecture!Init
  <2>1. AfterLoad = [r \in Registers |-> 0]
    BY <1>1, RegisterFacts DEF Init, AfterLoad
  <2> QED BY <1>1, <2>1 DEF Init, Architecture!Init
<1>2. ASSUME Inv, Disciplined, [Next]_vars PROVE [Architecture!Next]_(Architecture!vars)
  <2>1. Fetches => Obeys(current)
    BY <1>2 DEF Disciplined
  <2>2. CASE Compute
    <3>1. Obeys(current)
      BY <2>1, <2>2 DEF Compute
    <3> QED BY <1>2, <2>2, <3>1, ComputeIs DEF Architecture!Next
  <2>3. CASE OverflowException \/ IllegalInstruction \/ AddressError \/ FetchError \/ HostTrap
    BY <1>2, <2>1, <2>3, ExceptionIs DEF Architecture!Next
  <2>4. CASE MoveToHiLo
    <3>1. Obeys(current)
      BY <2>1, <2>4 DEF MoveToHiLo
    <3> QED BY <1>2, <2>4, <3>1, MoveIs DEF Architecture!Next
  <2>5. CASE Multiply
    <3>1. Obeys(current)
      BY <2>1, <2>5 DEF Multiply
    <3> QED BY <1>2, <2>5, <3>1, MultiplyIs DEF Architecture!Next
  <2>6. CASE Divide
    <3>1. Obeys(current)
      BY <2>1, <2>6 DEF Divide
    <3> QED BY <1>2, <2>6, <3>1, DivideIs DEF Architecture!Next
  <2>7. CASE Branch
    <3>1. Obeys(current)
      BY <2>1, <2>7 DEF Branch
    <3> QED BY <1>2, <2>7, <3>1, BranchIs DEF Architecture!Next
  <2>8. CASE Jump
    <3>1. Obeys(current)
      BY <2>1, <2>8 DEF Jump
    <3> QED BY <1>2, <2>8, <3>1, JumpIs DEF Architecture!Next
  <2>9. CASE LoadAligned \/ LoadUnaligned
    <3>1. Obeys(current)
      BY <2>1, <2>9 DEF LoadAligned, LoadUnaligned
    <3> QED BY <1>2, <2>9, <3>1, LoadIs DEF Architecture!Next
  <2>10. CASE StoreAligned \/ StoreUnaligned
    <3>1. Obeys(current)
      BY <2>1, <2>10 DEF StoreAligned, StoreUnaligned
    <3> QED BY <1>2, <2>10, <3>1, StoreIs DEF Architecture!Next
  <2>11. CASE Halt \/ Add
    <3>1. Obeys(current)
      BY <2>1, <2>11 DEF Halt, Add
    <3> QED BY <1>2, <2>11, <3>1, SyscallIs DEF Architecture!Next
  <2>12. CASE CheckIfDue
    BY <1>2, <2>12, CheckIs
  <2>13. CASE UNCHANGED vars
    BY <2>13 DEF vars, Architecture!vars, AfterLoad
  <2> QED BY <1>2, <2>2, <2>3, <2>4, <2>5, <2>6, <2>7, <2>8, <2>9, <2>10, <2>11, <2>12, <2>13
          DEF Next, OneInstruction
<1> QED BY <1>1, <1>2, TypesKept, PTL DEF Spec, Implements, Architecture!Spec
===============================================================================
