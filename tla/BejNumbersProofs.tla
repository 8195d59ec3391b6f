-------------------------- MODULE BejNumbersProofs --------------------------
(***************************************************************************)
(* Proofs about numbers of any width: what is written for a number is read *)
(* as that number, in exactly the bytes that were measured for it.         *)
(***************************************************************************)
EXTENDS BejNumberRoundTrip, BejInduction

-----------------------------------------------------------------------------
(* Division.                                                                 *)

LEMMA DivMod ==
    ASSUME NEW a \in Int, NEW b \in Nat \ {0}
    PROVE  /\ a \div b \in Int
           /\ a % b \in 0 .. b - 1
           /\ a = b * (a \div b) + (a % b)
OBVIOUS

LEMMA DivUnique ==
    ASSUME NEW a \in Int, NEW b \in Nat \ {0}, NEW q \in Int, NEW r \in 0 .. b - 1,
           a = b * q + r
    PROVE  a \div b = q /\ a % b = r
BY DivMod

\* Dividing by a product is dividing twice.
LEMMA DivProduct ==
    ASSUME NEW a \in Int, NEW b \in Nat \ {0}, NEW c \in Nat \ {0}
    PROVE  /\ a \div (b * c) = (a \div b) \div c
           /\ a % (b * c) = (a % b) + b * ((a \div b) % c)
<1> DEFINE q == a \div b
           r == a % b
           p == q \div c
           s == q % c
<1>1. q \in Int /\ r \in 0 .. b - 1 /\ a = b * q + r
    BY DivMod
<1>2. p \in Int /\ s \in 0 .. c - 1 /\ q = c * p + s
    BY <1>1, DivMod
<1> HIDE DEF q, r, p, s
<1>3. b * c \in Nat \ {0}
    OBVIOUS
<1>4. b * s + r \in 0 .. b * c - 1
    <2>1. b * s \in Int /\ b * s <= b * (c - 1) /\ 0 <= b * s
        BY <1>2
    <2>2. b * (c - 1) = b * c - b
        OBVIOUS
    <2> QED BY <1>1, <2>1, <2>2
<1>5. a = (b * c) * p + (b * s + r)
    <2>1. b * q = b * (c * p) + b * s
        BY <1>1, <1>2
    <2>2. b * (c * p) = (b * c) * p
        BY <1>2
    <2> QED BY <1>1, <1>2, <2>1, <2>2
<1>6. a \div (b * c) = p /\ a % (b * c) = b * s + r
    BY <1>2, <1>3, <1>4, <1>5, DivUnique
<1> QED BY <1>1, <1>2, <1>6 DEF q, r, p, s

-----------------------------------------------------------------------------
(* Powers.                                                                   *)

LEMMA PowerRun ==
    ASSUME NEW base \in Nat
    PROVE  \E f \in [Nat -> Nat] :
              /\ f[0] = 1
              /\ \A n \in Nat : f[n + 1] = base * f[n]
              /\ \A n \in Nat : Power(base, n) = f[n]
<1> DEFINE step == [n \in Nat |-> [x \in Nat |-> base * x]]
           Eq(f) == f = [k \in Nat |-> IF k = 0 THEN 1 ELSE base * f[k - 1]]
<1>1. step \in [Nat -> [Nat -> Nat]]
    OBVIOUS
<1>2. PICK f : IsRun(f, Nat, 1, step)
    <2> HIDE DEF step
    <2> QED BY <1>1, Recursion
<1>3. Eq(f)
    <2>1. ASSUME NEW k \in Nat PROVE f[k] = IF k = 0 THEN 1 ELSE base * f[k - 1]
        <3>1. CASE k = 0
            BY <1>2, <3>1 DEF IsRun
        <3>2. CASE k # 0
            <4>1. k - 1 \in Nat /\ k - 1 + 1 = k
                BY <3>2
            <4>2. f[k] = step[k - 1][f[k - 1]] /\ f[k - 1] \in Nat
                BY <1>2, <4>1 DEF IsRun
            <4> QED BY <3>2, <4>1, <4>2
        <3> QED BY <3>1, <3>2
    <2> QED BY <1>2, <2>1 DEF IsRun
<1>4. PICK g : g = (CHOOSE h : Eq(h))
    OBVIOUS
<1>5. Eq(g)
    <2> HIDE DEF Eq
    <2> QED BY <1>3, <1>4
<1>6. g[0] = 1 /\ \A n \in Nat : g[n + 1] = base * g[n]
    BY <1>5
<1>7. \A n \in Nat : g[n] \in Nat
    <2> DEFINE T == {n \in Nat : g[n] \in Nat}
    <2>1. 0 \in T /\ \A n \in T : n + 1 \in T
        BY <1>6
    <2>2. T = Nat
        <3> HIDE DEF T
        <3>1. T \in SUBSET Nat
            BY DEF T
        <3> QED BY <2>1, <3>1, Induction
    <2> QED BY <2>2
<1>8. g \in [Nat -> Nat]
    BY <1>5, <1>7
<1>9. \A n \in Nat : Power(base, n) = g[n]
    BY <1>4 DEF Power
<1> QED BY <1>6, <1>8, <1>9

LEMMA PowerSteps ==
    ASSUME NEW base \in Nat
    PROVE  /\ \A n \in Nat : Power(base, n) \in Nat
           /\ Power(base, 0) = 1
           /\ \A n \in Nat : Power(base, n + 1) = base * Power(base, n)
<1>1. PICK f \in [Nat -> Nat] :
         /\ f[0] = 1
         /\ \A n \in Nat : f[n + 1] = base * f[n]
         /\ \A n \in Nat : Power(base, n) = f[n]
    BY PowerRun
<1> QED BY <1>1

LEMMA PowerPositive ==
    ASSUME NEW base \in Nat \ {0}
    PROVE  \A n \in Nat : Power(base, n) \in Nat \ {0}
<1> DEFINE T == {n \in Nat : Power(base, n) \in Nat \ {0}}
<1>1. 0 \in T
    BY PowerSteps
<1>2. ASSUME NEW n \in T PROVE n + 1 \in T
    <2>1. n \in Nat /\ Power(base, n) \in Nat \ {0} /\ Power(base, n + 1) = base * Power(base, n)
        BY PowerSteps
    <2>2. base * Power(base, n) \in Nat \ {0}
        BY <2>1
    <2> QED BY <2>1, <2>2
<1>3. T = Nat
    <2> HIDE DEF T
    <2>1. T \in SUBSET Nat
        BY DEF T
    <2> QED BY <1>1, <1>2, <2>1, Induction
<1> QED BY <1>3

LEMMA PowerAdd ==
    ASSUME NEW base \in Nat \ {0}, NEW m \in Nat, NEW k \in Nat
    PROVE  Power(base, m + k) = Power(base, m) * Power(base, k)
<1> DEFINE T == {n \in Nat : Power(base, m + n) = Power(base, m) * Power(base, n)}
<1>1. 0 \in T
    BY PowerSteps
<1>2. ASSUME NEW n \in T PROVE n + 1 \in T
    <2>1. n \in Nat /\ m + n \in Nat /\ m + (n + 1) = (m + n) + 1
        OBVIOUS
    <2>2. /\ Power(base, m) \in Int /\ Power(base, n) \in Int
          /\ Power(base, n + 1) = base * Power(base, n)
          /\ Power(base, (m + n) + 1) = base * Power(base, m + n)
        BY <2>1, PowerSteps
    <2>3. Power(base, m + n) = Power(base, m) * Power(base, n)
        OBVIOUS
    <2>4. base * (Power(base, m) * Power(base, n)) = Power(base, m) * (base * Power(base, n))
        BY <2>2
    <2> QED BY <2>1, <2>2, <2>3, <2>4
<1>3. T = Nat
    <2> HIDE DEF T
    <2>1. T \in SUBSET Nat
        BY DEF T
    <2> QED BY <1>1, <1>2, <2>1, Induction
<1> QED BY <1>3

LEMMA PowerMonotone ==
    ASSUME NEW base \in Nat \ {0}, NEW m \in Nat, NEW n \in Nat, m <= n
    PROVE  Power(base, m) <= Power(base, n)
<1>1. n - m \in Nat /\ m + (n - m) = n
    OBVIOUS
<1>2. Power(base, n) = Power(base, m) * Power(base, n - m)
    BY <1>1, PowerAdd
<1>3. Power(base, m) \in Nat \ {0} /\ Power(base, n - m) \in Nat \ {0}
    BY <1>1, PowerPositive
<1> QED BY <1>2, <1>3

LEMMA PowerExceeds ==
    ASSUME NEW base \in Nat \ {0, 1}
    PROVE  \A n \in Nat : n < Power(base, n)
<1> DEFINE T == {n \in Nat : n < Power(base, n)}
<1>1. 0 \in T
    BY PowerSteps
<1>2. ASSUME NEW n \in T PROVE n + 1 \in T
    <2>1. n \in Nat /\ Power(base, n) \in Nat /\ Power(base, n + 1) = base * Power(base, n)
        BY PowerSteps
    <2>2. base * Power(base, n) >= 2 * Power(base, n)
        BY <2>1
    <2> QED BY <2>1, <2>2
<1>3. T = Nat
    <2> HIDE DEF T
    <2>1. T \in SUBSET Nat
        BY DEF T
    <2> QED BY <1>1, <1>2, <2>1, Induction
<1> QED BY <1>3

\* The powers of a byte.
LEMMA Bytes ==
    /\ Byte \in Nat \ {0, 1} /\ Byte \div 2 \in Nat \ {0} /\ 2 * (Byte \div 2) = Byte
    /\ IntBytes \in Nat \ {0} /\ IntBytes + 1 < Byte
    /\ \A n \in Nat : Power(Byte, n) \in Nat \ {0}
    /\ Power(Byte, 0) = 1 /\ Power(Byte, 1) = Byte
    /\ \A n \in Nat : Power(Byte, n + 1) = Byte * Power(Byte, n)
    /\ Word = Power(Byte, IntBytes)
<1>1. Byte \in Nat \ {0, 1} /\ Byte \div 2 \in Nat \ {0} /\ 2 * (Byte \div 2) = Byte
    BY WidthAssumption
<1>2. Power(Byte, 0) = 1 /\ \A n \in Nat : Power(Byte, n + 1) = Byte * Power(Byte, n)
    BY <1>1, PowerSteps
<1>3. Power(Byte, 1) = Byte
    <2>1. Power(Byte, 0 + 1) = Byte * Power(Byte, 0)
        BY <1>2
    <2> QED BY <1>1, <1>2, <2>1
<1> QED BY <1>1, <1>2, <1>3, PowerPositive, WidthAssumption DEF Word

-----------------------------------------------------------------------------
(* Unsigned numbers.                                                         *)

LEMMA Reader ==
    ASSUME NEW size \in Nat, NEW s, \A i \in 1 .. size : s[i] \in Int
    PROVE  \E f \in [0 .. size -> Int] :
              /\ f[0] = 0
              /\ \A n \in 1 .. size : f[n] = f[n - 1] + s[n] * Power(Byte, n - 1)
              /\ bejGetUnsignedInteger(s, size) = f[size]
<1> DEFINE digit == [n \in Nat |-> IF n + 1 \in 1 .. size THEN s[n + 1] * Power(Byte, n) ELSE 0]
           step == [n \in Nat |-> [x \in Int |-> x + digit[n]]]
           Eq(f) == f = [n \in 0 .. size |->
                           IF n = 0 THEN 0 ELSE f[n - 1] + s[n] * Power(Byte, n - 1)]
<1>1. \A n \in Nat : digit[n] \in Int
    <2>1. \A n \in Nat : Power(Byte, n) \in Int
        BY Bytes
    <2> QED BY <2>1
<1>2. step \in [Nat -> [Int -> Int]]
    <2> HIDE DEF digit
    <2> QED BY <1>1
<1>3. PICK f : IsRun(f, Int, 0, step)
    <2>1. 0 \in Int
        OBVIOUS
    <2> HIDE DEF step
    <2> QED BY <1>2, <2>1, Recursion
<1>4. \A n \in Nat : f[n] \in Int
    BY <1>3 DEF IsRun
<1>5. ASSUME NEW n \in 1 .. size
      PROVE  f[n] = f[n - 1] + s[n] * Power(Byte, n - 1)
    <2>1. n - 1 \in Nat /\ n - 1 + 1 = n /\ n \in Nat
        OBVIOUS
    <2>2. f[n] = step[n - 1][f[n - 1]] /\ f[n - 1] \in Int
        BY <1>3, <1>4, <2>1 DEF IsRun
    <2>3. digit[n - 1] = s[n] * Power(Byte, n - 1)
        BY <2>1
    <2>4. step[n - 1][f[n - 1]] = f[n - 1] + digit[n - 1]
        <3> HIDE DEF digit
        <3> QED BY <2>1, <2>2
    <2> QED BY <2>2, <2>3, <2>4
<1>6. f[0] = 0
    BY <1>3 DEF IsRun
<1>7. Eq([n \in 0 .. size |-> f[n]])
    <2> DEFINE h == [n \in 0 .. size |-> f[n]]
    <2>1. ASSUME NEW n \in 0 .. size
          PROVE  h[n] = IF n = 0 THEN 0 ELSE h[n - 1] + s[n] * Power(Byte, n - 1)
        <3>1. CASE n = 0
            BY <1>6, <3>1
        <3>2. CASE n # 0
            <4>1. n \in 1 .. size /\ n - 1 \in 0 .. size
                BY <3>2
            <4> QED BY <1>5, <3>2, <4>1
        <3> QED BY <3>1, <3>2
    <2> QED BY <2>1
<1>8. PICK g : g = (CHOOSE h : Eq(h))
    OBVIOUS
<1>9. Eq(g)
    <2> HIDE DEF Eq
    <2> QED BY <1>7, <1>8
<1>10. bejGetUnsignedInteger(s, size) = g[size]
    BY <1>8 DEF bejGetUnsignedInteger
<1>11. g[0] = 0 /\ \A n \in 1 .. size : g[n] = g[n - 1] + s[n] * Power(Byte, n - 1)
    <2>1. ASSUME NEW n \in 0 .. size
          PROVE  g[n] = IF n = 0 THEN 0 ELSE g[n - 1] + s[n] * Power(Byte, n - 1)
        BY <1>9
    <2>2. 0 \in 0 .. size /\ \A n \in 1 .. size : n \in 0 .. size /\ n # 0
        OBVIOUS
    <2> QED BY <2>1, <2>2
<1>12. \A n \in 0 .. size : g[n] \in Int
    <2> DEFINE T == {n \in Nat : n <= size => g[n] \in Int}
    <2>1. 0 \in T
        BY <1>11
    <2>2. ASSUME NEW n \in T PROVE n + 1 \in T
        <3> SUFFICES ASSUME n + 1 <= size PROVE g[n + 1] \in Int
            OBVIOUS
        <3>1. n \in Nat /\ n + 1 \in 1 .. size /\ n + 1 - 1 = n /\ g[n] \in Int
            OBVIOUS
        <3>2. g[n + 1] = g[n] + s[n + 1] * Power(Byte, n)
            BY <1>11, <3>1
        <3>3. s[n + 1] \in Int /\ Power(Byte, n) \in Int
            BY <3>1, Bytes
        <3> QED BY <3>1, <3>2, <3>3
    <2>3. T = Nat
        <3> HIDE DEF T
        <3>1. T \in SUBSET Nat
            BY DEF T
        <3> QED BY <2>1, <2>2, <3>1, Induction
    <2> QED BY <2>3
<1>13. g \in [0 .. size -> Int]
    BY <1>9, <1>12
<1> QED BY <1>10, <1>11, <1>13

\* Reading the lowest bytes of a number gives the number modulo what they hold.
LEMMA ReadBytes ==
    ASSUME NEW v \in Int, NEW size \in Nat, NEW s,
           \A i \in 1 .. size : s[i] = ByteAt(v, i - 1)
    PROVE  bejGetUnsignedInteger(s, size) = v % Power(Byte, size)
<1>1. ASSUME NEW n \in Nat PROVE ByteAt(v, n) \in Int
    <2>1. Power(Byte, n) \in Nat \ {0} /\ Byte \in Nat \ {0}
        BY Bytes
    <2>2. v \div Power(Byte, n) \in Int
        BY <2>1, DivMod
    <2>3. (v \div Power(Byte, n)) % Byte \in 0 .. Byte - 1
        BY <2>1, <2>2, DivMod
    <2> QED BY <2>1, <2>3 DEF ByteAt
<1>2. \A i \in 1 .. size : s[i] \in Int
    BY <1>1
<1>3. PICK f \in [0 .. size -> Int] :
         /\ f[0] = 0
         /\ \A n \in 1 .. size : f[n] = f[n - 1] + s[n] * Power(Byte, n - 1)
         /\ bejGetUnsignedInteger(s, size) = f[size]
    BY <1>2, Reader
<1> DEFINE T == {n \in Nat : n <= size => f[n] = v % Power(Byte, n)}
<1>4. 0 \in T
    <2>1. v % 1 = 0
        BY DivMod
    <2> QED BY <1>3, <2>1, Bytes
<1>5. ASSUME NEW n \in T PROVE n + 1 \in T
    <2> SUFFICES ASSUME n + 1 <= size PROVE f[n + 1] = v % Power(Byte, n + 1)
        OBVIOUS
    <2>1. n \in Nat /\ n + 1 \in 1 .. size /\ n + 1 - 1 = n /\ f[n] = v % Power(Byte, n)
        OBVIOUS
    <2>2. f[n + 1] = f[n] + ByteAt(v, n) * Power(Byte, n)
        BY <1>3, <2>1
    <2> DEFINE P == Power(Byte, n)
    <2>3. P \in Nat \ {0} /\ Byte \in Nat \ {0} /\ Power(Byte, n + 1) = P * Byte
        BY <2>1, Bytes
    <2> HIDE DEF P
    <2>4. v % (P * Byte) = (v % P) + P * ((v \div P) % Byte)
        BY <2>3, DivProduct
    <2>5. ByteAt(v, n) = (v \div P) % Byte /\ ByteAt(v, n) \in Int
        BY <1>1, <2>1 DEF ByteAt, P
    <2>6. ByteAt(v, n) * P = P * ByteAt(v, n)
        BY <2>3, <2>5
    <2> QED BY <2>1, <2>2, <2>3, <2>4, <2>5, <2>6 DEF P
<1>6. T = Nat
    <2> HIDE DEF T
    <2>1. T \in SUBSET Nat
        BY DEF T
    <2> QED BY <1>4, <1>5, <2>1, Induction
<1>7. size \in T
    BY <1>6
<1> QED BY <1>3, <1>7
-----------------------------------------------------------------------------
(* Strings of bytes, and nnints in them.                                     *)

Octets == 0 .. Byte - 1

LEMMA ByteAtType ==
    ASSUME NEW v \in Int, NEW n \in Nat
    PROVE  ByteAt(v, n) \in Octets
<1>1. Power(Byte, n) \in Nat \ {0} /\ Byte \in Nat \ {0}
    BY Bytes
<1>2. v \div Power(Byte, n) \in Int
    BY <1>1, DivMod
<1>3. (v \div Power(Byte, n)) % Byte \in 0 .. Byte - 1
    BY <1>1, <1>2, DivMod
<1> QED BY <1>3 DEF ByteAt, Octets

LEMMA BytesOfShape ==
    ASSUME NEW v \in Int, NEW size \in Nat
    PROVE  /\ BytesOf(v, size) \in Seq(Octets)
           /\ Len(BytesOf(v, size)) = size
           /\ \A i \in 1 .. size : BytesOf(v, size)[i] = ByteAt(v, i - 1)
<1>1. \A i \in 1 .. size : ByteAt(v, i - 1) \in Octets
    <2>1. \A i \in 1 .. size : i - 1 \in Nat
        OBVIOUS
    <2> QED BY <2>1, ByteAtType
<1> QED BY <1>1 DEF BytesOf

LEMMA AfterFirst ==
    ASSUME NEW S, NEW a \in Seq(S), NEW b \in Seq(S)
    PROVE  After(a \o b, Len(a)) = b
<1>1. /\ a \o b \in Seq(S) /\ Len(a \o b) = Len(a) + Len(b)
      /\ Len(a) \in Nat /\ Len(b) \in Nat
      /\ \A i \in 1 .. Len(b) : (a \o b)[Len(a) + i] = b[i]
    OBVIOUS
<1>2. /\ Len(SubSeq(a \o b, Len(a) + 1, Len(a) + Len(b))) = Len(b)
      /\ \A i \in 1 .. Len(b) :
            SubSeq(a \o b, Len(a) + 1, Len(a) + Len(b))[i] = (a \o b)[Len(a) + i]
      /\ SubSeq(a \o b, Len(a) + 1, Len(a) + Len(b)) \in Seq(S)
    BY <1>1
<1>3. SubSeq(a \o b, Len(a) + 1, Len(a) + Len(b)) = b
    BY <1>1, <1>2
<1> QED BY <1>1, <1>3 DEF After

\* The length of an nnint holds the number, and is one for all that fit one byte.
LEMMA NnintLength ==
    ASSUME NEW v \in Unsigned
    PROVE  /\ bejNnintLengthFieldOfUInt(v) \in 1 .. IntBytes
           /\ v < Power(Byte, bejNnintLengthFieldOfUInt(v))
           /\ v < Byte => bejNnintLengthFieldOfUInt(v) = 1
<1> DEFINE fits(k) == k = IntBytes \/ v < Power(Byte, k)
           T == {k \in 1 .. IntBytes : fits(k)}
           length(k) == k \in 1 .. IntBytes /\ fits(k) /\ (k = 1 \/ ~(v < Power(Byte, k - 1)))
<1>0. v \in Nat /\ v < Power(Byte, IntBytes) /\ IntBytes \in Nat \ {0}
    <2>1. Word \in Nat
        BY Bytes
    <2> QED BY <2>1, Bytes DEF Unsigned
<1>1. IntBytes \in T /\ T \in SUBSET Nat
    BY <1>0
<1>2. PICK x \in T : \A y \in T : x <= y
    <2> HIDE DEF T
    <2> QED BY <1>1, LeastNatural
<1>3. length(x)
    <2>1. ASSUME x # 1 PROVE ~(v < Power(Byte, x - 1))
        <3>1. x - 1 \in 1 .. IntBytes /\ ~(x <= x - 1)
            BY <1>0, <2>1
        <3>2. ~fits(x - 1)
            BY <1>2, <3>1
        <3> QED BY <3>2
    <2> QED BY <2>1
<1>4. length(bejNnintLengthFieldOfUInt(v))
    <2>1. \E k \in 1 .. IntBytes :
             /\ k = IntBytes \/ v < Power(Byte, k)
             /\ k = 1 \/ ~(v < Power(Byte, k - 1))
        BY <1>3
    <2> QED BY <2>1 DEF bejNnintLengthFieldOfUInt
<1> DEFINE n == bejNnintLengthFieldOfUInt(v)
<1>5. n \in 1 .. IntBytes /\ v < Power(Byte, n)
    BY <1>0, <1>4
<1>6. ASSUME v < Byte, n # 1 PROVE FALSE
    <2>1. n \in 1 .. IntBytes /\ n - 1 \in Nat \ {0} /\ ~(v < Power(Byte, n - 1))
        BY <1>0, <1>4, <1>6
    <2>2. Power(Byte, 1) <= Power(Byte, n - 1)
        <3> HIDE DEF n
        <3>1. 1 \in Nat /\ n - 1 \in Nat /\ 1 <= n - 1 /\ Byte \in Nat \ {0}
            BY <2>1, Bytes
        <3> QED BY <3>1, PowerMonotone
    <2>3. Power(Byte, 1) = Byte /\ Byte \in Nat /\ Power(Byte, n - 1) \in Nat
        <3>1. n - 1 \in Nat
            BY <2>1
        <3> HIDE DEF n
        <3> QED BY <3>1, Bytes
    <2> QED BY <1>0, <1>6, <2>1, <2>2, <2>3
<1> QED BY <1>5, <1>6

LEMMA NnintShape ==
    ASSUME NEW v \in Unsigned
    PROVE  /\ bejEncodeNnint(v) \in Seq(Octets)
           /\ bejNnintEncodingSizeOfUInt(v) \in 2 .. IntBytes + 1
           /\ Len(bejEncodeNnint(v)) = bejNnintEncodingSizeOfUInt(v)
           /\ bejEncodeNnint(v)[1] = bejNnintLengthFieldOfUInt(v)
           /\ \A i \in 1 .. bejNnintLengthFieldOfUInt(v) :
                 bejEncodeNnint(v)[i + 1] = ByteAt(v, i - 1)
<1> DEFINE n == bejNnintLengthFieldOfUInt(v)
           s == BytesOf(v, n)
<1>1. n \in 1 .. IntBytes /\ IntBytes \in Nat /\ IntBytes + 1 < Byte /\ Byte \in Nat
    BY NnintLength, Bytes
<1>2. v \in Int
    <2>1. Word \in Nat
        BY Bytes
    <2> QED BY <2>1 DEF Unsigned
<1>3. n \in Nat /\ n \in Octets
    BY <1>1 DEF Octets
<1>4. s \in Seq(Octets) /\ Len(s) = n /\ \A i \in 1 .. n : s[i] = ByteAt(v, i - 1)
    <2> HIDE DEF n
    <2> QED BY <1>2, <1>3, BytesOfShape
<1>5. bejEncodeNnint(v) = <<n>> \o s /\ bejNnintEncodingSizeOfUInt(v) = n + 1
    BY DEF bejEncodeNnint, bejNnintEncodingSizeOfUInt
<1> HIDE DEF n, s
<1>6. <<n>> \in Seq(Octets) /\ Len(<<n>>) = 1
    BY <1>3
<1>7. /\ <<n>> \o s \in Seq(Octets) /\ Len(<<n>> \o s) = n + 1
      /\ (<<n>> \o s)[1] = n /\ \A i \in 1 .. n : (<<n>> \o s)[i + 1] = s[i]
    BY <1>3, <1>4, <1>6
<1>8. n + 1 \in 2 .. IntBytes + 1
    BY <1>1
<1> QED BY <1>4, <1>5, <1>7, <1>8 DEF n

\* An nnint is read as what was written, whatever follows it.
LEMMA ReadNnint ==
    ASSUME NEW v \in Unsigned, NEW rest \in Seq(Octets)
    PROVE  /\ bejGetNnint(bejEncodeNnint(v) \o rest) = v
           /\ bejGetNnintSize(bejEncodeNnint(v) \o rest) = Len(bejEncodeNnint(v))
           /\ After(bejEncodeNnint(v) \o rest, Len(bejEncodeNnint(v))) = rest
<1> DEFINE e == bejEncodeNnint(v)
           n == bejNnintLengthFieldOfUInt(v)
           s == e \o rest
<1>1. /\ n \in 1 .. IntBytes /\ v < Power(Byte, n)
      /\ IntBytes \in Nat /\ IntBytes + 1 < Byte /\ Byte \in Nat
    BY NnintLength, Bytes
<1>2. /\ e \in Seq(Octets) /\ Len(e) = n + 1 /\ e[1] = n
      /\ \A i \in 1 .. n : e[i + 1] = ByteAt(v, i - 1)
    BY NnintShape DEF bejNnintEncodingSizeOfUInt
<1>3. v \in Nat
    <2>1. Word \in Nat
        BY Bytes
    <2> QED BY <2>1 DEF Unsigned
<1> HIDE DEF e, n
<1>4. /\ s \in Seq(Octets) /\ Len(s) = n + 1 + Len(rest) /\ s # <<>> /\ s[1] = n
      /\ \A i \in 1 .. n : s[i + 1] = ByteAt(v, i - 1)
    <2>1. /\ s \in Seq(Octets) /\ Len(s) = n + 1 + Len(rest)
          /\ \A i \in 1 .. n + 1 : s[i] = e[i]
        BY <1>1, <1>2
    <2>2. 1 \in 1 .. n + 1 /\ \A i \in 1 .. n : i + 1 \in 1 .. n + 1
        BY <1>1
    <2>3. s # <<>>
        BY <1>1, <2>1
    <2> QED BY <1>2, <2>1, <2>2, <2>3
<1> HIDE DEF s
<1>5. \A i \in 1 .. n : Tail(s)[i] = ByteAt(v, i - 1)
    <2>1. \A i \in 1 .. n : Tail(s)[i] = s[i + 1]
        BY <1>1, <1>4
    <2> QED BY <1>4, <2>1
<1>6. bejGetUnsignedInteger(Tail(s), n) = v % Power(Byte, n)
    <2>1. v \in Int /\ n \in Nat
        BY <1>1, <1>3
    <2> QED BY <1>5, <2>1, ReadBytes
<1>7. v % Power(Byte, n) = v
    <2>1. Power(Byte, n) \in Nat \ {0}
        BY <1>1, Bytes
    <2> QED BY <1>1, <1>3, <2>1
<1>8. bejGetNnint(s) = v
    BY <1>4, <1>6, <1>7 DEF bejGetNnint
<1>9. bejGetNnintSize(s) = n + 1
    <2>1. n + 1 \in 0 .. Byte - 1 /\ Byte \in Nat \ {0}
        BY <1>1
    <2>2. (n + 1) % Byte = n + 1
        BY <2>1
    <2> QED BY <1>4, <2>2 DEF bejGetNnintSize
<1>10. After(s, Len(e)) = rest
    BY <1>2, AfterFirst DEF s
<1> QED BY <1>2, <1>8, <1>9, <1>10 DEF s, e
-----------------------------------------------------------------------------
(* Signed numbers.                                                           *)

\* v is a number of n bytes in two's complement.
InBytes(v, n) == -(Power(Byte, n) \div 2) <= v /\ v < Power(Byte, n) \div 2

LEMMA Halves ==
    ASSUME NEW n \in Nat \ {0}
    PROVE  /\ Power(Byte, n) \div 2 = (Byte \div 2) * Power(Byte, n - 1)
           /\ Power(Byte, n) \div 2 \in Nat \ {0}
           /\ 2 * (Power(Byte, n) \div 2) = Power(Byte, n)
<1> DEFINE p == Power(Byte, n - 1)
           h == Byte \div 2
<1>1. /\ n - 1 \in Nat /\ n - 1 + 1 = n
      /\ p \in Nat \ {0} /\ Power(Byte, n) = Byte * p
      /\ h \in Nat \ {0} /\ 2 * h = Byte
    <2>1. n - 1 \in Nat /\ n - 1 + 1 = n
        OBVIOUS
    <2> QED BY <2>1, Bytes
<1> HIDE DEF p, h
<1>2. Byte * p = 2 * (h * p) /\ h * p \in Nat \ {0}
    BY <1>1
<1>3. (2 * (h * p)) \div 2 = h * p
    BY <1>2
<1> QED BY <1>1, <1>2, <1>3 DEF p, h

LEMMA InMoreBytes ==
    ASSUME NEW v \in Int, NEW m \in Nat \ {0}, NEW n \in Nat \ {0}, m <= n, InBytes(v, m)
    PROVE  InBytes(v, n)
<1>1. m \in Nat /\ n \in Nat /\ Byte \in Nat \ {0}
    BY Bytes
<1>2. Power(Byte, m) <= Power(Byte, n)
    BY <1>1, PowerMonotone
<1>3. /\ Power(Byte, m) \div 2 \in Nat /\ Power(Byte, n) \div 2 \in Nat
      /\ 2 * (Power(Byte, m) \div 2) = Power(Byte, m)
      /\ 2 * (Power(Byte, n) \div 2) = Power(Byte, n)
    BY Halves
<1>4. Power(Byte, m) \div 2 <= Power(Byte, n) \div 2
    BY <1>2, <1>3
<1> QED BY <1>3, <1>4 DEF InBytes

LEMMA SignedInBytes ==
    /\ \A v : v \in Signed <=> v \in Int /\ InBytes(v, IntBytes)
    /\ INT64_MAX + 1 = Word \div 2 /\ INT64_MIN = -(Word \div 2)
    /\ Word \div 2 \in Nat \ {0} /\ 2 * (Word \div 2) = Word
<1>1. IntBytes \in Nat \ {0} /\ Word = Power(Byte, IntBytes)
    BY Bytes
<1>2. Word \div 2 \in Nat \ {0} /\ 2 * (Word \div 2) = Word
    BY <1>1, Halves
<1> QED BY <1>1, <1>2 DEF Signed, INT64_MAX, INT64_MIN, InBytes

\* What is read from n bytes of a number is the number, if it is one of n bytes.
LEMMA ReadInteger ==
    ASSUME NEW v \in Int, NEW n \in 1 .. IntBytes, NEW s,
           \A i \in 1 .. n : s[i] = ByteAt(v, i - 1)
    PROVE  /\ InBytes(v, n) => bejGetIntegerValue(s, n) = v
           /\ ~InBytes(v, n) => bejGetIntegerValue(s, n) # v
           /\ bejGetIntegerValue(s, n) \in Signed
<1> DEFINE p == Power(Byte, n)
           mask == p \div 2
           half == Word \div 2
           value == v % p
           read == IF value >= mask THEN value - p ELSE value
<1>1. n \in Nat \ {0} /\ n \in Nat /\ n <= IntBytes /\ IntBytes \in Nat /\ Byte \in Nat \ {0}
    BY Bytes
<1>2. p \in Nat \ {0} /\ mask \in Nat \ {0} /\ 2 * mask = p
    BY <1>1, Halves, Bytes
<1>3. Word \in Nat \ {0} /\ half \in Nat \ {0} /\ 2 * half = Word /\ p <= Word
    BY <1>1, Bytes, SignedInBytes, PowerMonotone
<1>4. bejGetUnsignedInteger(s, n) = value
    BY <1>1, ReadBytes
<1>5. value \in 0 .. p - 1 /\ v \div p \in Int /\ v = p * (v \div p) + value
    BY <1>2, DivMod
<1> DEFINE flipped == IF value >= mask THEN value - mask ELSE value + mask
<1>6. bejGetIntegerValue(s, n) = ToSigned((flipped - mask) % Word)
    BY <1>1, <1>4 DEF bejGetIntegerValue
<1>61. InBytes(v, n) <=> (-mask <= v /\ v < mask)
    BY DEF InBytes
<1>62. \A u : ToSigned(u) = IF u > half - 1 THEN u - Word ELSE u
    BY DEF ToSigned, INT64_MAX
<1>63. \A u \in Int : -half <= u /\ u < half => u \in Signed
    BY <1>3 DEF Signed, INT64_MAX, INT64_MIN
<1> HIDE DEF p, mask, value, half
<1>7. flipped - mask = read /\ read \in Int /\ -mask <= read /\ read < mask
    BY <1>2, <1>5
<1> HIDE DEF flipped, read
<1>8. mask <= half
    BY <1>2, <1>3
<1>9. ToSigned(read % Word) = read
    <2>1. CASE read >= 0
        <3>1. read = Word * 0 + read /\ read \in 0 .. Word - 1
            BY <1>2, <1>3, <1>7, <1>8, <2>1
        <3>2. read % Word = read
            BY <1>3, <3>1
        <3> QED BY <1>2, <1>3, <1>62, <1>7, <1>8, <2>1, <3>2
    <2>2. CASE read < 0
        <3>1. read = Word * (-1) + (read + Word) /\ read + Word \in 0 .. Word - 1
            BY <1>2, <1>3, <1>7, <1>8, <2>2
        <3>2. read % Word = read + Word
            <4> HIDE <1>7
            <4> DEFINE w == read + Word
            <4>1. read \in Int /\ w \in 0 .. Word - 1 /\ -1 \in Int
                BY <1>7, <3>1
            <4>2. read = Word * (-1) + w
                BY <3>1
            <4> HIDE DEF w
            <4>3. read % Word = w
                BY <1>3, <4>1, <4>2, DivUnique
            <4> QED BY <4>3 DEF w
        <3>3. read + Word > half - 1
            BY <1>2, <1>3, <1>7, <1>8
        <3>4. ToSigned(read + Word) = (read + Word) - Word
            BY <1>62, <3>3
        <3> QED BY <1>3, <1>7, <3>2, <3>4
    <2> QED BY <1>7, <2>1, <2>2
<1>10. bejGetIntegerValue(s, n) = read
    BY <1>6, <1>7, <1>9
<1>11. ASSUME InBytes(v, n) PROVE read = v
    <2>0. -mask <= v /\ v < mask
        BY <1>11, <1>61
    <2>1. CASE v >= 0
        <3>1. v \in 0 .. p - 1 /\ v = p * 0 + v
            BY <1>2, <2>0, <2>1
        <3>2. value = v
            BY <1>2, <3>1 DEF value
        <3> QED BY <1>2, <2>0, <3>2 DEF read
    <2>2. CASE v < 0
        <3>1. v + p \in 0 .. p - 1 /\ v = p * (-1) + (v + p) /\ v + p >= mask
            BY <1>2, <2>0, <2>2
        <3>2. value = v + p
            <4> DEFINE w == v + p
            <4>1. w \in 0 .. p - 1 /\ v = p * (-1) + w /\ -1 \in Int
                BY <3>1
            <4> HIDE DEF w
            <4>2. v % p = w
                BY <1>2, <4>1, DivUnique
            <4> QED BY <4>2 DEF w, value
        <3> QED BY <1>2, <3>1, <3>2 DEF read
    <2> QED BY <2>1, <2>2
<1>12. ~InBytes(v, n) => read # v
    BY <1>61, <1>7
<1>13. read \in Signed
    BY <1>2, <1>3, <1>63, <1>7, <1>8
<1> QED BY <1>10, <1>11, <1>12, <1>13
\* What is left of v when n bytes are shifted out.
Shifted(v, n) == v \div Power(Byte, n)

\* What is left in the end: nothing but copies of the sign.
Sign(v) == IF v >= 0 THEN 0 ELSE -1

LEMMA ShiftByte ==
    ASSUME NEW v \in Int, NEW n \in Nat
    PROVE  /\ Shifted(v, n) \in Int
           /\ ByteAt(v, n) \in Octets
           /\ Shifted(v, n) = Byte * Shifted(v, n + 1) + ByteAt(v, n)
<1> DEFINE p == Power(Byte, n)
<1>1. p \in Nat \ {0} /\ Byte \in Nat \ {0} /\ Power(Byte, n + 1) = p * Byte
    BY Bytes
<1>2. v \div p \in Int
    BY <1>1, DivMod
<1>3. v \div (p * Byte) = (v \div p) \div Byte
    <2> HIDE DEF p
    <2> QED BY <1>1, DivProduct
<1>4. v \div p = Byte * ((v \div p) \div Byte) + ((v \div p) % Byte)
    <2> HIDE DEF p
    <2> QED BY <1>1, <1>2, DivMod
<1>5. ByteAt(v, n) \in Octets
    BY ByteAtType
<1> QED BY <1>1, <1>2, <1>3, <1>4, <1>5 DEF Shifted, ByteAt

LEMMA ShiftedBounds ==
    ASSUME NEW v \in Int, NEW n \in Nat
    PROVE  /\ Power(Byte, n) * Shifted(v, n) <= v
           /\ v < Power(Byte, n) * (Shifted(v, n) + 1)
           /\ (Shifted(v, n) >= 0) <=> (v >= 0)
<1> DEFINE p == Power(Byte, n)
           q == v \div p
<1>1. p \in Nat \ {0}
    BY Bytes
<1>2. q \in Int /\ v = p * q + (v % p) /\ v % p \in 0 .. p - 1
    <2> HIDE DEF p
    <2> QED BY <1>1, DivMod
<1> HIDE DEF q, p
<1>3. p * (q + 1) = p * q + p
    BY <1>1, <1>2
<1>4. q >= 0 => p * q >= 0
    BY <1>1, <1>2
<1>5. q < 0 => p * q <= -p
    BY <1>1, <1>2
<1>6. p * q <= v /\ v < p * (q + 1) /\ ((q >= 0) <=> (v >= 0))
    <2>1. p * q \in Int
        BY <1>1, <1>2
    <2> QED BY <1>1, <1>2, <1>3, <1>4, <1>5, <2>1
<1> QED BY <1>6 DEF Shifted, p, q

\* The bytes above a point repeat the sign if nothing else is left there.
LEMMA SignBytes ==
    ASSUME NEW v \in Int, NEW n \in Nat
    PROVE  /\ Shifted(v, n) = Sign(v) =>
                 Shifted(v, n + 1) = Sign(v) /\ ByteAt(v, n) = Sign(v) % Byte
           /\ Shifted(v, n + 1) = Sign(v) /\ ByteAt(v, n) = Sign(v) % Byte =>
                 Shifted(v, n) = Sign(v)
<1> DEFINE q == Shifted(v, n)
           p == Shifted(v, n + 1)
           b == ByteAt(v, n)
           g == Sign(v)
<1>1. q \in Int /\ p \in Int /\ b \in 0 .. Byte - 1 /\ q = Byte * p + b
    <2>1. n + 1 \in Nat
        OBVIOUS
    <2> QED BY <2>1, ShiftByte DEF Octets
<1>2. g \in {0, -1} /\ Byte \in Nat \ {0, 1}
    BY Bytes DEF Sign
<1> HIDE DEF q, p, b, g
<1>3. g % Byte = IF g = 0 THEN 0 ELSE Byte - 1
    <2>1. CASE g = 0
        BY <1>2, <2>1
    <2>2. CASE g = -1
        <3>1. -1 = Byte * (-1) + (Byte - 1) /\ Byte - 1 \in 0 .. Byte - 1
            BY <1>2
        <3>2. (-1) % Byte = Byte - 1
            BY <1>2, <3>1
        <3> QED BY <2>2, <3>2
    <2> QED BY <1>2, <2>1, <2>2
<1>4. Byte * p \in Int
    BY <1>1, <1>2
<1>5. ASSUME q = g PROVE p = g /\ b = g % Byte
    <2>1. p >= 1 => Byte * p >= Byte
        BY <1>1, <1>2
    <2>2. p <= -2 => Byte * p <= -(2 * Byte)
        BY <1>1, <1>2
    <2>3. p \in {0, -1}
        BY <1>1, <1>2, <1>4, <1>5, <2>1, <2>2
    <2>4. CASE p = 0
        <3>1. Byte * p = 0
            BY <1>2, <2>4
        <3> QED BY <1>1, <1>2, <1>3, <1>5, <2>4, <3>1
    <2>5. CASE p = -1
        <3>1. Byte * p = -Byte
            BY <1>2, <2>5
        <3> QED BY <1>1, <1>2, <1>3, <1>5, <2>5, <3>1
    <2> QED BY <2>3, <2>4, <2>5
<1>6. ASSUME p = g, b = g % Byte PROVE q = g
    <2>1. CASE g = 0
        <3>1. Byte * p = 0
            BY <1>2, <1>6, <2>1
        <3> QED BY <1>1, <1>3, <1>6, <2>1, <3>1
    <2>2. CASE g = -1
        <3>1. Byte * p = -Byte
            BY <1>2, <1>6, <2>2
        <3> QED BY <1>1, <1>2, <1>3, <1>6, <2>2, <3>1
    <2> QED BY <1>2, <2>1, <2>2
<1> QED BY <1>5, <1>6 DEF q, p, b, g

\* The byte that bejIntLengthOfValue looks for: the highest that is not a copy
\* of the sign.
IsTop(v, i) ==
    /\ ByteAt(v, i) # Sign(v) % Byte
    /\ \A j \in i + 1 .. IntBytes - 1 : ByteAt(v, j) = Sign(v) % Byte

LEMMA AboveTop ==
    ASSUME NEW v \in Int, NEW i \in Nat, i <= IntBytes,
           Shifted(v, IntBytes) = Sign(v),
           \A j \in i .. IntBytes - 1 : ByteAt(v, j) = Sign(v) % Byte
    PROVE  Shifted(v, i) = Sign(v)
<1> DEFINE T == {k \in Nat : k <= IntBytes - i => Shifted(v, IntBytes - k) = Sign(v)}
<1>0. IntBytes \in Nat
    BY Bytes
<1>1. 0 \in T
    BY <1>0
<1>2. ASSUME NEW k \in T PROVE k + 1 \in T
    <2> SUFFICES ASSUME k + 1 <= IntBytes - i PROVE Shifted(v, IntBytes - (k + 1)) = Sign(v)
        OBVIOUS
    <2> DEFINE n == IntBytes - (k + 1)
    <2>1. n \in Nat /\ n + 1 = IntBytes - k /\ n \in i .. IntBytes - 1 /\ k <= IntBytes - i
        BY <1>0
    <2>2. Shifted(v, n + 1) = Sign(v) /\ ByteAt(v, n) = Sign(v) % Byte
        BY <2>1
    <2> HIDE DEF n
    <2>3. Shifted(v, n) = Sign(v)
        BY <2>1, <2>2, SignBytes
    <2> QED BY <2>3 DEF n
<1>3. T = Nat
    <2> HIDE DEF T
    <2>1. T \in SUBSET Nat
        BY DEF T
    <2> QED BY <1>1, <1>2, <2>1, Induction
<1>4. IntBytes - i \in T /\ IntBytes - (IntBytes - i) = i
    <2>1. IntBytes - i \in Nat
        BY <1>0
    <2> HIDE DEF T
    <2> QED BY <1>0, <1>3, <2>1
<1> QED BY <1>0, <1>4

LEMMA TopExists ==
    ASSUME NEW v \in Signed, v \notin {0, -1}
    PROVE  /\ \E i \in 0 .. IntBytes - 1 : IsTop(v, i)
           /\ Shifted(v, IntBytes) = Sign(v)
<1>0. v \in Int /\ IntBytes \in Nat \ {0} /\ IntBytes \in Nat
    BY SignedInBytes, Bytes
<1>1. Shifted(v, IntBytes) = Sign(v)
    <2>1. /\ Word * Shifted(v, IntBytes) <= v /\ v < Word * (Shifted(v, IntBytes) + 1)
          /\ Shifted(v, IntBytes) \in Int
        BY <1>0, ShiftedBounds, ShiftByte, Bytes
    <2>2. Word \in Nat \ {0} /\ -Word <= v /\ v < Word
        <3>1. Word \in Nat \ {0}
            BY <1>0, Bytes
        <3>2. Word \div 2 \in Nat /\ 2 * (Word \div 2) = Word
            BY SignedInBytes
        <3>3. v \in Int /\ -(Word \div 2) <= v /\ v <= Word \div 2 - 1
            BY <1>0 DEF Signed, INT64_MAX, INT64_MIN
        <3> QED BY <3>1, <3>2, <3>3
    <2> DEFINE q == Shifted(v, IntBytes)
    <2>3. (q >= 0) <=> (v >= 0)
        BY <1>0, ShiftedBounds
    <2> HIDE DEF q
    <2>4. q >= 1 => Word * q >= Word
        BY <2>1, <2>2 DEF q
    <2>5. q <= -2 => Word * (q + 1) <= -Word
        BY <2>1, <2>2 DEF q
    <2>6. /\ q \in Int /\ Word * q <= v /\ v < Word * (q + 1)
          /\ Word * q \in Int /\ Word * (q + 1) \in Int
        BY <2>1, <2>2 DEF q
    <2>7. q \in {0, -1}
        BY <1>0, <2>2, <2>4, <2>5, <2>6
    <2> QED BY <2>3, <2>7 DEF q, Sign
<1>2. SUFFICES ASSUME \A i \in 0 .. IntBytes - 1 : ~IsTop(v, i) PROVE FALSE
    BY <1>1
<1> DEFINE R == {k \in Nat : k <= IntBytes /\ Shifted(v, IntBytes - k) # Sign(v)}
<1>3. IntBytes \in R
    <2>1. Shifted(v, 0) = v
        <3>1. v \div 1 = v
            BY <1>0
        <3> QED BY <3>1, Bytes DEF Shifted
    <2>2. Sign(v) \in {0, -1}
        BY DEF Sign
    <2> QED BY <1>0, <2>1, <2>2
<1>4. PICK k \in R : \A m \in R : k <= m
    <2>1. R \in SUBSET Nat /\ R # {}
        BY <1>3
    <2> HIDE DEF R
    <2> QED BY <2>1, LeastNatural
<1>5. k \in Nat /\ k # 0 /\ k <= IntBytes
    BY <1>0, <1>1
<1> DEFINE i == IntBytes - k
<1>6. i \in 0 .. IntBytes - 1 /\ i \in Nat /\ i + 1 = IntBytes - (k - 1) /\ k - 1 \in Nat
    BY <1>0, <1>5
<1>7. Shifted(v, i) # Sign(v)
    OBVIOUS
<1>8. ASSUME NEW j \in i + 1 .. IntBytes PROVE Shifted(v, j) = Sign(v)
    <2>1. IntBytes - j \in Nat /\ IntBytes - (IntBytes - j) = j /\ ~(k <= IntBytes - j)
          /\ IntBytes - j <= IntBytes
        BY <1>0, <1>5, <1>6
    <2>2. IntBytes - j \notin R
        <3> HIDE DEF R
        <3> QED BY <1>4, <2>1
    <2> QED BY <2>1, <2>2
<1> HIDE DEF i, R
<1>9. ASSUME NEW j \in i + 1 .. IntBytes - 1 PROVE ByteAt(v, j) = Sign(v) % Byte
    <2>1. j \in i + 1 .. IntBytes /\ j \in Nat
        BY <1>0, <1>6
    <2> QED BY <1>0, <1>8, <2>1, SignBytes
<1>10. ByteAt(v, i) # Sign(v) % Byte
    <2>1. i + 1 \in i + 1 .. IntBytes
        BY <1>0, <1>6
    <2>2. Shifted(v, i + 1) = Sign(v)
        BY <1>8, <2>1
    <2> QED BY <1>0, <1>6, <1>7, <2>2, SignBytes
<1> QED BY <1>2, <1>6, <1>9, <1>10 DEF IsTop
LEMMA TopLength ==
    ASSUME NEW v \in Signed, v \notin {0, -1}, NEW i \in 0 .. IntBytes - 1, IsTop(v, i)
    PROVE  IF (IF v > 0 THEN ByteAt(v, i) >= Byte \div 2 ELSE ByteAt(v, i) < Byte \div 2)
           THEN ~InBytes(v, i + 1) /\ InBytes(v, i + 2)
           ELSE InBytes(v, i + 1) /\ (i # 0 => ~InBytes(v, i))
<1> DEFINE p == Power(Byte, i)
           q == Shifted(v, i)
           b == ByteAt(v, i)
           h == Byte \div 2
           g == Sign(v)
<1>1. v \in Int /\ IntBytes \in Nat /\ i \in Nat /\ i + 1 \in Nat /\ i + 1 <= IntBytes
    BY SignedInBytes, Bytes
<1>2. Shifted(v, i + 1) = g
    <2>1. Shifted(v, IntBytes) = Sign(v)
        BY TopExists
    <2>2. \A j \in i + 1 .. IntBytes - 1 : ByteAt(v, j) = Sign(v) % Byte
        BY DEF IsTop
    <2> QED BY <1>1, <2>1, <2>2, AboveTop
<1>3. q \in Int /\ b \in 0 .. Byte - 1 /\ q = Byte * g + b
    BY <1>1, <1>2, ShiftByte DEF Octets
<1>4. q # g
    BY <1>1, SignBytes DEF IsTop
<1>5. p * q <= v /\ v < p * (q + 1) /\ ((q >= 0) <=> (v >= 0))
    BY <1>1, ShiftedBounds
<1>6. /\ p \in Nat \ {0} /\ Byte \in Nat \ {0, 1} /\ h \in Nat \ {0} /\ 2 * h = Byte
      /\ Power(Byte, i + 1) = Byte * p
    BY <1>1, Bytes
<1>7. InBytes(v, i + 1) <=> (-(h * p) <= v /\ v < h * p)
    <2>1. i + 1 \in Nat \ {0} /\ i + 1 - 1 = i
        BY <1>1
    <2>2. Power(Byte, i + 1) \div 2 = h * p
        BY <2>1, Halves
    <2> QED BY <2>2 DEF InBytes
<1>8. InBytes(v, i + 2) <=> (-(h * (Byte * p)) <= v /\ v < h * (Byte * p))
    <2>1. i + 2 \in Nat \ {0} /\ i + 2 - 1 = i + 1
        BY <1>1
    <2>2. Power(Byte, i + 2) \div 2 = h * Power(Byte, i + 1)
        BY <2>1, Halves
    <2> QED BY <1>6, <2>2 DEF InBytes
<1>9. i # 0 => (InBytes(v, i) => -p <= v /\ v < p)
    <2>1. ASSUME i # 0 PROVE Power(Byte, i) \div 2 \in Nat \ {0} /\ 2 * (Power(Byte, i) \div 2) = p
        BY <1>1, <2>1, Halves
    <2>2. i # 0 => (InBytes(v, i) =>
              -(Power(Byte, i) \div 2) <= v /\ v < Power(Byte, i) \div 2)
        BY DEF InBytes
    <2> HIDE DEF p
    <2> QED BY <1>1, <1>6, <2>1, <2>2
<1>10. g = IF v > 0 THEN 0 ELSE -1
    BY <1>1 DEF Sign
<1> HIDE DEF p, q, b, h, g
<1>11. /\ p * q \in Int /\ p * (q + 1) \in Int /\ h * p \in Int /\ Byte * p \in Int
       /\ h * (Byte * p) \in Int
    BY <1>3, <1>6
<1>12. h * (Byte * p) >= Byte * p
    BY <1>6, <1>11
<1>13. CASE v > 0
    <2>1. g = 0 /\ q = b /\ q >= 1
        <3>1. g = 0 /\ Byte * g = 0
            BY <1>6, <1>10, <1>13
        <3> QED BY <1>3, <1>4, <3>1
    <2>2. p * (q + 1) <= p * Byte /\ p * Byte = Byte * p
        <3>1. q + 1 <= Byte
            BY <1>3, <1>6, <2>1
        <3> QED BY <1>3, <1>6, <3>1
    <2>3. InBytes(v, i + 2)
        BY <1>1, <1>5, <1>6, <1>8, <1>11, <1>12, <1>13, <2>2
    <2>4. ASSUME b >= h PROVE ~InBytes(v, i + 1)
        <3>1. p * q >= p * h /\ p * h = h * p
            BY <1>3, <1>6, <2>1, <2>4
        <3> QED BY <1>1, <1>5, <1>7, <1>11, <3>1
    <2>5. ASSUME ~(b >= h) PROVE InBytes(v, i + 1)
        <3>1. q + 1 <= h
            BY <1>3, <1>6, <2>1, <2>5
        <3>2. p * (q + 1) <= p * h /\ p * h = h * p
            BY <1>3, <1>6, <3>1
        <3> QED BY <1>1, <1>5, <1>6, <1>7, <1>11, <1>13, <3>2
    <2>6. i # 0 => ~InBytes(v, i)
        <3>1. p * q >= p
            BY <1>3, <1>6, <2>1
        <3> QED BY <1>1, <1>5, <1>6, <1>9, <1>11, <3>1
    <2> QED BY <1>13, <2>3, <2>4, <2>5, <2>6 DEF b, h
<1>14. CASE ~(v > 0)
    <2>0. v <= -2
        BY <1>1, <1>14
    <2>1. g = -1 /\ q = b - Byte /\ q <= -2
        <3>1. g = -1 /\ Byte * g = -Byte
            BY <1>6, <1>10, <1>14
        <3> QED BY <1>3, <1>4, <1>6, <3>1
    <2>2. p * q >= -(p * Byte) /\ p * Byte = Byte * p
        <3>1. q >= -Byte
            BY <1>3, <1>6, <2>1
        <3>2. p * q >= p * (-Byte)
            BY <1>3, <1>6, <3>1
        <3> QED BY <1>6, <3>2
    <2>3. InBytes(v, i + 2)
        BY <1>1, <1>5, <1>6, <1>8, <1>11, <1>12, <2>0, <2>2
    <2>4. ASSUME b < h PROVE ~InBytes(v, i + 1)
        <3>1. q + 1 <= -h
            BY <1>3, <1>6, <2>1, <2>4
        <3>2. p * (q + 1) <= p * (-h)
            BY <1>3, <1>6, <3>1
        <3>3. p * (-h) = -(h * p)
            BY <1>6
        <3> QED BY <1>1, <1>5, <1>7, <1>11, <3>2, <3>3
    <2>5. ASSUME ~(b < h) PROVE InBytes(v, i + 1)
        <3>1. q >= -h
            BY <1>3, <1>6, <2>1, <2>5
        <3>2. p * q >= p * (-h)
            BY <1>3, <1>6, <3>1
        <3>3. p * (-h) = -(h * p)
            BY <1>6
        <3>4. h * p > 0
            BY <1>6
        <3> QED BY <1>1, <1>5, <1>6, <1>7, <1>11, <2>0, <3>2, <3>3, <3>4
    <2>6. i # 0 => ~InBytes(v, i)
        <3>1. p * (q + 1) <= p * (-1)
            BY <1>3, <1>6, <2>1
        <3> QED BY <1>1, <1>5, <1>6, <1>9, <1>11, <3>1
    <2> QED BY <1>14, <2>3, <2>4, <2>5, <2>6 DEF b, h
<1> QED BY <1>13, <1>14

\* bejIntLengthOfValue is enough, and one byte less is not.
LEMMA IntegerLength ==
    ASSUME NEW v \in Signed
    PROVE  /\ bejIntLengthOfValue(v) \in 1 .. IntBytes
           /\ InBytes(v, bejIntLengthOfValue(v))
           /\ \A n \in 1 .. bejIntLengthOfValue(v) - 1 : ~InBytes(v, n)
<1>1. v \in Int /\ InBytes(v, IntBytes) /\ IntBytes \in Nat \ {0}
    BY SignedInBytes, Bytes
<1>2. CASE v \in {0, -1}
    <2>1. bejIntLengthOfValue(v) = 1
        BY <1>2 DEF bejIntLengthOfValue
    <2>2. Power(Byte, 1) \div 2 \in Nat \ {0}
        BY Halves
    <2>3. InBytes(v, 1)
        BY <1>2, <2>2 DEF InBytes
    <2> QED BY <1>1, <2>1, <2>3
<1>3. CASE v \notin {0, -1}
    <2> DEFINE filler == IF v > 0 THEN 0 ELSE Byte - 1
               sought(i) == /\ ByteAt(v, i) # filler
                            /\ \A j \in i + 1 .. IntBytes - 1 : ByteAt(v, j) = filler
               top == CHOOSE i \in 0 .. IntBytes - 1 : sought(i)
               padded == IF v > 0 THEN ByteAt(v, top) >= Byte \div 2
                         ELSE ByteAt(v, top) < Byte \div 2
    <2>1. bejIntLengthOfValue(v) = IF padded THEN top + 2 ELSE top + 1
        BY <1>3 DEF bejIntLengthOfValue
    <2>2. filler = Sign(v) % Byte
        <3>1. Byte \in Nat \ {0, 1}
            BY Bytes
        <3>2. 0 % Byte = 0
            BY <3>1
        <3>3. -1 = Byte * (-1) + (Byte - 1) /\ Byte - 1 \in 0 .. Byte - 1
            BY <3>1
        <3>4. (-1) % Byte = Byte - 1
            BY <3>1, <3>3
        <3> QED BY <1>1, <1>3, <3>2, <3>4 DEF Sign
    <2> HIDE DEF filler
    <2>3. \E i \in 0 .. IntBytes - 1 : sought(i)
        <3>1. PICK i \in 0 .. IntBytes - 1 : IsTop(v, i)
            BY <1>3, TopExists
        <3> QED BY <2>2, <3>1 DEF IsTop
    <2>4. top \in 0 .. IntBytes - 1 /\ sought(top)
        <3> HIDE DEF sought
        <3> QED BY <2>3
    <2>5. PICK i \in 0 .. IntBytes - 1 : i = top
        BY <2>4
    <2>6. IsTop(v, i)
        BY <2>2, <2>4, <2>5 DEF IsTop
    <2>7. IF padded THEN ~InBytes(v, i + 1) /\ InBytes(v, i + 2)
          ELSE InBytes(v, i + 1) /\ (i # 0 => ~InBytes(v, i))
        <3> HIDE DEF top
        <3> QED BY <1>3, <2>5, <2>6, TopLength
    <2> DEFINE n == bejIntLengthOfValue(v)
    <2>8. n = IF padded THEN i + 2 ELSE i + 1
        BY <2>1, <2>5
    <2> HIDE DEF padded, top, n
    <2>9. n \in Nat \ {0} /\ InBytes(v, n) /\ (n # 1 => ~InBytes(v, n - 1))
        <3>1. i \in Nat
            BY <1>1
        <3>2. CASE padded
            <4>1. n = i + 2 /\ n - 1 = i + 1
                BY <2>8, <3>1, <3>2
            <4> QED BY <2>7, <3>1, <3>2, <4>1
        <3>3. CASE ~padded
            <4>1. n = i + 1 /\ n - 1 = i
                BY <2>8, <3>1, <3>3
            <4> QED BY <2>7, <3>1, <3>3, <4>1
        <3> QED BY <3>2, <3>3
    <2>10. ASSUME NEW m \in 1 .. n - 1 PROVE ~InBytes(v, m)
        <3>1. m \in Nat \ {0} /\ n - 1 \in Nat \ {0} /\ m <= n - 1 /\ n # 1
            BY <2>9
        <3> QED BY <1>1, <2>9, <3>1, InMoreBytes
    <2>11. n <= IntBytes
        <3>1. ASSUME ~(n <= IntBytes) PROVE FALSE
            <4>1. IntBytes \in 1 .. n - 1
                BY <1>1, <2>9, <3>1
            <4> QED BY <1>1, <2>10, <4>1
        <3> QED BY <3>1
    <2> QED BY <1>1, <2>9, <2>10, <2>11 DEF n
<1> QED BY <1>2, <1>3

\* An integer is read as what was written, whatever follows it, and not from
\* fewer bytes.
LEMMA ReadInt ==
    ASSUME NEW v \in Signed, NEW rest \in Seq(Octets)
    PROVE  /\ bejEncodeInteger(v) \in Seq(Octets)
           /\ Len(bejEncodeInteger(v)) = bejIntLengthOfValue(v)
           /\ bejGetIntegerValue(bejEncodeInteger(v) \o rest, bejIntLengthOfValue(v)) = v
           /\ After(bejEncodeInteger(v) \o rest, bejIntLengthOfValue(v)) = rest
           /\ \A n \in 1 .. bejIntLengthOfValue(v) - 1 :
                 bejGetIntegerValue(bejEncodeInteger(v), n) # v
           /\ bejGetIntegerValue(bejEncodeInteger(v), bejIntLengthOfValue(v)) = v
<1> DEFINE n == bejIntLengthOfValue(v)
           e == bejEncodeInteger(v)
<1>1. v \in Int /\ IntBytes \in Nat
    BY SignedInBytes, Bytes
<1>2. n \in 1 .. IntBytes /\ InBytes(v, n) /\ \A m \in 1 .. n - 1 : ~InBytes(v, m)
    BY IntegerLength
<1>3. e = BytesOf(v, n)
    BY DEF bejEncodeInteger
<1> HIDE DEF n, e
<1>4. n \in Nat
    BY <1>1, <1>2
<1>5. e \in Seq(Octets) /\ Len(e) = n /\ \A i \in 1 .. n : e[i] = ByteAt(v, i - 1)
    BY <1>1, <1>3, <1>4, BytesOfShape
<1>6. \A i \in 1 .. n : (e \o rest)[i] = ByteAt(v, i - 1)
    BY <1>4, <1>5
<1>7. bejGetIntegerValue(e \o rest, n) = v
    BY <1>1, <1>2, <1>6, ReadInteger
<1>8. bejGetIntegerValue(e, n) = v
    BY <1>1, <1>2, <1>5, ReadInteger
<1>9. ASSUME NEW m \in 1 .. n - 1 PROVE bejGetIntegerValue(e, m) # v
    <2>1. m \in 1 .. IntBytes /\ \A i \in 1 .. m : i \in 1 .. n
        BY <1>1, <1>2
    <2>2. \A i \in 1 .. m : e[i] = ByteAt(v, i - 1)
        BY <1>5, <2>1
    <2> QED BY <1>1, <1>2, <2>1, <2>2, ReadInteger
<1>10. After(e \o rest, n) = rest
    BY <1>5, AfterFirst
<1> QED BY <1>5, <1>7, <1>8, <1>9, <1>10 DEF n, e
-----------------------------------------------------------------------------
(* Decimals.                                                                 *)

LEMMA Tens ==
    /\ \A n \in Nat : Power(10, n) \in Nat \ {0}
    /\ Power(10, 0) = 1
    /\ \A m, n \in Nat : Power(10, m + n) = Power(10, m) * Power(10, n)
    /\ \A m, n \in Nat : m <= n => Power(10, m) <= Power(10, n)
    /\ \A n \in Nat : n < Power(10, n)
<1>1. 10 \in Nat \ {0} /\ 10 \in Nat \ {0, 1} /\ 10 \in Nat
    OBVIOUS
<1>2. \A n \in Nat : Power(10, n) \in Nat \ {0}
    BY <1>1, PowerPositive
<1>3. Power(10, 0) = 1
    BY <1>1, PowerSteps
<1>4. \A m, n \in Nat : Power(10, m + n) = Power(10, m) * Power(10, n)
    BY <1>1, PowerAdd
<1>5. \A m, n \in Nat : m <= n => Power(10, m) <= Power(10, n)
    BY <1>1, PowerMonotone
<1>6. \A n \in Nat : n < Power(10, n)
    BY <1>1, PowerExceeds
<1> QED BY <1>2, <1>3, <1>4, <1>5, <1>6

\* The number of digits that are printed for n.
LEMMA DigitsUnique ==
    ASSUME NEW n \in Nat, NEW d \in Nat \ {0},
           n < Power(10, d), d = 1 \/ n >= Power(10, d - 1)
    PROVE  Digits(n) = d
<1> DEFINE fits(k) == n < Power(10, k) /\ (k = 1 \/ n >= Power(10, k - 1))
           c == CHOOSE k \in 1 .. n + 1 : fits(k)
<1>1. d \in 1 .. n + 1
    <2>1. CASE d = 1
        BY <2>1
    <2>2. CASE d # 1
        <3>1. d - 1 \in Nat /\ n >= Power(10, d - 1)
            BY <2>2
        <3>2. d - 1 < Power(10, d - 1) /\ Power(10, d - 1) \in Nat
            BY <3>1, Tens
        <3> QED BY <3>1, <3>2
    <2> QED BY <2>1, <2>2
<1>2. c \in 1 .. n + 1 /\ fits(c)
    <2>1. fits(d)
        OBVIOUS
    <2> HIDE DEF fits
    <2> QED BY <1>1, <2>1
<1>3. Digits(n) = c
    BY DEF Digits
<1> HIDE DEF c
<1>4. c \in Nat /\ d \in Nat /\ Power(10, c) \in Nat /\ Power(10, d) \in Nat
    BY <1>2, Tens
<1>5. ASSUME c < d PROVE FALSE
    <2>1. d - 1 \in Nat /\ c <= d - 1 /\ d # 1
        BY <1>2, <1>4, <1>5
    <2>2. Power(10, c) <= Power(10, d - 1) /\ Power(10, d - 1) \in Nat
        BY <1>4, <2>1, Tens
    <2> QED BY <1>2, <1>4, <2>1, <2>2
<1>6. ASSUME d < c PROVE FALSE
    <2>1. c - 1 \in Nat /\ d <= c - 1 /\ c # 1
        BY <1>2, <1>4, <1>6
    <2>2. Power(10, d) <= Power(10, c - 1) /\ Power(10, c - 1) \in Nat
        BY <1>4, <2>1, Tens
    <2> QED BY <1>2, <1>4, <2>1, <2>2
<1> QED BY <1>3, <1>4, <1>5, <1>6

\* The integer part of fract shifted by n decimals.
Part(fract, n) == (fract * Power(10, n)) \div Power(10, FractDigits)

LEMMA Widths ==
    /\ BEJ_REAL_PRECISION \in Nat /\ FractDigits \in Nat /\ MaxZeros \in Nat
    /\ BEJ_REAL_PRECISION <= FractDigits /\ BEJ_REAL_PRECISION <= MaxZeros
    /\ Power(10, BEJ_REAL_PRECISION) <= Word
    /\ \A n \in Numbers : n.kind = "Real" => n.fract < Power(10, FractDigits)
BY DigitsAssumption

LEMMA PartBounds ==
    ASSUME NEW fract \in Nat, NEW n \in Nat, fract < Power(10, FractDigits)
    PROVE  /\ Part(fract, n) \in Nat /\ Part(fract, n) < Power(10, n)
           /\ Power(10, FractDigits) * Part(fract, n) <= fract * Power(10, n)
           /\ fract * Power(10, n) < Power(10, FractDigits) * (Part(fract, n) + 1)
           /\ Part(fract, n) = 0 <=> fract * Power(10, n) < Power(10, FractDigits)
<1> DEFINE p == Power(10, n)
           w == Power(10, FractDigits)
           a == fract * p
           q == a \div w
<1>1. p \in Nat \ {0} /\ w \in Nat \ {0}
    BY Tens, Widths
<1>2. fract < w
    OBVIOUS
<1>3. Part(fract, n) = q
    BY DEF Part
<1> HIDE DEF p, w
<1>4. a \in Nat /\ a \in Int
    BY <1>1
<1>5. a < w * p
    BY <1>1, <1>2
<1> HIDE DEF a
<1>6. q \in Int /\ a = w * q + (a % w) /\ a % w \in 0 .. w - 1
    BY <1>1, <1>4, DivMod
<1> HIDE DEF q
<1>7. q >= 0
    <2>1. q < 0 => w * q <= -w
        BY <1>1, <1>6
    <2> QED BY <1>1, <1>4, <1>6, <2>1
<1>8. w * q <= a /\ a < w * (q + 1)
    <2>1. w * (q + 1) = w * q + w /\ w * q \in Int
        BY <1>1, <1>6
    <2> QED BY <1>1, <1>4, <1>6, <2>1
<1>9. q < p
    <2>1. ASSUME q >= p PROVE FALSE
        <3>1. w * q >= w * p /\ w * q \in Int /\ w * p \in Int
            BY <1>1, <1>6, <2>1
        <3> QED BY <1>4, <1>5, <1>8, <3>1
    <2> QED BY <1>1, <1>6, <2>1
<1>10. q = 0 <=> a < w
    <2>1. ASSUME q = 0 PROVE a < w
        <3>1. w * (q + 1) = w
            BY <1>1, <2>1
        <3> QED BY <1>8, <3>1
    <2>2. ASSUME q # 0 PROVE ~(a < w)
        <3>1. w * q >= w /\ w * q \in Int
            BY <1>1, <1>6, <1>7, <2>2
        <3> QED BY <1>1, <1>4, <1>8, <3>1
    <2> QED BY <2>1, <2>2
<1> QED BY <1>3, <1>6, <1>7, <1>8, <1>9, <1>10 DEF q, a, p, w

LEMMA PartMonotone ==
    ASSUME NEW fract \in Nat, NEW m \in Nat, NEW n \in Nat, m <= n,
           fract < Power(10, FractDigits), Part(fract, n) = 0
    PROVE  Part(fract, m) = 0
<1>1. Power(10, m) <= Power(10, n) /\ Power(10, m) \in Nat /\ Power(10, n) \in Nat
    BY Tens
<1>2. fract * Power(10, m) <= fract * Power(10, n)
    BY <1>1
<1>3. fract * Power(10, m) \in Nat /\ fract * Power(10, n) \in Nat
    BY <1>1
<1>4. fract * Power(10, n) < Power(10, FractDigits) /\ Power(10, FractDigits) \in Nat
    BY PartBounds, Tens, Widths
<1>5. fract * Power(10, m) < Power(10, FractDigits)
    BY <1>2, <1>3, <1>4
<1> QED BY <1>5, PartBounds

\* After the turns of the loop, as many zeros as it has counted in front of the
\* digits that are left make the decimals of the fraction, cut to the precision.
LEMMA FractionPrinted ==
    ASSUME NEW fract \in Nat, fract < Power(10, FractDigits),
           NEW turns \in 0 .. BEJ_REAL_PRECISION, NEW zeros \in 0 .. turns,
           \/ (fract * Power(10, turns)) % Power(10, FractDigits) = 0
           \/ turns = BEJ_REAL_PRECISION,
           \A n \in 1 .. turns : Part(fract, n) = 0 <=> n <= zeros
    PROVE  Part(fract, turns) * Power(10, FractDigits)
             = (fract - (fract % Power(10, FractDigits - BEJ_REAL_PRECISION)))
                 * Power(10, zeros + Digits(Part(fract, turns)))
<1> DEFINE w == Power(10, FractDigits)
           t == Power(10, turns)
           g == Power(10, FractDigits - BEJ_REAL_PRECISION)
           u == Power(10, BEJ_REAL_PRECISION - turns)
           r == Part(fract, turns)
           s == fract % g
<1>1. /\ turns \in Nat /\ zeros \in Nat /\ BEJ_REAL_PRECISION - turns \in Nat
      /\ FractDigits - BEJ_REAL_PRECISION \in Nat
    BY Widths
<1>2. w \in Nat \ {0} /\ t \in Nat \ {0} /\ g \in Nat \ {0} /\ u \in Nat \ {0}
    BY <1>1, Tens, Widths
<1>3. w = g * (u * t) /\ (turns = BEJ_REAL_PRECISION => u = 1)
    <2>1. Power(10, (BEJ_REAL_PRECISION - turns) + turns) = u * t
        BY <1>1, Tens
    <2>2. (BEJ_REAL_PRECISION - turns) + turns = BEJ_REAL_PRECISION
          /\ (FractDigits - BEJ_REAL_PRECISION) + BEJ_REAL_PRECISION = FractDigits
        BY <1>1, Widths
    <2>3. Power(10, (FractDigits - BEJ_REAL_PRECISION) + BEJ_REAL_PRECISION)
             = g * Power(10, BEJ_REAL_PRECISION)
        BY <1>1, Tens, Widths
    <2>4. turns = BEJ_REAL_PRECISION => BEJ_REAL_PRECISION - turns = 0
        BY <1>1, Widths
    <2> QED BY <2>1, <2>2, <2>3, <2>4, Tens
<1>4. /\ r \in Nat /\ w * r <= fract * t /\ fract * t < w * (r + 1)
      /\ r = 0 <=> fract * t < w
    BY <1>1, PartBounds
<1>5. fract \in Nat /\ fract \in Int /\ ((fract * t) % w = 0 \/ turns = BEJ_REAL_PRECISION)
    OBVIOUS
<1>6. s \in 0 .. g - 1 /\ fract \div g \in Int /\ fract = g * (fract \div g) + s
    <2> HIDE DEF g
    <2> QED BY <1>2, <1>5, DivMod
<1> DEFINE q == fract \div g
<1> HIDE DEF w, t, g, u, r, s, q
<1>7. q \in Int /\ s \in Int /\ fract = g * q + s
    BY <1>6 DEF q
<1>8. fract * t \in Int /\ g * t \in Nat \ {0} /\ u * t \in Nat \ {0}
    BY <1>2, <1>5
\* The equation without the count of digits.
<1>9. r * w = (fract - s) * t
    <2>1. CASE (fract * t) % w = 0
        <3>1. fract * t = w * r
            <4>1. fract * t = w * ((fract * t) \div w) + 0 /\ (fract * t) \div w \in Int
                BY <1>2, <1>8, <2>1, DivMod
            <4>2. r = (fract * t) \div w
                BY DEF r, t, w, Part
            <4> QED BY <1>2, <4>1, <4>2
        <3>2. fract * t = (g * (u * r)) * t
            <4>1. w * r = (g * (u * r)) * t
                BY <1>2, <1>3, <1>4
            <4> QED BY <3>1, <4>1
        <3>3. fract = g * (u * r) /\ u * r \in Int
            BY <1>2, <1>4, <1>5, <3>2
        <3>4. s = 0
            <4>1. 0 \in 0 .. g - 1 /\ fract = g * (u * r) + 0
                BY <1>2, <3>3
            <4> QED BY <1>2, <1>5, <3>3, <4>1, DivUnique DEF s
        <3> QED BY <1>2, <1>4, <1>5, <3>1, <3>4
    <2>2. CASE turns = BEJ_REAL_PRECISION
        <3>1. w = g * t
            BY <1>2, <1>3, <2>2
        <3>2. fract * t = w * q + s * t
            BY <1>2, <1>7, <3>1
        <3>3. s * t \in 0 .. w - 1
            <4>1. s <= g - 1 /\ 0 <= s
                BY <1>2, <1>6
            <4>2. s * t <= (g - 1) * t /\ 0 <= s * t /\ s * t \in Int
                BY <1>2, <1>7, <4>1
            <4>3. (g - 1) * t = w - t
                BY <1>2, <3>1
            <4> QED BY <1>2, <4>2, <4>3
        <3>4. r = q
            <4>1. (fract * t) \div w = q
                BY <1>2, <1>7, <1>8, <3>2, <3>3, DivUnique
            <4> QED BY <4>1 DEF r, t, w, Part
        <3>5. (fract - s) * t = (g * q) * t
            BY <1>2, <1>7
        <3> QED BY <1>2, <1>7, <3>1, <3>4, <3>5
    <2> QED BY <1>5, <2>1, <2>2
<1>10. CASE r = 0
    <2>1. fract - s = 0
        <3>1. (fract - s) * t = 0
            BY <1>2, <1>9, <1>10
        <3> QED BY <1>2, <1>5, <1>7, <3>1
    <2>2. Digits(r) = 1
        <3>1. 0 < Power(10, 1) /\ 1 \in Nat \ {0} /\ 0 \in Nat
            BY Tens
        <3> QED BY <1>10, <3>1, DigitsUnique
    <2>3. Power(10, zeros + Digits(r)) \in Nat
        <3>1. zeros + 1 \in Nat
            BY <1>1
        <3>2. Power(10, zeros + 1) \in Nat
            BY <3>1, Tens
        <3> QED BY <2>2, <3>2
    <2>4. r * w = (fract - s) * Power(10, zeros + Digits(r))
        BY <1>2, <1>10, <2>1, <2>3
    <2> QED BY <2>4 DEF r, w, s, g
<1>11. CASE r # 0
    <2>0. fract < w
        BY DEF w
    <2>1. turns # 0
        <3>1. turns = 0 => t = 1
            BY Tens DEF t
        <3> QED BY <1>4, <1>5, <1>11, <2>0, <3>1
    <2>2. zeros < turns
        <3>1. turns \in 1 .. turns
            BY <1>1, <2>1
        <3>2. ~(turns <= zeros)
            BY <1>11, <3>1 DEF r
        <3> QED BY <1>1, <3>2
    <2> DEFINE d == turns - zeros
    <2>3. d \in Nat \ {0} /\ d \in Nat /\ d - 1 \in Nat /\ zeros + d = turns
          /\ (zeros + 1) + (d - 1) = turns /\ zeros + 1 \in 1 .. turns /\ zeros + 1 \in Nat
        BY <1>1, <2>2
    <2> HIDE DEF d
    <2>4. fract * Power(10, zeros) < w
        <3>1. CASE zeros = 0
            BY <1>5, <2>0, <3>1, Tens
        <3>2. CASE zeros # 0
            <4>1. zeros \in 1 .. turns
                BY <1>1, <2>2, <3>2
            <4>2. Part(fract, zeros) = 0
                BY <1>1, <4>1
            <4> QED BY <1>1, <4>2, PartBounds DEF w
        <3> QED BY <3>1, <3>2
    <2>5. ~(fract * Power(10, zeros + 1) < w)
        <3>1. ~(zeros + 1 <= zeros)
            BY <1>1
        <3>2. Part(fract, zeros + 1) # 0
            BY <2>3, <3>1
        <3> QED BY <2>3, <3>2, PartBounds DEF w
    <2>6. r < Power(10, d)
        <3> DEFINE a == Power(10, zeros)
                   b == Power(10, d)
        <3>1. a \in Nat \ {0} /\ b \in Nat \ {0} /\ t = a * b
            BY <1>1, <2>3, Tens DEF t
        <3>2. fract * a < w
            BY <2>4
        <3> HIDE DEF a, b
        <3>3. fract * t = (fract * a) * b /\ fract * a \in Nat
            BY <1>5, <3>1
        <3>4. (fract * a) * b < w * b
            BY <1>2, <3>1, <3>2, <3>3
        <3>5. ASSUME r >= b PROVE FALSE
            <4>1. w * r >= w * b /\ w * r \in Int /\ w * b \in Int
                BY <1>2, <1>4, <3>1, <3>5
            <4> QED BY <1>4, <1>8, <3>3, <3>4, <4>1
        <3> QED BY <1>4, <3>1, <3>5 DEF b
    <2>7. r >= Power(10, d - 1)
        <3> DEFINE a == Power(10, zeros + 1)
                   b == Power(10, d - 1)
        <3>1. a \in Nat \ {0} /\ b \in Nat \ {0} /\ t = a * b
            BY <2>3, Tens DEF t
        <3>2. ~(fract * a < w)
            BY <2>5
        <3> HIDE DEF a, b
        <3>3. fract * t = (fract * a) * b /\ fract * a \in Nat
            BY <1>5, <3>1
        <3>4. (fract * a) * b >= w * b /\ w * b \in Int
            BY <1>2, <3>1, <3>2, <3>3
        <3>5. ASSUME r < b PROVE FALSE
            <4>1. r + 1 <= b
                BY <1>4, <3>1, <3>5
            <4>2. w * (r + 1) <= w * b /\ w * (r + 1) \in Int
                BY <1>2, <1>4, <3>1, <4>1
            <4> QED BY <1>4, <1>8, <3>3, <3>4, <4>2
        <3> QED BY <1>4, <3>1, <3>5 DEF b
    <2>8. Digits(r) = d
        BY <1>4, <2>3, <2>6, <2>7, DigitsUnique
    <2>9. Power(10, zeros + Digits(r)) = t
        BY <2>3, <2>8 DEF t
    <2> QED BY <1>9, <2>9 DEF r, w, s, g
<1> QED BY <1>10, <1>11
-----------------------------------------------------------------------------
(* A real, taken apart, written and read.                                    *)

Associate(a, b, c) == (a \o b) \o c = a \o (b \o c)

LEMMA ConcatAssoc ==
    ASSUME NEW S, NEW a \in Seq(S), NEW b \in Seq(S), NEW c \in Seq(S)
    PROVE  Associate(a, b, c)
<1> DEFINE l == (a \o b) \o c
           r == a \o (b \o c)
<1>1. /\ l \in Seq(S) /\ Len(l) = Len(a) + Len(b) + Len(c)
      /\ r \in Seq(S) /\ Len(r) = Len(a) + Len(b) + Len(c)
      /\ Len(a) \in Nat /\ Len(b) \in Nat /\ Len(c) \in Nat
    OBVIOUS
<1>2. ASSUME NEW i \in 1 .. Len(l) PROVE l[i] = r[i]
    <2>1. i \in 1 .. Len(a) + Len(b) + Len(c)
        BY <1>1
    <2>2. CASE i <= Len(a)
        BY <1>1, <2>1, <2>2
    <2>3. CASE i > Len(a) /\ i <= Len(a) + Len(b)
        BY <1>1, <2>1, <2>3
    <2>4. CASE i > Len(a) + Len(b)
        BY <1>1, <2>1, <2>4
    <2> QED BY <1>1, <2>1, <2>2, <2>3, <2>4
<1> HIDE DEF l, r
<1>3. l = r
    BY <1>1, <1>2
<1> QED BY <1>3 DEF l, r, Associate

LEMMA Concat ==
    ASSUME NEW S, NEW a \in Seq(S), NEW b \in Seq(S)
    PROVE  a \o b \in Seq(S) /\ Len(a \o b) = Len(a) + Len(b)
OBVIOUS

InFive(S, a, b, c, d, e) ==
    /\ d \o e \in Seq(S) /\ c \o (d \o e) \in Seq(S)
    /\ b \o (c \o (d \o e)) \in Seq(S)
    /\ a \o (b \o (c \o (d \o e))) \in Seq(S)
    /\ Len(a \o (b \o (c \o (d \o e)))) = Len(a) + (Len(b) + (Len(c) + (Len(d) + Len(e))))
    /\ (((a \o b) \o c) \o d) \o e = a \o (b \o (c \o (d \o e)))

LEMMA FiveParts ==
    ASSUME NEW S, NEW a \in Seq(S), NEW b \in Seq(S), NEW c \in Seq(S), NEW d \in Seq(S),
           NEW e \in Seq(S)
    PROVE  InFive(S, a, b, c, d, e)
<1>1. PICK de : de = d \o e /\ de \in Seq(S) /\ Len(de) = Len(d) + Len(e)
    BY Concat
<1>2. PICK cde : cde = c \o de /\ cde \in Seq(S) /\ Len(cde) = Len(c) + Len(de)
    BY <1>1, Concat
<1>3. PICK r : r = b \o cde /\ r \in Seq(S) /\ Len(r) = Len(b) + Len(cde)
    BY <1>2, Concat
<1>4. a \o r \in Seq(S) /\ Len(a \o r) = Len(a) + Len(r)
    BY <1>3, Concat
<1>5. PICK ab : ab = a \o b /\ ab \in Seq(S)
    BY Concat
<1>6. PICK abc : abc = ab \o c /\ abc \in Seq(S)
    BY <1>5, Concat
<1>7. Associate(abc, d, e) /\ Associate(ab, c, de) /\ Associate(a, b, cde)
    BY <1>1, <1>2, <1>5, <1>6, ConcatAssoc
<1>10. (((a \o b) \o c) \o d) \o e = a \o r
    <2>1. (abc \o d) \o e = abc \o de
        BY <1>1, <1>7 DEF Associate
    <2>2. (ab \o c) \o de = ab \o cde
        BY <1>2, <1>7 DEF Associate
    <2>3. (a \o b) \o cde = a \o r
        BY <1>3, <1>7 DEF Associate
    <2> QED BY <1>5, <1>6, <2>1, <2>2, <2>3
<1>11. d \o e = de /\ c \o (d \o e) = cde /\ b \o (c \o (d \o e)) = r
    BY <1>1, <1>2, <1>3
<1> QED BY <1>1, <1>2, <1>3, <1>4, <1>10, <1>11 DEF InFive

LEMMA SmallUnsigned ==
    /\ \A n \in 0 .. IntBytes : n \in Unsigned /\ n < Byte
    /\ \A v \in Unsigned : v \in Nat
<1>1. IntBytes \in Nat /\ Word \in Nat /\ Byte \in Nat /\ IntBytes + 1 < Byte
    BY Bytes
<1>2. Byte <= Word
    <2>1. 1 \in Nat /\ IntBytes \in Nat /\ 1 <= IntBytes /\ Byte \in Nat \ {0}
        BY Bytes
    <2>2. Power(Byte, 1) <= Power(Byte, IntBytes)
        BY <2>1, PowerMonotone
    <2> QED BY <2>2, Bytes
<1> QED BY <1>1, <1>2 DEF Unsigned

LEMMA RealWritten ==
    ASSUME NEW real \in BejReal
    PROVE  /\ bejEncodeBejReal(real) \in Seq(Octets)
           /\ Len(bejEncodeBejReal(real)) = RealSize(real)
           /\ bytes = bejEncodeBejReal(real) => bejHandleBejReal = real
<1> DEFINE n == bejIntLengthOfValue(real.whole)
           a == bejEncodeNnint(n)
           b == bejEncodeInteger(real.whole)
           c == bejEncodeNnint(real.zeroCount)
           d == bejEncodeNnint(real.fract)
           e == bejEncodeNnint(0)
           r3 == d \o e
           r2 == c \o r3
           r1 == b \o r2
<1>1. /\ real.whole \in Signed /\ real.zeroCount \in Unsigned /\ real.fract \in Unsigned
      /\ real = [whole |-> real.whole, zeroCount |-> real.zeroCount, fract |-> real.fract]
    BY DEF BejReal
<1>2. n \in 1 .. IntBytes /\ n \in Unsigned /\ n < Byte /\ 0 \in Unsigned
    <2>1. n \in 1 .. IntBytes
        BY <1>1, IntegerLength
    <2>2. IntBytes \in Nat
        BY Bytes
    <2>3. n \in 0 .. IntBytes /\ 0 \in 0 .. IntBytes
        <3> HIDE DEF n
        <3> QED BY <2>1, <2>2
    <2> HIDE DEF n
    <2> QED BY <2>1, <2>3, SmallUnsigned
<1>3. /\ a \in Seq(Octets) /\ Len(a) = bejNnintEncodingSizeOfUInt(n)
      /\ bejNnintEncodingSizeOfUInt(n) = 2
    <2>1. bejNnintLengthFieldOfUInt(n) = 1
        <3> HIDE DEF n
        <3> QED BY <1>2, NnintLength
    <2>2. bejNnintEncodingSizeOfUInt(n) = 2
        <3> HIDE DEF n
        <3> QED BY <2>1 DEF bejNnintEncodingSizeOfUInt
    <2> HIDE DEF n
    <2> QED BY <1>2, <2>2, NnintShape
<1>4. b \in Seq(Octets) /\ Len(b) = n
    <2>1. <<>> \in Seq(Octets)
        OBVIOUS
    <2> QED BY <1>1, <2>1, ReadInt
<1>5. /\ c \in Seq(Octets) /\ Len(c) = bejNnintEncodingSizeOfUInt(real.zeroCount)
      /\ d \in Seq(Octets) /\ Len(d) = bejNnintEncodingSizeOfUInt(real.fract)
      /\ e \in Seq(Octets) /\ Len(e) = bejNnintEncodingSizeOfUInt(0)
    BY <1>1, <1>2, NnintShape
<1>6. bejEncodeBejReal(real) = ((((a \o b) \o c) \o d) \o e)
    BY DEF bejEncodeBejReal
<1>7. /\ r1 \in Seq(Octets) /\ r2 \in Seq(Octets) /\ r3 \in Seq(Octets)
      /\ a \o r1 \in Seq(Octets)
      /\ Len(a \o r1) = Len(a) + (Len(b) + (Len(c) + (Len(d) + Len(e))))
      /\ (((a \o b) \o c) \o d) \o e = a \o r1
    <2> HIDE DEF a, b, c, d, e
    <2>1. InFive(Octets, a, b, c, d, e)
        BY <1>3, <1>4, <1>5, FiveParts
    <2> QED BY <2>1 DEF InFive
<1>8. bejEncodeBejReal(real) = a \o r1
    <2> HIDE DEF a, r1
    <2> QED BY <1>6, <1>7
<1>10. Len(bejEncodeBejReal(real)) = RealSize(real)
    <2> DEFINE z == bejNnintEncodingSizeOfUInt(real.zeroCount)
               f == bejNnintEncodingSizeOfUInt(real.fract)
               o == bejNnintEncodingSizeOfUInt(0)
    <2>1. Len(bejEncodeBejReal(real)) = 2 + (n + (z + (f + o)))
        BY <1>3, <1>4, <1>5, <1>7, <1>8
    <2>2. z \in Int /\ f \in Int /\ o \in Int /\ n \in Int
        <3>1. z \in 2 .. IntBytes + 1 /\ f \in 2 .. IntBytes + 1 /\ o \in 2 .. IntBytes + 1
            BY <1>1, <1>2, NnintShape
        <3> QED BY <1>2, <3>1
    <2>3. RealSize(real) = 2 + n + z + f + o
        BY DEF RealSize
    <2> HIDE DEF z, f, o, n
    <2> QED BY <2>1, <2>2, <2>3
<1>11. ASSUME bytes = a \o r1 PROVE bejHandleBejReal = real
    <2>1. /\ bejGetNnint(bytes) = n
          /\ After(bytes, bejGetNnintSize(bytes)) = r1
        <3> HIDE DEF n, r1
        <3> QED BY <1>2, <1>7, <1>11, ReadNnint
    <2>2. /\ bejGetIntegerValue(r1, n) = real.whole
          /\ After(r1, n) = r2
        <3> HIDE DEF r2
        <3> QED BY <1>1, <1>7, ReadInt
    <2>3. /\ bejGetNnint(r2) = real.zeroCount
          /\ After(r2, bejGetNnintSize(r2)) = r3
        <3> HIDE DEF r3
        <3> QED BY <1>1, <1>7, ReadNnint
    <2>4. bejGetNnint(r3) = real.fract
        <3> HIDE DEF e
        <3> QED BY <1>1, <1>5, ReadNnint
    <2> HIDE DEF r1, r2, r3, n
    <2>5. bejHandleBejReal = [whole |-> real.whole, zeroCount |-> real.zeroCount,
                              fract |-> real.fract]
        BY <2>1, <2>2, <2>3, <2>4 DEF bejHandleBejReal
    <2> QED BY <1>1, <2>5
<1> HIDE DEF a, r1
<1> QED BY <1>7, <1>8, <1>10, <1>11

LEMMA NumberKinds ==
    ASSUME number \in Numbers
    PROVE  /\ number.kind \in {"nnint", "Integer", "Real"}
           /\ number.kind = "nnint" =>
                 number.value \in Unsigned /\ number = [kind |-> "nnint", value |-> number.value]
           /\ number.kind = "Integer" =>
                 number.value \in Signed /\ number = [kind |-> "Integer", value |-> number.value]
           /\ number.kind = "Real" =>
                 /\ number.negative \in BOOLEAN /\ number.whole \in Nat /\ number.fract \in Nat
                 /\ number.fract < Power(10, FractDigits)
<1>1. \/ number \in [kind: {"nnint"}, value: Unsigned]
      \/ number \in [kind: {"Integer"}, value: Signed]
      \/ number \in [kind: {"Real"}, negative: BOOLEAN, whole: Nat, fract: Nat]
    BY NumbersAssumption DEF NumberType
<1>2. number.kind = "Real" => number.fract < Power(10, FractDigits)
    BY Widths
<1> QED BY <1>1, <1>2

\* The loop of bejUpdateRealMetaData: the turns it makes, and the zeros it counts.
LEMMA LoopOfZeros ==
    ASSUME number \in Numbers, number.kind = "Real"
    PROVE  /\ Turns \in 0 .. BEJ_REAL_PRECISION
           /\ NothingLeft(Turns) \/ Turns = BEJ_REAL_PRECISION
           /\ LeadingZeros \in 0 .. Turns
           /\ \A n \in 1 .. Turns : Part(number.fract, n) = 0 <=> n <= LeadingZeros
<1> DEFINE p == BEJ_REAL_PRECISION
           stops(n) == NothingLeft(n) \/ n = p
           first(n) == stops(n) /\ \A m \in 0 .. n - 1 : ~NothingLeft(m)
           T == {n \in 0 .. p : stops(n)}
           zero(n) == Part(number.fract, n) = 0
<1>1. p \in Nat /\ number.fract \in Nat /\ number.fract < Power(10, FractDigits)
    BY Widths, NumberKinds
<1>2. PICK x \in T : \A y \in T : x <= y
    <2>1. p \in T /\ T \in SUBSET Nat /\ T # {}
        BY <1>1
    <2> HIDE DEF T
    <2> QED BY <2>1, LeastNatural
<1>3. x \in 0 .. p /\ first(x)
    <2>1. ASSUME NEW m \in 0 .. x - 1 PROVE ~NothingLeft(m)
        <3>1. m \in 0 .. p /\ ~(x <= m)
            BY <1>1
        <3> QED BY <1>2, <3>1
    <2> QED BY <2>1
<1>4. Turns \in 0 .. p /\ first(Turns)
    <2>1. \E n \in 0 .. BEJ_REAL_PRECISION :
             /\ NothingLeft(n) \/ n = BEJ_REAL_PRECISION
             /\ \A m \in 0 .. n - 1 : ~NothingLeft(m)
        BY <1>3
    <2> QED BY <2>1 DEF Turns
<1> DEFINE t == Turns
<1>5. t \in Nat /\ t \in 0 .. p
    BY <1>1, <1>4
<1> HIDE DEF t, p, first, T
<1> DEFINE Z == {k \in 0 .. t : k = t \/ ~zero(k + 1)}
<1>6. PICK z \in Z : \A y \in Z : z <= y
    <2>1. t \in Z /\ Z \in SUBSET Nat /\ Z # {}
        BY <1>5
    <2> HIDE DEF Z
    <2> QED BY <2>1, LeastNatural
<1>7. z \in 0 .. t /\ z \in Nat
    BY <1>5
<1>8. ASSUME NEW n \in 1 .. t PROVE zero(n) <=> n <= z
    <2>1. ASSUME n <= z, ~zero(n) PROVE FALSE
        <3>1. n - 1 \in 0 .. t /\ n - 1 + 1 = n /\ ~(z <= n - 1)
            BY <1>5, <1>7, <2>1
        <3>2. n - 1 \in Z
            BY <2>1, <3>1
        <3> HIDE DEF Z
        <3> QED BY <1>6, <3>1, <3>2
    <2>2. ASSUME ~(n <= z), zero(n) PROVE FALSE
        <3>1. z # t /\ z + 1 \in Nat /\ n \in Nat /\ z + 1 <= n
            BY <1>5, <1>7, <2>2
        <3>2. ~zero(z + 1)
            BY <3>1
        <3> QED BY <1>1, <2>2, <3>1, <3>2, PartMonotone
    <2> QED BY <2>1, <2>2
<1>9. {n \in 1 .. t : IntegerPart(n) = 0} = 1 .. z
    <2>1. \A n \in 1 .. t : (IntegerPart(n) = 0) <=> n <= z
        BY <1>8 DEF IntegerPart, Part
    <2>2. \A n : n \in 1 .. z <=> n \in 1 .. t /\ n <= z
        BY <1>5, <1>7
    <2> QED BY <2>1, <2>2
<1>10. Cardinality(1 .. z) = z
    <2>1. 1 \in Int /\ z \in Int /\ (1 > z <=> z = 0)
        BY <1>7
    <2>2. Cardinality(1 .. z) = IF 1 > z THEN 0 ELSE z - 1 + 1
        BY <2>1, FS_Interval
    <2> QED BY <1>7, <2>1, <2>2
<1>11. LeadingZeros = z
    BY <1>9, <1>10 DEF LeadingZeros, t
<1> QED BY <1>4, <1>7, <1>8, <1>11 DEF t, first, p
LEMMA WholesSigned ==
    ASSUME number \in Numbers, number.kind = "Real"
    PROVE  /\ Wholes \subseteq Signed /\ Wholes # {}
           /\ number.whole <= INT64_MAX =>
                 Wholes = {IF number.negative THEN -number.whole ELSE number.whole}
<1>1. INT64_MIN \in Signed /\ INT64_MAX \in Signed
    <2>1. Word \div 2 \in Nat \ {0}
        BY SignedInBytes
    <2> QED BY <2>1 DEF Signed, INT64_MIN, INT64_MAX
<1>2. number.whole <= INT64_MAX =>
         (IF number.negative THEN -number.whole ELSE number.whole) \in Signed
    <2>1. Word \div 2 \in Nat \ {0} /\ number.whole \in Nat
        BY SignedInBytes, NumberKinds
    <2> QED BY <2>1 DEF Signed, INT64_MIN, INT64_MAX
<1> QED BY <1>1, <1>2 DEF Wholes

\* The parts of a real have their types, and the zeros can be printed.
LEMMA PartsTyped ==
    ASSUME number \in Numbers, number.kind = "Real"
    PROVE  /\ \A whole \in Wholes :
                 [whole |-> whole, zeroCount |-> LeadingZeros, fract |-> IntegerPart(Turns)]
                    \in BejReal
           /\ LeadingZeros <= MaxZeros
<1>1. /\ Turns \in 0 .. BEJ_REAL_PRECISION /\ LeadingZeros \in 0 .. Turns
      /\ BEJ_REAL_PRECISION \in Nat /\ Turns \in Nat /\ LeadingZeros \in Nat
      /\ LeadingZeros <= BEJ_REAL_PRECISION
    BY LoopOfZeros, Widths
<1>2. BEJ_REAL_PRECISION < Power(10, BEJ_REAL_PRECISION)
    BY <1>1, Tens
<1>3. IntegerPart(Turns) = Part(number.fract, Turns)
    BY DEF IntegerPart, Part
<1>4. Part(number.fract, Turns) \in Nat /\ Part(number.fract, Turns) < Power(10, Turns)
    BY <1>1, NumberKinds, PartBounds
<1>5. Power(10, Turns) <= Power(10, BEJ_REAL_PRECISION)
    BY <1>1, Tens
<1>6. Word \in Nat /\ Power(10, BEJ_REAL_PRECISION) <= Word
    BY Bytes, Widths
<1>7. Power(10, BEJ_REAL_PRECISION) \in Nat /\ Power(10, Turns) \in Nat
    BY <1>1, Tens
<1>8. IntegerPart(Turns) \in Unsigned
    BY <1>3, <1>4, <1>5, <1>6, <1>7 DEF Unsigned
<1>9. LeadingZeros \in Unsigned
    BY <1>1, <1>2, <1>6, <1>7 DEF Unsigned
<1>10. LeadingZeros <= MaxZeros
    BY <1>1, Widths
<1> QED BY <1>8, <1>9, <1>10, WholesSigned DEF BejReal

-----------------------------------------------------------------------------
(* The invariant.                                                            *)

LEMMA SizesTyped ==
    /\ \A v \in Unsigned : bejNnintEncodingSizeOfUInt(v) \in Nat
    /\ \A v \in Signed : bejIntLengthOfValue(v) \in Nat
    /\ \A real \in BejReal : RealSize(real) \in Nat
<1>0. IntBytes \in Nat
    BY Bytes
<1>1. ASSUME NEW v \in Unsigned PROVE bejNnintEncodingSizeOfUInt(v) \in Nat
    BY <1>0, NnintShape
<1>2. ASSUME NEW v \in Signed PROVE bejIntLengthOfValue(v) \in Nat
    BY <1>0, IntegerLength
<1>3. ASSUME NEW real \in BejReal PROVE RealSize(real) \in Nat
    <2>1. bejEncodeBejReal(real) \in Seq(Octets) /\ Len(bejEncodeBejReal(real)) = RealSize(real)
        BY RealWritten
    <2> QED BY <2>1
<1> QED BY <1>1, <1>2, <1>3

LEMMA NumberInvInit == Init => NumberInv
<1> SUFFICES ASSUME Init PROVE NumberInv
    OBVIOUS
<1>1. 0 \in Unsigned /\ 0 \in Signed
    <2>1. Word \div 2 \in Nat \ {0} /\ IntBytes \in Nat
        BY SignedInBytes, Bytes
    <2>2. 0 \in 0 .. IntBytes
        BY <2>1
    <2>3. 0 \in Signed
        BY <2>1 DEF Signed, INT64_MIN, INT64_MAX
    <2> QED BY <2>2, <2>3, SmallUnsigned
<1>2. TypeOK
    <2>1. bejReal \in BejReal
        BY <1>1 DEF Init, NoReal, BejReal
    <2>2. decoded \in [kind: {"nnint"}, value: Unsigned]
        BY <1>1 DEF Init, NoNumber
    <2> QED BY <2>1, <2>2 DEF Init, TypeOK
<1> QED BY <1>2 DEF Init, NumberInv, StatusInv, MeasuredInv, WrittenInv, ReadInv

\* What stays the same of a number that is not measured again.
LEMMA SameNumber ==
    ASSUME UNCHANGED number
    PROVE  /\ TooLarge' = TooLarge /\ Wholes' = Wholes /\ LeadingZeros' = LeadingZeros
           /\ IntegerPart(Turns)' = IntegerPart(Turns)
<1>1. \A n : NothingLeft(n)' = NothingLeft(n) /\ IntegerPart(n)' = IntegerPart(n)
    BY DEF NothingLeft, IntegerPart
<1>2. Turns' = Turns
    BY DEF Turns, NothingLeft
<1>3. LeadingZeros' = LeadingZeros
    BY <1>2 DEF LeadingZeros, IntegerPart
<1>4. IntegerPart(Turns)' = IntegerPart(Turns)
    BY <1>2 DEF IntegerPart
<1> QED BY <1>3, <1>4 DEF TooLarge, Wholes
LEMMA NumberInvNext == NumberInv /\ [Next]_vars => NumberInv'
<1> SUFFICES ASSUME NumberInv, [Next]_vars PROVE NumberInv'
    OBVIOUS
<1>0. /\ TypeOK /\ StatusInv /\ MeasuredInv /\ WrittenInv /\ ReadInv
      /\ number \in Numbers
    BY DEF NumberInv, TypeOK
<1>1. CASE Measure
    <2>1. number.kind \in {"nnint", "Integer"} /\ number' = number /\ pc = "measure"
          /\ pc' = "encode" /\ ret' = ret /\ ret = "OK"
        BY <1>0, <1>1, NumberKinds DEF Measure, StatusInv
    <2>2. vSize' \in Nat
        BY <1>0, <1>1, <2>1, NumberKinds, SizesTyped DEF Measure
    <2>3. TypeOK'
        BY <1>0, <1>1, <2>1, <2>2 DEF Measure, TypeOK
    <2>4. MeasuredInv'
        BY <1>1, <2>1 DEF Measure, MeasuredInv
    <2>5. StatusInv' /\ WrittenInv' /\ ReadInv'
        BY <2>1 DEF StatusInv, WrittenInv, ReadInv
    <2> QED BY <2>3, <2>4, <2>5 DEF NumberInv
<1>2. CASE MeasureReal
    <2>1. number.kind = "Real" /\ number' = number /\ pc = "measure" /\ ret = "OK"
        BY <1>0, <1>2 DEF MeasureReal, StatusInv
    <2>2. /\ TooLarge' = TooLarge /\ Wholes' = Wholes /\ LeadingZeros' = LeadingZeros
          /\ IntegerPart(Turns)' = IntegerPart(Turns)
        BY <2>1, SameNumber
    <2>3. CASE TooLarge
        <3>1. ret' = "Unknown" /\ pc' = "done" /\ bejReal' = bejReal /\ vSize' = vSize
              /\ bytes' = bytes /\ decoded' = decoded
            BY <1>2, <2>3 DEF MeasureReal
        <3>2. TypeOK'
            BY <1>0, <2>1, <3>1 DEF TypeOK
        <3>3. StatusInv'
            BY <2>1, <2>2, <2>3, <3>1 DEF StatusInv
        <3>4. MeasuredInv' /\ WrittenInv' /\ ReadInv'
            BY <3>1 DEF MeasuredInv, WrittenInv, ReadInv
        <3> QED BY <3>2, <3>3, <3>4 DEF NumberInv
    <2>4. CASE ~TooLarge
        <3>1. /\ ret' = ret /\ pc' = "encode" /\ vSize' = RealSize(bejReal')
              /\ bytes' = bytes /\ decoded' = decoded
            BY <1>2, <2>4 DEF MeasureReal
        <3>2. PICK whole \in Wholes :
                 bejReal' = [whole |-> whole, zeroCount |-> LeadingZeros,
                             fract |-> IntegerPart(Turns)]
            BY <1>2, <2>4 DEF MeasureReal
        <3>3. bejReal' \in BejReal
            BY <1>0, <2>1, <3>2, PartsTyped
        <3>4. TakenApart'
            BY <2>2, <3>2 DEF TakenApart
        <3>5. vSize' \in Nat
            BY <3>1, <3>3, SizesTyped
        <3>6. TypeOK'
            BY <1>0, <2>1, <3>1, <3>3, <3>5 DEF TypeOK
        <3>7. RealSize(bejReal)' = RealSize(bejReal')
            BY DEF RealSize
        <3>8. MeasuredInv'
            BY <2>1, <3>1, <3>4, <3>7 DEF MeasuredInv
        <3>9. StatusInv' /\ WrittenInv' /\ ReadInv'
            BY <2>1, <3>1 DEF StatusInv, WrittenInv, ReadInv
        <3> QED BY <3>6, <3>8, <3>9 DEF NumberInv
    <2> QED BY <2>3, <2>4
<1>3. CASE Encode
    <2>1. /\ pc = "encode" /\ pc' = "decode" /\ ret = "OK" /\ ret' = ret /\ number' = number
          /\ bejReal' = bejReal /\ vSize' = vSize /\ decoded' = decoded
        BY <1>0, <1>3 DEF Encode, StatusInv
    <2>2. /\ TooLarge' = TooLarge /\ Wholes' = Wholes /\ LeadingZeros' = LeadingZeros
          /\ IntegerPart(Turns)' = IntegerPart(Turns)
        BY <2>1, SameNumber
    <2>3. /\ number.kind = "nnint" => bytes' = bejEncodeNnint(number.value)
          /\ number.kind = "Integer" => bytes' = bejEncodeInteger(number.value)
          /\ number.kind = "Real" => bytes' = bejEncodeBejReal(bejReal)
        BY <1>3 DEF Encode
    <2>4. bytes' \in Seq(0 .. Byte - 1)
        <3>1. <<>> \in Seq(Octets)
            OBVIOUS
        <3>2. number.kind = "nnint" => bytes' \in Seq(Octets)
            BY <1>0, <2>3, NumberKinds, NnintShape
        <3>3. number.kind = "Integer" => bytes' \in Seq(Octets)
            BY <1>0, <2>3, <3>1, NumberKinds, ReadInt
        <3>4. number.kind = "Real" => bytes' \in Seq(Octets)
            BY <1>0, <2>3, RealWritten DEF TypeOK
        <3> QED BY <1>0, <3>2, <3>3, <3>4, NumberKinds DEF Octets
    <2>5. TypeOK'
        BY <1>0, <2>1, <2>4 DEF TypeOK
    <2>6. WrittenInv'
        <3>1. bejEncodeBejReal(bejReal)' = bejEncodeBejReal(bejReal)
            BY <2>1 DEF bejEncodeBejReal
        <3> QED BY <1>0, <2>1, <2>3, <3>1, NumberKinds DEF WrittenInv
    <2>7. MeasuredInv'
        <3>1. TakenApart' = TakenApart
            BY <2>1, <2>2 DEF TakenApart
        <3>2. RealSize(bejReal)' = RealSize(bejReal)
            BY <2>1 DEF RealSize
        <3> QED BY <1>0, <2>1, <3>1, <3>2, NumberKinds DEF MeasuredInv
    <2>8. StatusInv' /\ ReadInv'
        BY <2>1 DEF StatusInv, ReadInv
    <2> QED BY <2>5, <2>6, <2>7, <2>8 DEF NumberInv
<1>4. CASE Decode
    <2>1. /\ pc = "decode" /\ ret = "OK" /\ ret' = ret /\ number' = number
          /\ pc' = IF number.kind = "Real" THEN "print" ELSE "done"
          /\ bejReal' = bejReal /\ vSize' = vSize /\ bytes' = bytes
        BY <1>0, <1>4 DEF Decode, StatusInv
    <2>2. /\ TooLarge' = TooLarge /\ Wholes' = Wholes /\ LeadingZeros' = LeadingZeros
          /\ IntegerPart(Turns)' = IntegerPart(Turns)
        BY <2>1, SameNumber
    <2>3. ASSUME number.kind = "nnint"
          PROVE  decoded' = number /\ decoded' \in [kind: {"nnint"}, value: Unsigned]
        <3>1. decoded' = [kind |-> "nnint", value |-> bejGetNnint(bytes)]
            BY <1>4, <2>3 DEF Decode
        <3>2. bytes = bejEncodeNnint(number.value) /\ number.value \in Unsigned
              /\ number = [kind |-> "nnint", value |-> number.value]
            BY <1>0, <2>1, <2>3, NumberKinds DEF WrittenInv
        <3>3. bytes \o <<>> = bytes /\ <<>> \in Seq(Octets)
            BY <3>2, NnintShape
        <3>4. bejGetNnint(bytes) = number.value
            BY <3>2, <3>3, ReadNnint
        <3> QED BY <3>1, <3>2, <3>4
    <2>4. ASSUME number.kind = "Integer"
          PROVE  decoded' = number /\ decoded' \in [kind: {"Integer"}, value: Signed]
        <3>1. decoded' = [kind |-> "Integer", value |-> bejGetIntegerValue(bytes, vSize)]
            BY <1>4, <2>4 DEF Decode
        <3>2. bytes = bejEncodeInteger(number.value) /\ number.value \in Signed
              /\ number = [kind |-> "Integer", value |-> number.value]
              /\ vSize = bejIntLengthOfValue(number.value)
            BY <1>0, <2>1, <2>4, NumberKinds DEF WrittenInv, MeasuredInv
        <3>3. <<>> \in Seq(Octets)
            OBVIOUS
        <3>4. bejGetIntegerValue(bytes, vSize) = number.value
            BY <3>2, <3>3, ReadInt
        <3> QED BY <3>1, <3>2, <3>4
    <2>5. ASSUME number.kind = "Real"
          PROVE  /\ decoded' = [kind |-> "Real", real |-> bejReal]
                 /\ decoded' \in [kind: {"Real"}, real: BejReal]
        <3>1. decoded' = [kind |-> "Real", real |-> bejHandleBejReal]
            BY <1>4, <2>5 DEF Decode
        <3>2. bytes = bejEncodeBejReal(bejReal) /\ bejReal \in BejReal
            BY <1>0, <2>1, <2>5 DEF WrittenInv, TypeOK
        <3>3. bejHandleBejReal = bejReal
            BY <3>2, RealWritten
        <3> QED BY <3>1, <3>2, <3>3
    <2>6. /\ decoded' = IF number.kind = "Real" THEN [kind |-> "Real", real |-> bejReal]
                        ELSE number
          /\ decoded' \in [kind: {"nnint"}, value: Unsigned]
                              \cup [kind: {"Integer"}, value: Signed]
                              \cup [kind: {"Real"}, real: BejReal]
        BY <1>0, <2>3, <2>4, <2>5, NumberKinds
    <2>7. TypeOK'
        BY <1>0, <2>1, <2>6 DEF TypeOK
    <2>8. ReadInv'
        BY <2>1, <2>6 DEF ReadInv
    <2>9. WrittenInv'
        <3>1. bejEncodeBejReal(bejReal)' = bejEncodeBejReal(bejReal)
            BY <2>1 DEF bejEncodeBejReal
        <3> QED BY <1>0, <2>1, <3>1, NumberKinds DEF WrittenInv
    <2>10. MeasuredInv'
        <3>1. TakenApart' = TakenApart
            BY <2>1, <2>2 DEF TakenApart
        <3>2. RealSize(bejReal)' = RealSize(bejReal)
            BY <2>1 DEF RealSize
        <3> QED BY <1>0, <2>1, <3>1, <3>2, NumberKinds DEF MeasuredInv
    <2>11. StatusInv'
        BY <2>1 DEF StatusInv
    <2> QED BY <2>7, <2>8, <2>9, <2>10, <2>11 DEF NumberInv
<1>5. CASE callbackReal
    <2>1. /\ pc = "print" /\ pc' = "done" /\ ret = "OK" /\ number.kind = "Real"
          /\ number' = number /\ bejReal' = bejReal /\ vSize' = vSize /\ bytes' = bytes
          /\ decoded' = decoded
        BY <1>0, <1>5 DEF callbackReal, StatusInv
    <2>2. /\ TooLarge' = TooLarge /\ Wholes' = Wholes /\ LeadingZeros' = LeadingZeros
          /\ IntegerPart(Turns)' = IntegerPart(Turns)
        BY <2>1, SameNumber
    <2>3. decoded = [kind |-> "Real", real |-> bejReal] /\ bejReal.zeroCount = LeadingZeros
        BY <1>0, <2>1 DEF ReadInv, MeasuredInv, TakenApart
    <2>4. ret' = "OK"
        <3>1. ~(decoded.real.zeroCount > MaxZeros)
            <4>1. decoded.real.zeroCount = LeadingZeros
                BY <2>3
            <4>2. LeadingZeros <= MaxZeros /\ LeadingZeros \in 0 .. Turns
                  /\ Turns \in 0 .. BEJ_REAL_PRECISION /\ BEJ_REAL_PRECISION \in Nat
                BY <1>0, <2>1, PartsTyped, LoopOfZeros, Widths
            <4> QED BY <4>1, <4>2, Widths
        <3> QED BY <1>5, <3>1 DEF callbackReal
    <2>5. TypeOK'
        BY <1>0, <2>1, <2>4 DEF TypeOK
    <2>6. StatusInv' /\ ReadInv'
        BY <2>1, <2>3, <2>4 DEF StatusInv, ReadInv
    <2>7. WrittenInv'
        <3>1. bejEncodeBejReal(bejReal)' = bejEncodeBejReal(bejReal)
            BY <2>1 DEF bejEncodeBejReal
        <3> QED BY <1>0, <2>1, <3>1 DEF WrittenInv
    <2>8. MeasuredInv'
        <3>1. TakenApart' = TakenApart
            BY <2>1, <2>2 DEF TakenApart
        <3>2. RealSize(bejReal)' = RealSize(bejReal)
            BY <2>1 DEF RealSize
        <3> QED BY <1>0, <2>1, <3>1, <3>2 DEF MeasuredInv
    <2> QED BY <2>5, <2>6, <2>7, <2>8 DEF NumberInv
<1>6. CASE UNCHANGED vars
    <2>1. /\ TooLarge' = TooLarge /\ Wholes' = Wholes /\ LeadingZeros' = LeadingZeros
          /\ IntegerPart(Turns)' = IntegerPart(Turns)
        BY <1>6, SameNumber DEF vars
    <2>2. TypeOK' /\ ReadInv'
        BY <1>0, <1>6 DEF vars, TypeOK, ReadInv
    <2>3. StatusInv'
        BY <1>0, <1>6, <2>1 DEF vars, StatusInv
    <2>4. WrittenInv'
        <3>1. bejEncodeBejReal(bejReal)' = bejEncodeBejReal(bejReal)
            BY <1>6 DEF vars, bejEncodeBejReal
        <3> QED BY <1>0, <1>6, <3>1, NumberKinds DEF vars, WrittenInv
    <2>5. MeasuredInv'
        <3>1. TakenApart' = TakenApart
            BY <1>6, <2>1 DEF vars, TakenApart
        <3>2. RealSize(bejReal)' = RealSize(bejReal)
            BY <1>6 DEF vars, RealSize
        <3> QED BY <1>0, <1>6, <3>1, <3>2, NumberKinds DEF vars, MeasuredInv
    <2> QED BY <2>2, <2>3, <2>4, <2>5 DEF NumberInv
<1> QED BY <1>1, <1>2, <1>3, <1>4, <1>5, <1>6 DEF Next

-----------------------------------------------------------------------------
(* The theorems.                                                             *)

\* The inductive invariant: what the steps of both sides have made of a number.
THEOREM NumberInvHolds == Spec => []NumberInv
<1>1. Init => NumberInv
    BY NumberInvInit
<1>2. NumberInv /\ [Next]_vars => NumberInv'
    BY NumberInvNext
<1> QED BY <1>1, <1>2, PTL DEF Spec

\* Every number, whatever its size, is taken apart into parts that fit their
\* 64 bits, and read back as a value of its kind.
THEOREM TypeCorrect == Spec => []TypeOK
<1>1. NumberInv => TypeOK
    BY DEF NumberInv
<1> QED BY <1>1, NumberInvHolds, PTL

\* For every value, the size that the metadata pass puts in front of it is the
\* number of bytes the encoder then writes (bejUpdateIntMetaData and
\* bejUpdateRealMetaData against bejEncodeBejInteger and bejEncodeBejReal).
THEOREM SizeIsExactHolds == Spec => []SizeIsExact
<1>1. NumberInv => SizeIsExact
    <2> SUFFICES ASSUME NumberInv, pc \in {"decode", "print"} PROVE Len(bytes) = vSize
        BY DEF SizeIsExact
    <2>0. number \in Numbers /\ MeasuredInv /\ WrittenInv /\ ret = "OK" /\ bejReal \in BejReal
        BY DEF NumberInv, StatusInv, TypeOK
    <2>1. CASE number.kind = "nnint"
        BY <2>0, <2>1, NumberKinds, NnintShape DEF MeasuredInv, WrittenInv
    <2>2. CASE number.kind = "Integer"
        <3>1. <<>> \in Seq(Octets)
            OBVIOUS
        <3> QED BY <2>0, <2>2, <3>1, NumberKinds, ReadInt DEF MeasuredInv, WrittenInv
    <2>3. CASE number.kind = "Real"
        BY <2>0, <2>3, RealWritten DEF MeasuredInv, WrittenInv
    <2> QED BY <2>0, <2>1, <2>2, <2>3, NumberKinds
<1> QED BY <1>1, NumberInvHolds, PTL

\* Every uint64_t and int64_t is read as what was written, and an integer not
\* from fewer bytes than bejIntLengthOfValue says.
THEOREM IntegersSurviveHolds == Spec => []IntegersSurvive
<1>1. NumberInv => IntegersSurvive
    <2> SUFFICES ASSUME NumberInv, pc = "done", number.kind # "Real"
                 PROVE  /\ decoded = number
                        /\ number.kind = "Integer" =>
                              \A n \in 1 .. Len(bytes) - 1 :
                                  bejGetIntegerValue(bytes, n) # number.value
        BY DEF IntegersSurvive
    <2>0. number \in Numbers /\ WrittenInv /\ ReadInv /\ ret # "Unknown"
        BY DEF NumberInv, StatusInv, TypeOK
    <2>1. decoded = number
        BY <2>0 DEF ReadInv
    <2>2. ASSUME number.kind = "Integer"
          PROVE  \A n \in 1 .. Len(bytes) - 1 : bejGetIntegerValue(bytes, n) # number.value
        <3>1. bytes = bejEncodeInteger(number.value) /\ number.value \in Signed
            BY <2>0, <2>2, NumberKinds DEF WrittenInv
        <3>2. <<>> \in Seq(Octets)
            OBVIOUS
        <3> QED BY <3>1, <3>2, ReadInt
    <2> QED BY <2>1, <2>2
<1> QED BY <1>1, NumberInvHolds, PTL

\* Every real of the properties' range is printed as what it was, cut to the
\* precision: no zero behind the point is lost or added.
THEOREM RealsSurviveHolds == Spec => []RealsSurvive
<1>1. NumberInv => RealsSurvive
    <2> SUFFICES ASSUME NumberInv, pc = "done", number.kind = "Real",
                        number.whole <= INT64_MAX, number.negative => number.whole # 0
                 PROVE  ret = "OK" /\ Prints(decoded.real, number)
        BY DEF RealsSurvive
    <2>0. /\ number \in Numbers /\ StatusInv /\ MeasuredInv /\ ReadInv
          /\ ret \in {"OK", "Unknown", "InvalidSize"}
        BY DEF NumberInv, TypeOK
    <2>1. /\ number.whole \in Nat /\ number.fract \in Nat /\ number.negative \in BOOLEAN
          /\ number.fract < Power(10, FractDigits)
        BY <2>0, NumberKinds
    <2>2. ~TooLarge
        <3>1. INT64_MAX \in Int
            BY SignedInBytes DEF INT64_MAX
        <3> QED BY <2>1, <3>1 DEF TooLarge
    <2>3. ret = "OK"
        BY <2>0, <2>2 DEF StatusInv
    <2>4. decoded.real = bejReal /\ TakenApart
        BY <2>0, <2>3 DEF ReadInv, MeasuredInv
    <2>5. bejReal.whole = IF number.negative THEN -number.whole ELSE number.whole
        BY <2>0, <2>4, WholesSigned DEF TakenApart
    <2>6. bejReal.zeroCount = LeadingZeros /\ bejReal.fract = Part(number.fract, Turns)
        BY <2>4 DEF TakenApart, IntegerPart, Part
    <2>7. /\ Turns \in 0 .. BEJ_REAL_PRECISION /\ LeadingZeros \in 0 .. Turns
          /\ NothingLeft(Turns) \/ Turns = BEJ_REAL_PRECISION
          /\ \A n \in 1 .. Turns : Part(number.fract, n) = 0 <=> n <= LeadingZeros
        BY <2>0, LoopOfZeros
    <2>8. Part(number.fract, Turns) * Power(10, FractDigits)
             = (number.fract - (number.fract % Power(10, FractDigits - BEJ_REAL_PRECISION)))
                 * Power(10, LeadingZeros + Digits(Part(number.fract, Turns)))
        BY <2>1, <2>7, FractionPrinted DEF NothingLeft
    <2>9. Decimals(bejReal) = LeadingZeros + Digits(Part(number.fract, Turns))
        BY <2>6 DEF Decimals
    <2> QED BY <2>3, <2>4, <2>5, <2>6, <2>8, <2>9 DEF Prints
<1> QED BY <1>1, NumberInvHolds, PTL


=============================================================================
