---------------------------- MODULE BejInduction ----------------------------
(***************************************************************************)
(* Induction over the natural numbers, and recursion, in a form whose      *)
(* parameters are sets and functions: what the proofs about folds over     *)
(* sequences, numbers and trees rest on. A property to be proved by        *)
(* induction is given as the set of the numbers that have it, the step of  *)
(* a recursion as a function.                                              *)
(***************************************************************************)
EXTENDS Integers, SequencesExt, FiniteSetTheorems, TLAPS

\* A nonempty set of naturals has a least element: among the intervals that
\* end in a member of the set, a minimal one for inclusion ends in it.
LEMMA LeastNatural ==
    ASSUME NEW T \in SUBSET Nat, T # {}
    PROVE  \E x \in T : \A y \in T : x <= y
<1> DEFINE R == StrictSubsetOrdering(Nat)
           I == {0 .. x : x \in T}
<1>1. IsWellFoundedOn(R, FiniteSubsetsOf(Nat))
    BY FS_StrictSubsetOrderingWellFounded
<1>2. I \subseteq FiniteSubsetsOf(Nat) /\ I # {}
    <2>1. ASSUME NEW x \in T PROVE 0 .. x \in FiniteSubsetsOf(Nat)
        <3>1. x \in Int /\ 0 \in Int /\ 0 .. x \in SUBSET Nat
            OBVIOUS
        <3>2. IsFiniteSet(0 .. x)
            BY <3>1, FS_Interval
        <3> QED BY <3>1, <3>2 DEF FiniteSubsetsOf
    <2> QED BY <2>1
<1>3. PICK i \in I : \A j \in I : ~(<<j, i>> \in R)
    <2> HIDE DEF R, I
    <2> QED BY <1>1, <1>2, WFMin
<1>4. PICK x \in T : i = 0 .. x
    OBVIOUS
<1>5. ASSUME NEW y \in T PROVE x <= y
    <2>1. x \in Nat /\ y \in Nat /\ 0 .. y \in I
        OBVIOUS
    <2>2. 0 .. x \in SUBSET Nat /\ 0 .. y \in SUBSET Nat
        OBVIOUS
    <2>3. ~(0 .. y \subseteq 0 .. x /\ 0 .. y # 0 .. x)
        BY <1>3, <1>4, <2>1, <2>2 DEF StrictSubsetOrdering
    <2>4. CASE y < x
        <3>1. 0 .. y \subseteq 0 .. x
            BY <2>1, <2>4
        <3>2. x \in 0 .. x /\ x \notin 0 .. y
            BY <2>1, <2>4
        <3> QED BY <2>3, <3>1, <3>2
    <2> QED BY <2>1, <2>4
<1> QED BY <1>5

\* A set of naturals with 0 in it, and with every number the successor, is Nat.
LEMMA Induction ==
    ASSUME NEW T \in SUBSET Nat, 0 \in T, \A n \in T : n + 1 \in T
    PROVE  T = Nat
<1> SUFFICES ASSUME Nat \ T # {} PROVE FALSE
    OBVIOUS
<1>1. PICK x \in Nat \ T : \A y \in Nat \ T : x <= y
    BY LeastNatural
<1>2. x # 0 /\ x - 1 \in Nat
    OBVIOUS
<1>3. x - 1 \in T
    BY <1>1, <1>2
<1> QED BY <1>3

\* f goes from base through the states of a recursion, one step at a time.
IsRun(f, S, base, step) ==
    /\ f \in [Nat -> S]
    /\ f[0] = base
    /\ \A n \in Nat : f[n + 1] = step[n][f[n]]

\* A function may be defined by recursion over the naturals.
LEMMA Recursion ==
    ASSUME NEW S, NEW base \in S, NEW step \in [Nat -> [S -> S]]
    PROVE  \E f : IsRun(f, S, base, step)
<1> DEFINE Upto(n, g) ==
               /\ g \in [0 .. n -> S]
               /\ g[0] = base
               /\ \A i \in 0 .. n - 1 : g[i + 1] = step[i][g[i]]
           T == {n \in Nat : \E g : Upto(n, g)}
           U(n, g, h) == {i \in Nat : i > n \/ g[i] = h[i]}
<1>1. T = Nat
    <2>1. 0 \in T
        <3>1. Upto(0, [i \in 0 .. 0 |-> base])
            OBVIOUS
        <3> QED BY <3>1
    <2>2. ASSUME NEW n \in T PROVE n + 1 \in T
        <3>1. PICK g : Upto(n, g)
            OBVIOUS
        <3>2. n \in Nat /\ g[n] \in S
            BY <3>1
        <3>3. PICK s : s = step[n][g[n]] /\ s \in S
            BY <3>2
        <3>4. PICK h : h \in [0 .. n + 1 -> S] /\ h[n + 1] = s /\ \A i \in 0 .. n : h[i] = g[i]
            <4> DEFINE h == [i \in 0 .. n + 1 |-> IF i = n + 1 THEN s ELSE g[i]]
            <4>1. h \in [0 .. n + 1 -> S] /\ h[n + 1] = s /\ \A i \in 0 .. n : h[i] = g[i]
                BY <3>1, <3>2, <3>3
            <4> QED BY <4>1
        <3>5. h[0] = base
            BY <3>1, <3>2, <3>4
        <3>6. ASSUME NEW i \in 0 .. n PROVE h[i + 1] = step[i][h[i]]
            <4>1. CASE i = n
                BY <3>2, <3>3, <3>4, <4>1
            <4>2. CASE i # n
                <5>1. i \in 0 .. n - 1 /\ i + 1 \in 0 .. n /\ i \in 0 .. n
                    BY <3>2, <4>2
                <5> QED BY <3>1, <3>4, <5>1
            <4> QED BY <4>1, <4>2
        <3>7. Upto(n + 1, h)
            <4>1. n + 1 - 1 = n
                BY <3>2
            <4> QED BY <3>4, <3>5, <3>6, <4>1
        <3> HIDE DEF Upto
        <3> QED BY <3>2, <3>7
    <2> HIDE DEF T
    <2>3. T \in SUBSET Nat
        BY DEF T
    <2> QED BY <2>1, <2>2, <2>3, Induction
<1>2. ASSUME NEW n \in Nat, NEW m \in Nat, n <= m, NEW g, NEW h, Upto(n, g), Upto(m, h)
      PROVE  \A i \in 0 .. n : g[i] = h[i]
    <2> DEFINE V == U(n, g, h)
    <2>1. 0 \in V
        BY <1>2
    <2>2. ASSUME NEW i \in V PROVE i + 1 \in V
        <3>0. i \in Nat
            OBVIOUS
        <3>1. CASE i + 1 > n
            BY <3>0, <3>1
        <3>2. CASE i + 1 <= n
            <4>1. i \in 0 .. n - 1 /\ i \in 0 .. m - 1 /\ g[i] = h[i]
                BY <1>2, <3>0, <3>2
            <4>2. g[i + 1] = step[i][g[i]] /\ h[i + 1] = step[i][h[i]]
                BY <1>2, <4>1
            <4>3. g[i + 1] = h[i + 1]
                BY <4>1, <4>2
            <4> QED BY <3>0, <4>3
        <3> QED BY <3>1, <3>2
    <2>3. V = Nat
        <3> HIDE DEF V
        <3>1. V \in SUBSET Nat
            BY DEF V
        <3> QED BY <2>1, <2>2, <3>1, Induction
    <2> QED BY <2>3
<1> DEFINE G(n) == CHOOSE g : Upto(n, g)
           f == [n \in Nat |-> G(n)[n]]
<1>3. ASSUME NEW n \in Nat PROVE Upto(n, G(n))
    <2>1. \E g : Upto(n, g)
        BY <1>1
    <2> HIDE DEF Upto
    <2> QED BY <2>1
<1>4. f \in [Nat -> S]
    <2>1. ASSUME NEW n \in Nat PROVE G(n)[n] \in S
        <3>1. G(n) \in [0 .. n -> S]
            BY <1>3
        <3> HIDE DEF G
        <3> QED BY <3>1
    <2> HIDE DEF G
    <2> QED BY <2>1
<1>5. ASSUME NEW n \in Nat PROVE f[n] = IF n = 0 THEN base ELSE step[n - 1][f[n - 1]]
    <2>1. CASE n = 0
        BY <1>3, <2>1
    <2>2. CASE n # 0
        <3>1. n - 1 \in Nat /\ n - 1 \in 0 .. n - 1 /\ n - 1 <= n
            BY <2>2
        <3>2. Upto(n, G(n)) /\ Upto(n - 1, G(n - 1))
            BY <1>3, <3>1
        <3>3. G(n - 1)[n - 1] = G(n)[n - 1]
            <4> HIDE DEF Upto, G
            <4> QED BY <1>2, <3>1, <3>2
        <3>4. G(n)[n] = step[n - 1][G(n)[n - 1]]
            <4>1. n - 1 + 1 = n
                OBVIOUS
            <4> HIDE DEF G
            <4> QED BY <3>1, <3>2, <4>1
        <3>5. f[n] = G(n)[n] /\ f[n - 1] = G(n - 1)[n - 1]
            <4> HIDE DEF G
            <4> QED BY <3>1
        <3> HIDE DEF f, G
        <3> QED BY <2>2, <3>3, <3>4, <3>5
    <2> QED BY <2>1, <2>2
<1>6. ASSUME NEW n \in Nat PROVE f[n + 1] = step[n][f[n]]
    <2>1. n + 1 \in Nat /\ n + 1 # 0 /\ n + 1 - 1 = n
        OBVIOUS
    <2> HIDE DEF f
    <2> QED BY <1>5, <2>1
<1>7. f[0] = base
    <2> HIDE DEF f
    <2> QED BY <1>5
<1> HIDE DEF f
<1>8. IsRun(f, S, base, step)
    BY <1>4, <1>6, <1>7 DEF IsRun
<1> QED BY <1>8

-----------------------------------------------------------------------------
(* FoldLeft(op, base, s) is, by its definition, it[DOMAIN s] for some it     *)
(* that satisfies                                                            *)
(*   it = [T \in SUBSET DOMAIN s |->                                         *)
(*            IF T = {} THEN base ELSE op(it[T \ {Max(T)}], s[Max(T)])]      *)

\* A nonempty finite set of numbers has the maximum its name promises.
LEMMA MaxOfInterval ==
    ASSUME NEW n \in Nat, NEW T \in SUBSET (1 .. n), T # {}
    PROVE  Max(T) \in T /\ \A y \in T : y <= Max(T)
<1> DEFINE D == {n - y : y \in T}
<1>1. D \in SUBSET Nat /\ D # {}
    <2>1. \A y \in T : y \in 1 .. n /\ n - y \in Nat
        OBVIOUS
    <2> QED BY <2>1
<1>2. PICK d \in D : \A e \in D : d <= e
    BY <1>1, LeastNatural
<1>3. PICK x \in T : d = n - x
    OBVIOUS
<1>4. ASSUME NEW y \in T PROVE x >= y
    <2>1. n - y \in D /\ x \in Int /\ y \in Int
        OBVIOUS
    <2>2. n - x <= n - y
        BY <1>2, <1>3, <2>1
    <2> QED BY <2>1, <2>2
<1>5. Max(T) \in T /\ \A y \in T : Max(T) >= y
    BY <1>4 DEF Max
<1>6. T \subseteq Int
    OBVIOUS
<1> QED BY <1>5, <1>6

LEMMA IntervalMax ==
    ASSUME NEW k \in Nat \ {0}
    PROVE  Max(1 .. k) = k /\ (1 .. k) \ {k} = 1 .. k - 1 /\ 1 .. k # {}
<1>0. 1 .. k \in SUBSET (1 .. k) /\ 1 .. k # {} /\ k \in Nat
    OBVIOUS
<1>1. Max(1 .. k) \in 1 .. k /\ \A y \in 1 .. k : y <= Max(1 .. k)
    BY <1>0, MaxOfInterval
<1> QED BY <1>1

\* Such a function, into a set S of states.
IsFold(it, S, base, step, s) ==
    /\ it \in [SUBSET DOMAIN s -> S]
    /\ \A T \in SUBSET DOMAIN s :
          it[T] = IF T = {} THEN base ELSE step[it[T \ {Max(T)}]][s[Max(T)]]

\* Its values on the initial segments of s, which are all that matters.
OnSegments(it, S, base, step, s) ==
    /\ it[{}] = base
    /\ \A k \in 1 .. Len(s) :
          it[1 .. k - 1] \in S => it[1 .. k] = step[it[1 .. k - 1]][s[k]]

\* There is such a function.
LEMMA FoldExists ==
    ASSUME NEW S, NEW P, NEW base \in S, NEW step \in [S -> [P -> S]], NEW s \in Seq(P)
    PROVE  \E it : IsFold(it, S, base, step, s)
<1> DEFINE n == Len(s)
           D == SUBSET (1 .. n)
           F == [D -> S]
           base0 == [T \in D |-> base]
<1>1. n \in Nat /\ DOMAIN s = 1 .. n /\ \A i \in 1 .. n : s[i] \in P
    OBVIOUS
<1> DEFINE Next(k, h) ==
               [T \in D |-> IF k \in T THEN step[h[T \ {k}]][s[k]] ELSE h[T]]
           step0 == [k \in Nat |-> [h \in F |->
                        IF k + 1 \in 1 .. n THEN Next(k + 1, h) ELSE h]]
<1>2. ASSUME NEW k \in 1 .. n, NEW h \in F PROVE Next(k, h) \in F
    <2>1. ASSUME NEW T \in D PROVE step[h[T \ {k}]][s[k]] \in S /\ h[T] \in S
        <3>1. T \ {k} \in D /\ s[k] \in P
            BY <1>1
        <3>2. h[T \ {k}] \in S
            BY <3>1
        <3>3. step[h[T \ {k}]] \in [P -> S]
            BY <3>2
        <3>4. h[T] \in S
            OBVIOUS
        <3> QED BY <3>1, <3>3, <3>4
    <2> QED BY <2>1
<1>3. base0 \in F
    OBVIOUS
<1>4. step0 \in [Nat -> [F -> F]]
    <2>1. ASSUME NEW k \in Nat, NEW h \in F
          PROVE  (IF k + 1 \in 1 .. n THEN Next(k + 1, h) ELSE h) \in F
        <3> HIDE DEF F, Next
        <3> QED BY <1>2
    <2> HIDE DEF F, Next
    <2> QED BY <2>1
<1>5. PICK f : IsRun(f, F, base0, step0)
    <2> HIDE DEF F, base0, step0
    <2> QED BY <1>3, <1>4, Recursion, Zenon
<1>6. ASSUME NEW k \in 1 .. n PROVE f[k] = Next(k, f[k - 1])
    <2>1. k - 1 \in Nat /\ k - 1 + 1 = k
        BY <1>1
    <2>2. f[k - 1] \in F
        <3> HIDE DEF F
        <3> QED BY <1>5, <2>1 DEF IsRun
    <2>3. f[k] = step0[k - 1][f[k - 1]]
        <3> HIDE DEF F, base0, step0
        <3> QED BY <1>5, <2>1, <2>2 DEF IsRun
    <2> HIDE DEF F, Next
    <2> QED BY <2>1, <2>2, <2>3
<1>7. f[0] = base0
    <2> HIDE DEF F, base0, step0
    <2> QED BY <1>5 DEF IsRun
\* What a later step adds does not matter to a set it is above of.
<1> DEFINE Same == {k \in Nat : \A T \in D : \A m \in 0 .. k :
                       (k <= n /\ T \subseteq 1 .. m) => f[k][T] = f[m][T]}
<1>8. Same = Nat
    <2>1. 0 \in Same
        OBVIOUS
    <2>2. ASSUME NEW k \in Same PROVE k + 1 \in Same
        <3> SUFFICES ASSUME k + 1 <= n, NEW T \in D, NEW m \in 0 .. k + 1, T \subseteq 1 .. m
                     PROVE  f[k + 1][T] = f[m][T]
            <4>1. k + 1 \in Nat
                OBVIOUS
            <4> HIDE DEF D
            <4> QED BY <4>1
        <3>0. k \in Nat /\ k <= n /\ k + 1 \in 1 .. n
            BY <1>1
        <3>1. CASE m = k + 1
            BY <3>1
        <3>2. CASE m # k + 1
            <4>1. m \in 0 .. k /\ k + 1 \notin T
                BY <3>0, <3>2
            <4>2. k + 1 - 1 = k
                BY <3>0
            <4>3. f[k + 1] = Next(k + 1, f[k])
                <5> HIDE DEF Next
                <5> QED BY <1>6, <3>0, <4>2
            <4>4. f[k + 1][T] = f[k][T]
                BY <4>1, <4>3
            <4>5. f[k][T] = f[m][T]
                BY <3>0, <4>1
            <4> QED BY <4>4, <4>5
        <3> QED BY <3>1, <3>2
    <2>3. Same \in SUBSET Nat
        OBVIOUS
    <2> HIDE DEF Same
    <2> QED BY <2>1, <2>2, <2>3, Induction
<1>9. f[n] \in F
    <2> HIDE DEF F
    <2> QED BY <1>1, <1>5 DEF IsRun
<1>10. ASSUME NEW T \in D
       PROVE  f[n][T] = IF T = {} THEN base ELSE step[f[n][T \ {Max(T)}]][s[Max(T)]]
    <2>0. \A m \in 0 .. n : T \subseteq 1 .. m => f[n][T] = f[m][T]
        <3>1. n \in Same /\ n <= n
            <4> HIDE DEF Same
            <4> QED BY <1>1, <1>8
        <3> HIDE DEF D, n
        <3> QED BY <3>1
    <2>1. CASE T = {}
        <3>1. 0 \in 0 .. n /\ T \subseteq 1 .. 0
            BY <1>1, <2>1
        <3>2. f[n][T] = f[0][T]
            BY <2>0, <3>1
        <3> QED BY <1>7, <2>1, <3>2
    <2>2. CASE T # {}
        <3> DEFINE k == Max(T)
        <3>1. k \in T /\ \A y \in T : y <= k
            BY <1>1, <2>2, MaxOfInterval
        <3> HIDE DEF k
        <3>2. k \in 1 .. n /\ k \in 0 .. n /\ k - 1 \in 0 .. n /\ k <= n
            BY <1>1, <3>1
        <3>3. T \subseteq 1 .. k /\ T \ {k} \subseteq 1 .. k - 1 /\ T \ {k} \in D
            BY <1>1, <3>1, <3>2
        <3>4. f[n][T] = f[k][T]
            BY <2>0, <3>2, <3>3
        <3>5. f[n][T \ {k}] = f[k - 1][T \ {k}]
            <4>1. k - 1 \in Same /\ k \in Nat /\ k \in Same
                <5> HIDE DEF Same
                <5> QED BY <1>1, <1>8, <3>2
            <4>2. n \in Same
                <5> HIDE DEF Same
                <5> QED BY <1>1, <1>8
            <4> HIDE DEF D, n
            <4> QED BY <1>1, <3>2, <3>3, <4>1, <4>2
        <3>6. f[k][T] = step[f[k - 1][T \ {k}]][s[k]]
            BY <1>6, <3>1, <3>2
        <3> QED BY <2>2, <3>4, <3>5, <3>6 DEF k
    <2> QED BY <2>1, <2>2
<1> HIDE DEF D, F
<1> QED BY <1>1, <1>9, <1>10 DEF D, F, IsFold

\* Whatever satisfies the equation on the initial segments of a sequence goes
\* through the states of the recursion.
InStates(it, S, s) == \A k \in 0 .. Len(s) : it[1 .. k] \in S

LEMMA FoldRange ==
    ASSUME NEW S, NEW P, NEW base \in S, NEW step \in [S -> [P -> S]], NEW s \in Seq(P),
           NEW it, OnSegments(it, S, base, step, s)
    PROVE  InStates(it, S, s)
<1> DEFINE R == {k \in Nat : k <= Len(s) => it[1 .. k] \in S}
<1>1. 0 \in R
    <2>1. 1 .. 0 = {}
        OBVIOUS
    <2> QED BY <2>1 DEF OnSegments
<1>2. ASSUME NEW k \in R PROVE k + 1 \in R
    <2> SUFFICES ASSUME k + 1 <= Len(s) PROVE it[1 .. k + 1] \in S
        OBVIOUS
    <2>1. k \in Nat /\ k + 1 \in 1 .. Len(s) /\ k + 1 - 1 = k /\ k <= Len(s)
        OBVIOUS
    <2>2. it[1 .. k] \in S /\ s[k + 1] \in P
        BY <2>1
    <2>3. it[1 .. k + 1] = step[it[1 .. k]][s[k + 1]]
        BY <2>1, <2>2 DEF OnSegments
    <2> QED BY <2>2, <2>3
<1>3. R = Nat
    <2>1. R \in SUBSET Nat
        OBVIOUS
    <2> HIDE DEF R
    <2> QED BY <1>1, <1>2, <2>1, Induction
<1>4. ASSUME NEW k \in 0 .. Len(s) PROVE it[1 .. k] \in S
    <2>1. k \in Nat /\ k <= Len(s)
        OBVIOUS
    <2>2. k \in R
        <3> HIDE DEF R
        <3> QED BY <1>3, <2>1
    <2> QED BY <2>1, <2>2
<1> HIDE DEF R
<1> QED BY <1>4 DEF InStates

\* Folding one more element is one more step.
OneStepOn(it, jt, S, step, s, e) ==
    /\ it[1 .. Len(s)] \in S
    /\ jt[1 .. Len(s) + 1] = step[it[1 .. Len(s)]][e]

LEMMA FoldAppend ==
    ASSUME NEW S, NEW P, NEW base \in S, NEW step \in [S -> [P -> S]],
           NEW s \in Seq(P), NEW e \in P, NEW it, NEW jt,
           OnSegments(it, S, base, step, s), OnSegments(jt, S, base, step, Append(s, e))
    PROVE  OneStepOn(it, jt, S, step, s, e)
<1> DEFINE n == Len(s)
           t == Append(s, e)
           R == {k \in Nat : k <= n => it[1 .. k] = jt[1 .. k]}
<1>0. /\ n \in Nat /\ t \in Seq(P) /\ Len(t) = n + 1 /\ t[n + 1] = e
      /\ \A k \in 1 .. n : t[k] = s[k]
    OBVIOUS
<1>1. \A k \in 0 .. n : it[1 .. k] \in S
    <2> HIDE DEF t, n
    <2>1. InStates(it, S, s)
        BY FoldRange, Zenon
    <2> QED BY <2>1 DEF n, InStates
<1>2. \A k \in 0 .. n + 1 : jt[1 .. k] \in S
    <2> HIDE DEF t, n
    <2>1. OnSegments(jt, S, base, step, t)
        BY DEF t
    <2>2. InStates(jt, S, t)
        BY <1>0, <2>1, FoldRange, Zenon
    <2> QED BY <1>0, <2>2 DEF InStates
<1>3. 0 \in R
    <2>1. 1 .. 0 = {}
        OBVIOUS
    <2> QED BY <2>1 DEF OnSegments
<1>4. ASSUME NEW k \in R PROVE k + 1 \in R
    <2> SUFFICES ASSUME k + 1 <= n PROVE it[1 .. k + 1] = jt[1 .. k + 1]
        OBVIOUS
    <2>1. /\ k \in Nat /\ k + 1 \in 1 .. n /\ k + 1 \in 1 .. n + 1
          /\ k + 1 - 1 = k /\ k <= n /\ k \in 0 .. n
        BY <1>0
    <2>2. it[1 .. k] = jt[1 .. k] /\ it[1 .. k] \in S /\ t[k + 1] = s[k + 1]
        BY <1>0, <1>1, <2>1
    <2>3. it[1 .. k + 1] = step[it[1 .. k]][s[k + 1]]
        <3>1. \A m \in 1 .. n :
                 it[1 .. m - 1] \in S => it[1 .. m] = step[it[1 .. m - 1]][s[m]]
            BY DEF OnSegments
        <3> HIDE DEF n, t
        <3> QED BY <2>1, <2>2, <3>1
    <2>4. jt[1 .. k + 1] = step[jt[1 .. k]][t[k + 1]]
        <3>1. \A m \in 1 .. n + 1 :
                 jt[1 .. m - 1] \in S => jt[1 .. m] = step[jt[1 .. m - 1]][t[m]]
            BY <1>0 DEF OnSegments
        <3> HIDE DEF n, t
        <3> QED BY <2>1, <2>2, <3>1
    <2> QED BY <2>2, <2>3, <2>4
<1>5. R = Nat
    <2>1. R \in SUBSET Nat
        OBVIOUS
    <2> HIDE DEF R
    <2> QED BY <1>3, <1>4, <2>1, Induction
<1>6. it[1 .. n] = jt[1 .. n] /\ it[1 .. n] \in S
    BY <1>0, <1>1, <1>5
<1>7. jt[1 .. n + 1] = step[jt[1 .. n]][e]
    <2>1. n + 1 \in 1 .. n + 1 /\ n + 1 - 1 = n /\ n \in 0 .. n + 1
        BY <1>0
    <2> QED BY <1>0, <1>2, <2>1 DEF OnSegments
<1> QED BY <1>6, <1>7 DEF OneStepOn

-----------------------------------------------------------------------------
(* Recursion over linked data: from every d of D that is not an end two      *)
(* links go on, a[d] and b[d], and no way along links comes back.            *)

NoWayBack(D, ends, a, b) ==
    /\ ends \subseteq D
    /\ a \in [D \ ends -> D]
    /\ b \in [D \ ends -> D]
    /\ \A S \in SUBSET D :
          S # {} => \E d \in S : d \in ends \/ (a[d] \notin S /\ b[d] \notin S)

\* What the ends have, and every d has when what it is linked to has it, all of
\* D has.
LEMMA LinkInduction ==
    ASSUME NEW D, NEW ends, NEW a, NEW b, NoWayBack(D, ends, a, b),
           NEW T \in SUBSET D, ends \subseteq T,
           \A d \in D \ ends : a[d] \in T /\ b[d] \in T => d \in T
    PROVE  T = D
<1> SUFFICES ASSUME D \ T # {} PROVE FALSE
    OBVIOUS
<1>1. PICK d \in D \ T : d \in ends \/ (a[d] \notin D \ T /\ b[d] \notin D \ T)
    BY DEF NoWayBack
<1>2. d \in D \ ends /\ a[d] \in D /\ b[d] \in D
    BY <1>1 DEF NoWayBack
<1>3. a[d] \in T /\ b[d] \in T
    BY <1>1, <1>2
<1> QED BY <1>1, <1>2, <1>3

\* f is what the recursion with the steps of step makes of D.
IsLinkRun(f, D, ends, a, b, V, zero, step) ==
    /\ f \in [D -> V]
    /\ \A d \in ends : f[d] = zero
    /\ \A d \in D \ ends : f[d] = step[d][f[a[d]]][f[b[d]]]

LEMMA LinkRecursion ==
    ASSUME NEW D, NEW ends, NEW a, NEW b, NoWayBack(D, ends, a, b),
           NEW V, NEW zero \in V, NEW step \in [D \ ends -> [V -> [V -> V]]]
    PROVE  \E f : IsLinkRun(f, D, ends, a, b, V, zero, step)
<1> DEFINE E == D \ ends
           P == D \X V
           Closed(S) ==
               /\ \A d \in ends : <<d, zero>> \in S
               /\ \A d \in E, u \in V, v \in V :
                     <<a[d], u>> \in S /\ <<b[d], v>> \in S => <<d, step[d][u][v]>> \in S
           L == {p \in P : \A S \in SUBSET P : Closed(S) => p \in S}
           T == {d \in D : \E v \in V : \A w \in V : <<d, w>> \in L <=> w = v}
<1>1. /\ ends \subseteq D
      /\ \A d \in E : a[d] \in D /\ b[d] \in D
      /\ \A d \in E, u \in V, v \in V : step[d][u][v] \in V
    <2>1. ASSUME NEW d \in E, NEW u \in V, NEW v \in V PROVE step[d][u][v] \in V
        <3>1. step[d] \in [V -> [V -> V]]
            OBVIOUS
        <3>2. step[d][u] \in [V -> V]
            BY <3>1
        <3> QED BY <3>2
    <2> QED BY <2>1 DEF NoWayBack
<1>2. Closed(L)
    <2>1. ASSUME NEW d \in ends PROVE <<d, zero>> \in L
        <3>1. <<d, zero>> \in P
            BY <1>1
        <3> QED BY <3>1
    <2>2. ASSUME NEW d \in E, NEW u \in V, NEW v \in V, <<a[d], u>> \in L, <<b[d], v>> \in L
          PROVE  <<d, step[d][u][v]>> \in L
        <3>1. <<d, step[d][u][v]>> \in P
            BY <1>1
        <3>2. ASSUME NEW S \in SUBSET P, Closed(S) PROVE <<d, step[d][u][v]>> \in S
            <4>1. <<a[d], u>> \in S /\ <<b[d], v>> \in S
                BY <2>2, <3>2
            <4> QED BY <3>2, <4>1
        <3> HIDE DEF Closed, P
        <3> QED BY <3>1, <3>2
    <2> QED BY <2>1, <2>2
<1>3. L \in SUBSET P /\ \A S \in SUBSET P : Closed(S) => L \subseteq S
    OBVIOUS
<1> HIDE DEF L
<1>4. ASSUME NEW d \in ends PROVE d \in T
    <2>1. ASSUME NEW w \in V, <<d, w>> \in L, w # zero PROVE FALSE
        <3>1. Closed(L \ {<<d, w>>})
            <4>1. \A e \in ends : <<e, zero>> \in L \ {<<d, w>>}
                BY <1>2, <2>1
            <4>2. ASSUME NEW e \in E, NEW u \in V, NEW v \in V,
                         <<a[e], u>> \in L \ {<<d, w>>}, <<b[e], v>> \in L \ {<<d, w>>}
                  PROVE  <<e, step[e][u][v]>> \in L \ {<<d, w>>}
                <5>1. <<e, step[e][u][v]>> \in L
                    BY <1>2, <4>2
                <5> QED BY <5>1
            <4> QED BY <4>1, <4>2
        <3>2. L \ {<<d, w>>} \in SUBSET P
            BY <1>3
        <3> HIDE DEF Closed, P
        <3> QED BY <1>3, <2>1, <3>1, <3>2
    <2>2. <<d, zero>> \in L
        BY <1>2
    <2>3. \A w \in V : <<d, w>> \in L <=> w = zero
        BY <2>1, <2>2
    <2> QED BY <1>1, <2>3
<1>5. ASSUME NEW d \in E, a[d] \in T, b[d] \in T PROVE d \in T
    <2>1. PICK u \in V : \A w \in V : <<a[d], w>> \in L <=> w = u
        BY <1>5
    <2>2. PICK v \in V : \A w \in V : <<b[d], w>> \in L <=> w = v
        BY <1>5
    <2>3. PICK x \in V : x = step[d][u][v]
        BY <1>1
    <2>4. <<d, x>> \in L
        BY <1>2, <2>1, <2>2, <2>3
    <2>5. ASSUME NEW w \in V, <<d, w>> \in L, w # x PROVE FALSE
        <3>1. Closed(L \ {<<d, w>>})
            <4>1. \A e \in ends : <<e, zero>> \in L \ {<<d, w>>}
                BY <1>2
            <4>2. ASSUME NEW e \in E, NEW s \in V, NEW t \in V,
                         <<a[e], s>> \in L \ {<<d, w>>}, <<b[e], t>> \in L \ {<<d, w>>}
                  PROVE  <<e, step[e][s][t]>> \in L \ {<<d, w>>}
                <5>1. <<e, step[e][s][t]>> \in L
                    BY <1>2, <4>2
                <5>2. CASE e = d
                    <6>1. s = u /\ t = v
                        BY <2>1, <2>2, <4>2, <5>2
                    <6>2. step[e][s][t] = x
                        BY <2>3, <5>2, <6>1
                    <6> QED BY <2>5, <5>1, <6>2
                <5>3. CASE e # d
                    BY <5>1, <5>3
                <5> QED BY <5>2, <5>3
            <4> QED BY <4>1, <4>2
        <3>2. L \ {<<d, w>>} \in SUBSET P
            BY <1>3
        <3> HIDE DEF Closed, P
        <3> QED BY <1>3, <2>5, <3>1, <3>2
    <2>6. \A w \in V : <<d, w>> \in L <=> w = x
        BY <2>4, <2>5
    <2> QED BY <2>6
<1>6. T = D
    <2>1. T \in SUBSET D /\ ends \subseteq T
        BY <1>1, <1>4
    <2>2. \A d \in D \ ends : a[d] \in T /\ b[d] \in T => d \in T
        BY <1>5
    <2>3. NoWayBack(D, ends, a, b)
        OBVIOUS
    <2> HIDE DEF T, P, Closed
    <2> QED BY ONLY <2>1, <2>2, <2>3, LinkInduction
<1> DEFINE Value(d) == CHOOSE v \in V : <<d, v>> \in L
           f == [d \in D |-> Value(d)]
<1>7. ASSUME NEW d \in D PROVE f[d] \in V /\ \A w \in V : <<d, w>> \in L <=> w = f[d]
    <2>1. PICK v \in V : \A w \in V : <<d, w>> \in L <=> w = v
        BY <1>6
    <2>2. Value(d) = v
        BY <2>1
    <2>3. f[d] = Value(d)
        OBVIOUS
    <2> HIDE DEF f, Value
    <2> QED BY <2>1, <2>2, <2>3
<1>8. f \in [D -> V]
    <2>1. ASSUME NEW d \in D PROVE Value(d) \in V
        BY <1>7
    <2> HIDE DEF Value
    <2> QED BY <2>1
<1> HIDE DEF f
<1>9. ASSUME NEW d \in ends PROVE f[d] = zero
    BY <1>1, <1>2, <1>7
<1>10. ASSUME NEW d \in E PROVE f[d] = step[d][f[a[d]]][f[b[d]]]
    <2>1. a[d] \in D /\ b[d] \in D /\ d \in D
        BY <1>1
    <2>2. /\ f[a[d]] \in V /\ f[b[d]] \in V
          /\ <<a[d], f[a[d]]>> \in L /\ <<b[d], f[b[d]]>> \in L
        BY <1>7, <2>1
    <2>3. <<d, step[d][f[a[d]]][f[b[d]]]>> \in L /\ step[d][f[a[d]]][f[b[d]]] \in V
        BY <1>1, <1>2, <2>2
    <2> QED BY <1>7, <2>1, <2>3
<1> HIDE DEF E
<1>11. IsLinkRun(f, D, ends, a, b, V, zero, step)
    BY <1>8, <1>9, <1>10 DEF IsLinkRun, E
<1> QED BY <1>11

=============================================================================
