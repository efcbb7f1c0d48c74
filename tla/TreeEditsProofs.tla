-------------------------- MODULE TreeEditsProofs --------------------------
(***************************************************************************)
(* What the operators on lists of children compute.  They are recursive    *)
(* functions, so what is said of them rests on induction; the provers      *)
(* cannot instantiate an induction theorem that takes a predicate, but one *)
(* about a set does as well, and it follows from the well-foundedness of   *)
(* the strict subsets of a finite set.                                     *)
(***************************************************************************)
EXTENDS TreeEdits, SequenceTheorems, FiniteSetTheorems, TLAPS

-----------------------------------------------------------------------------
(* Induction and recursion over the natural numbers.                        *)

\* Whatever set of numbers holds 0 and with each number the next, holds all.
LEMMA SetInduction ==
    ASSUME NEW T, 0 \in T, \A n \in Nat : n \in T => n + 1 \in T
    PROVE  Nat \subseteq T
<1> SUFFICES ASSUME NEW m \in Nat, m \notin T
             PROVE  FALSE
    OBVIOUS
<1> DEFINE C == {1..k : k \in Nat \ T}
<1>1. C # {} /\ C \subseteq FiniteSubsetsOf(Nat)
    <2>1. \A k \in Nat : IsFiniteSet(1..k)
        BY FS_Interval
    <2> QED BY <2>1 DEF FiniteSubsetsOf
<1>2. IsWellFoundedOn(StrictSubsetOrdering(Nat), FiniteSubsetsOf(Nat))
    BY FS_StrictSubsetOrderingWellFounded
<1>3. \E s \in C : \A t \in C : ~(<<t, s>> \in StrictSubsetOrdering(Nat))
    <2> HIDE DEF C
    <2> QED BY <1>1, <1>2, WFMin, Zenon
<1>4. PICK k \in Nat \ T : \A t \in C : <<t, 1..k>> \notin StrictSubsetOrdering(Nat)
    BY <1>3
<1>5. k - 1 \in Nat \ T
    BY <1>4
<1>6. <<1..(k-1), 1..k>> \in StrictSubsetOrdering(Nat)
    BY <1>5 DEF StrictSubsetOrdering
<1> QED BY <1>4, <1>5, <1>6

\* f begins at base and takes the steps 1..n within S.
Solves(f, S, base, n, step) ==
    /\ f \in [0..n -> S]
    /\ f[0] = base
    /\ \A i \in 1..n : f[i] = step[i][f[i - 1]]

\* A function can be defined by its value at 0 and a step.
LEMMA RecursionExists ==
    ASSUME NEW S, NEW base \in S, NEW n \in Nat,
           NEW step \in [1..n -> [S -> S]]
    PROVE  \E f : Solves(f, S, base, n, step)
<1> DEFINE T == {k \in Nat : k <= n => \E f : Solves(f, S, base, k, step)}
<1> USE DEF Solves
<1>1. 0 \in T
    <2>1. Solves([i \in 0..0 |-> base], S, base, 0, step)
        OBVIOUS
    <2> QED BY <2>1
<1>2. ASSUME NEW k \in Nat, k \in T
      PROVE  k + 1 \in T
    <2> SUFFICES ASSUME k + 1 <= n
                 PROVE  \E f : Solves(f, S, base, k + 1, step)
        OBVIOUS
    <2>1. PICK f : Solves(f, S, base, k, step)
        BY <1>2
    <2> DEFINE g == [i \in 0..(k + 1) |-> IF i = k + 1 THEN step[k + 1][f[k]] ELSE f[i]]
    <2>2. f[k] \in S /\ k + 1 \in 1..n
        BY <2>1
    <2>3. g \in [0..(k + 1) -> S] /\ g[0] = base
        BY <2>1, <2>2
    <2>4. ASSUME NEW i \in 1..(k + 1)
          PROVE  g[i] = step[i][g[i - 1]]
        <3>1. g[i - 1] = f[i - 1] /\ i - 1 \in 0..k
            OBVIOUS
        <3>2. CASE i = k + 1
            <4>1. i - 1 = k /\ g[i] = step[i][f[k]]
                BY <3>2
            <4> QED BY <3>1, <4>1
        <3>3. CASE i # k + 1
            <4>1. i \in 1..k /\ g[i] = f[i]
                BY <3>3
            <4> QED BY <2>1, <3>1, <4>1
        <3> QED BY <3>2, <3>3
    <2> QED BY <2>3, <2>4
<1>3. n \in T
    BY <1>1, <1>2, SetInduction
<1> QED BY <1>3

-----------------------------------------------------------------------------
(* Lists.                                                                   *)

\* Whatever set of lists holds the empty one and grows by appending, holds all.
LEMMA ListInduction ==
    ASSUME NEW A, NEW T, <<>> \in T,
           \A s \in Seq(A), e \in A : s \in T => Append(s, e) \in T
    PROVE  Seq(A) \subseteq T
<1> DEFINE N == {n \in Nat : \A s \in Seq(A) : Len(s) = n => s \in T}
<1>1. 0 \in N
    BY EmptySeq
<1>2. ASSUME NEW n \in Nat, n \in N
      PROVE  n + 1 \in N
    <2> SUFFICES ASSUME NEW s \in Seq(A), Len(s) = n + 1
                 PROVE  s \in T
        OBVIOUS
    <2> DEFINE front == SubSeq(s, 1, n)
    <2>1. front \in Seq(A) /\ Len(front) = n /\ s[n + 1] \in A
        BY SubSeqProperties, ElementOfSeq
    <2>2. s = Append(front, s[n + 1])
        BY <2>1, AppendProperties, SubSeqProperties, LenProperties, SeqEqual
    <2> QED BY <1>2, <2>1, <2>2
<1>3. Nat \subseteq N
    BY <1>1, <1>2, SetInduction
<1> QED BY <1>3, LenProperties

\* f lists what is kept of the first elements of s.
Keeps(f, A, s, S) ==
    /\ f \in [0..Len(s) -> Seq(A)]
    /\ Without(s, S) = f[Len(s)]
    /\ f[0] = <<>>
    /\ \A i \in 1..Len(s) : f[i] = IF s[i] \in S THEN f[i - 1] ELSE Append(f[i - 1], s[i])

LEMMA WithoutRecursion ==
    ASSUME NEW A, NEW s \in Seq(A), NEW S
    PROVE  \E f : Keeps(f, A, s, S)
<1> DEFINE n == Len(s)
           step == [i \in 1..n |-> [t \in Seq(A) |->
                       IF s[i] \in S THEN t ELSE Append(t, s[i])]]
           Def(f) == [i \in 0..n |-> IF i = 0 THEN <<>>
                                     ELSE IF s[i] \in S THEN f[i - 1]
                                     ELSE Append(f[i - 1], s[i])]
           kept == CHOOSE f : f = Def(f)
<1>1. n \in Nat /\ \A i \in 1..n : s[i] \in A
    BY ElementOfSeq, LenProperties
<1>2. step \in [1..n -> [Seq(A) -> Seq(A)]]
    BY <1>1, AppendProperties
<1>3. PICK f \in [0..n -> Seq(A)] :
          f[0] = <<>> /\ \A i \in 1..n : f[i] = step[i][f[i - 1]]
    <2>1. <<>> \in Seq(A)
        OBVIOUS
    <2> HIDE DEF step, n
    <2>2. \E f : Solves(f, Seq(A), <<>>, n, step)
        BY <1>1, <1>2, <2>1, RecursionExists
    <2> QED BY <2>2 DEF Solves
<1>4. ASSUME NEW i \in 1..n
      PROVE  f[i] = IF s[i] \in S THEN f[i - 1] ELSE Append(f[i - 1], s[i])
    <2>1. f[i - 1] \in Seq(A)
        BY <1>1, <1>3
    <2> QED BY <1>3, <2>1
<1>5. f = Def(f)
    <2>1. \A i \in 0..n : f[i] = Def(f)[i]
        <3>1. 0 \in 0..n /\ Def(f)[0] = <<>>
            BY <1>1
        <3>2. ASSUME NEW i \in 1..n
              PROVE  f[i] = Def(f)[i]
            BY <1>4, <3>2
        <3>3. 0..n = {0} \cup 1..n
            BY <1>1
        <3> HIDE DEF Def
        <3> QED BY <1>3, <3>1, <3>2, <3>3
    <2> HIDE DEF n
    <2> QED BY <1>3, <2>1
<1>6. kept = Def(kept)
    <2> HIDE DEF Def
    <2> QED BY <1>5
<1>7. Without(s, S) = kept[n]
    BY DEF Without
<1> HIDE DEF kept
<1>8. \A i \in 1..n : kept[i] = IF s[i] \in S THEN kept[i - 1] ELSE Append(kept[i - 1], s[i])
    <2>1. \A i \in 0..n : kept[i] = Def(kept)[i]
        BY <1>6
    <2> QED BY <1>1, <2>1
<1>9. kept[0] = <<>>
    <2>1. kept[0] = Def(kept)[0]
        BY <1>6
    <2> QED BY <1>1, <2>1
<1> DEFINE T == {i \in Nat : i <= n => kept[i] = f[i]}
<1>10. 0 \in T
    BY <1>3, <1>9
<1>11. ASSUME NEW i \in Nat, i \in T
       PROVE  i + 1 \in T
    BY <1>1, <1>4, <1>8, <1>11
<1>12. Nat \subseteq T
    BY <1>10, <1>11, SetInduction
<1>13. Without(s, S) = f[n]
    BY <1>1, <1>7, <1>12
<1> QED BY <1>3, <1>4, <1>13 DEF Keeps

LEMMA WithoutEmpty ==
    ASSUME NEW S
    PROVE  Without(<<>>, S) = <<>>
<1>1. <<>> \in Seq({}) /\ Len(<<>>) = 0
    OBVIOUS
<1>2. PICK f : Keeps(f, {}, <<>>, S)
    BY <1>1, WithoutRecursion
<1> QED BY <1>1, <1>2 DEF Keeps

LEMMA WithoutAppend ==
    ASSUME NEW A, NEW s \in Seq(A), NEW e \in A, NEW S
    PROVE  Without(Append(s, e), S) =
               IF e \in S THEN Without(s, S) ELSE Append(Without(s, S), e)
<1> DEFINE n == Len(s)
           t == Append(s, e)
<1>1. /\ n \in Nat /\ t \in Seq(A) /\ Len(t) = n + 1
      /\ t[n + 1] = e /\ \A i \in 1..n : t[i] = s[i]
    <2>1. Len(t) = n + 1 /\ t \in Seq(A) /\ n \in Nat
        BY AppendProperties, LenProperties
    <2>2. t[n + 1] = e /\ \A i \in 1..n : t[i] = s[i]
        BY AppendProperties
    <2> QED BY <2>1, <2>2
<1>2. PICK f : Keeps(f, A, s, S)
    BY WithoutRecursion
<1>3. PICK g : Keeps(g, A, t, S)
    BY <1>1, WithoutRecursion
<1> HIDE DEF t
<1> USE DEF Keeps
<1> DEFINE T == {i \in Nat : i <= n => g[i] = f[i]}
<1>4. 0 \in T
    BY <1>2, <1>3
<1>5. ASSUME NEW i \in Nat, i \in T
      PROVE  i + 1 \in T
    <2> SUFFICES ASSUME i + 1 <= n
                 PROVE  g[i + 1] = f[i + 1]
        OBVIOUS
    <2>1. i + 1 \in 1..n /\ i + 1 \in 1..(n + 1) /\ g[i] = f[i] /\ (i + 1) - 1 = i
        BY <1>1, <1>5
    <2>2. g[i + 1] = IF t[i + 1] \in S THEN g[i] ELSE Append(g[i], t[i + 1])
        BY <1>1, <1>3, <2>1
    <2>3. f[i + 1] = IF s[i + 1] \in S THEN f[i] ELSE Append(f[i], s[i + 1])
        BY <1>2, <2>1
    <2> QED BY <1>1, <2>1, <2>2, <2>3
<1>6. g[n] = f[n]
    <2>1. n \in T
        BY <1>1, <1>4, <1>5, SetInduction
    <2> QED BY <1>1, <2>1
<1>7. Without(t, S) = IF e \in S THEN Without(s, S) ELSE Append(Without(s, S), e)
    <2>1. g[n + 1] = IF t[n + 1] \in S THEN g[(n + 1) - 1] ELSE Append(g[(n + 1) - 1], t[n + 1])
        BY <1>1, <1>3
    <2>2. (n + 1) - 1 = n
        BY <1>1
    <2> QED BY <1>1, <1>2, <1>3, <1>6, <2>1, <2>2
<1> QED BY <1>7 DEF t

-----------------------------------------------------------------------------
(* What is in a list, and whether twice.                                    *)

LEMMA ElementsOfAppend ==
    ASSUME NEW A, NEW s \in Seq(A), NEW e \in A
    PROVE  /\ Append(s, e) \in Seq(A)
           /\ ToSet(Append(s, e)) = ToSet(s) \cup {e}
           /\ IsInjective(Append(s, e)) <=> IsInjective(s) /\ e \notin ToSet(s)
<1> DEFINE n == Len(s)
           t == Append(s, e)
<1>1. n \in Nat /\ DOMAIN s = 1..n
    BY LenProperties
<1>2. t \in Seq(A) /\ Len(t) = n + 1 /\ DOMAIN t = 1..(n + 1)
    BY AppendProperties, LenProperties
<1>3. t[n + 1] = e /\ \A i \in 1..n : t[i] = s[i]
    BY AppendProperties
<1> HIDE DEF n, t
<1>4. DOMAIN t = DOMAIN s \cup {n + 1} /\ n + 1 \notin DOMAIN s
    BY <1>1, <1>2
<1>5. ToSet(t) = ToSet(s) \cup {e}
    BY <1>1, <1>3, <1>4 DEF ToSet
<1>6. IsInjective(t) <=> IsInjective(s) /\ e \notin ToSet(s)
    BY <1>1, <1>3, <1>4 DEF ToSet, IsInjective
<1> QED BY <1>2, <1>5, <1>6 DEF t

LEMMA ElementsOfConcat ==
    ASSUME NEW A, NEW s \in Seq(A), NEW t \in Seq(A)
    PROVE  /\ s \o t \in Seq(A)
           /\ ToSet(s \o t) = ToSet(s) \cup ToSet(t)
           /\ IsInjective(s \o t) <=> /\ IsInjective(s) /\ IsInjective(t)
                                      /\ ToSet(s) \cap ToSet(t) = {}
<1> DEFINE m == Len(s)
           n == Len(t)
           u == s \o t
<1>1. m \in Nat /\ n \in Nat /\ DOMAIN s = 1..m /\ DOMAIN t = 1..n
    BY LenProperties
<1>2. u \in Seq(A) /\ Len(u) = m + n
    BY ConcatProperties
<1>3. DOMAIN u = 1..(m + n)
    BY <1>2, LenProperties
<1>4. \A i \in 1..(m + n) : u[i] = IF i <= m THEN s[i] ELSE t[i - m]
    BY ConcatProperties
<1> HIDE DEF m, n, u
<1>5. /\ \A i \in 1..m : i \in DOMAIN u /\ u[i] = s[i]
      /\ \A j \in 1..n : j + m \in DOMAIN u /\ u[j + m] = t[j]
      /\ \A k \in DOMAIN u : k \in 1..m \/ \E j \in 1..n : k = j + m
    <2>1. ASSUME NEW i \in 1..m
          PROVE  i \in DOMAIN u /\ u[i] = s[i]
        BY <1>1, <1>3, <1>4
    <2>2. ASSUME NEW j \in 1..n
          PROVE  j + m \in DOMAIN u /\ u[j + m] = t[j]
        BY <1>1, <1>3, <1>4
    <2>3. ASSUME NEW k \in DOMAIN u, k \notin 1..m
          PROVE  \E j \in 1..n : k = j + m
        <3>1. k - m \in 1..n /\ k = (k - m) + m
            BY <1>1, <1>3, <2>3
        <3> QED BY <3>1
    <2> QED BY <2>1, <2>2, <2>3
<1>6. ToSet(u) = ToSet(s) \cup ToSet(t)
    <2>1. ToSet(u) \subseteq ToSet(s) \cup ToSet(t)
        <3> SUFFICES ASSUME NEW k \in DOMAIN u
                     PROVE  u[k] \in ToSet(s) \cup ToSet(t)
            BY DEF ToSet
        <3>1. CASE k \in 1..m
            BY <1>1, <1>5, <3>1 DEF ToSet
        <3>2. CASE k \notin 1..m
            <4>1. PICK j \in 1..n : u[k] = t[j]
                BY <1>5, <3>2
            <4> QED BY <1>1, <4>1 DEF ToSet
        <3> QED BY <3>1, <3>2
    <2>2. ToSet(s) \subseteq ToSet(u) /\ ToSet(t) \subseteq ToSet(u)
        BY <1>1, <1>5 DEF ToSet
    <2> QED BY <2>1, <2>2
<1>7. ASSUME IsInjective(u)
      PROVE  IsInjective(s) /\ IsInjective(t) /\ ToSet(s) \cap ToSet(t) = {}
    <2>1. \A i \in 1..m, j \in 1..n : i # j + m
        BY <1>1
    <2>2. \A i, j \in 1..n : i + m = j + m => i = j
        BY <1>1
    <2> QED BY <1>1, <1>5, <1>7, <2>1, <2>2 DEF ToSet, IsInjective
<1>8. ASSUME IsInjective(s), IsInjective(t), ToSet(s) \cap ToSet(t) = {}
      PROVE  IsInjective(u)
    <2> SUFFICES ASSUME NEW a \in DOMAIN u, NEW b \in DOMAIN u, u[a] = u[b]
                 PROVE  a = b
        BY DEF IsInjective
    <2>1. /\ \A i, j \in 1..m : s[i] = s[j] => i = j
          /\ \A i, j \in 1..n : t[i] = t[j] => i = j
          /\ \A i \in 1..m, j \in 1..n : s[i] # t[j]
        <3>1. /\ \A i, j \in 1..m : s[i] = s[j] => i = j
              /\ \A i, j \in 1..n : t[i] = t[j] => i = j
            BY <1>1, <1>8 DEF IsInjective
        <3>2. \A i \in 1..m, j \in 1..n : s[i] \in ToSet(s) /\ t[j] \in ToSet(t)
            BY <1>1 DEF ToSet
        <3> QED BY <1>8, <3>1, <3>2
    <2>2. CASE a \in 1..m /\ b \in 1..m
        <3>1. u[a] = s[a] /\ u[b] = s[b]
            BY <1>5, <2>2
        <3> QED BY <2>1, <2>2, <3>1
    <2>3. CASE a \in 1..m /\ b \notin 1..m
        <3>1. PICK j \in 1..n : u[b] = t[j]
            BY <1>5, <2>3
        <3> QED BY <1>5, <2>1, <2>3, <3>1
    <2>4. CASE a \notin 1..m /\ b \in 1..m
        <3>1. PICK j \in 1..n : u[a] = t[j]
            BY <1>5, <2>4
        <3> QED BY <1>5, <2>1, <2>4, <3>1
    <2>5. CASE a \notin 1..m /\ b \notin 1..m
        <3>1. PICK i \in 1..n : a = i + m /\ u[a] = t[i]
            BY <1>5, <2>5
        <3>2. PICK j \in 1..n : b = j + m /\ u[b] = t[j]
            BY <1>5, <2>5
        <3> QED BY <2>1, <3>1, <3>2
    <2> QED BY <2>2, <2>3, <2>4, <2>5
<1> QED BY <1>2, <1>6, <1>7, <1>8 DEF u

-----------------------------------------------------------------------------
(* Without                                                                  *)

\* What is left is in the list and not in the set, and once if it was once.
LEMMA WithoutElements ==
    ASSUME NEW A, NEW s \in Seq(A), NEW S
    PROVE  /\ Without(s, S) \in Seq(A)
           /\ ToSet(Without(s, S)) = ToSet(s) \ S
           /\ IsInjective(s) => IsInjective(Without(s, S))
<1> DEFINE Good(t) == /\ Without(t, S) \in Seq(A)
                      /\ ToSet(Without(t, S)) = ToSet(t) \ S
                      /\ IsInjective(t) => IsInjective(Without(t, S))
           T == {t \in Seq(A) : Good(t)}
<1>1. <<>> \in T
    <2>1. <<>> \in Seq(A) /\ ToSet(<<>>) = {}
        BY DEF ToSet
    <2> QED BY <2>1, WithoutEmpty
<1>2. ASSUME NEW t \in Seq(A), NEW e \in A, t \in T
      PROVE  Append(t, e) \in T
    <2>1. CASE e \in S
        <3>1. Without(Append(t, e), S) = Without(t, S)
            BY <2>1, WithoutAppend
        <3> QED BY <1>2, <2>1, <3>1, ElementsOfAppend
    <2>2. CASE e \notin S
        <3>1. Without(Append(t, e), S) = Append(Without(t, S), e)
            BY <2>2, WithoutAppend
        <3>2. /\ Append(Without(t, S), e) \in Seq(A)
              /\ ToSet(Append(Without(t, S), e)) = ToSet(Without(t, S)) \cup {e}
              /\ IsInjective(Append(Without(t, S), e)) <=>
                    IsInjective(Without(t, S)) /\ e \notin ToSet(Without(t, S))
            BY <1>2, ElementsOfAppend
        <3>3. /\ ToSet(Append(t, e)) = ToSet(t) \cup {e}
              /\ IsInjective(Append(t, e)) => IsInjective(t) /\ e \notin ToSet(t)
            BY ElementsOfAppend
        <3>4. Append(t, e) \in Seq(A)
            BY ElementsOfAppend
        <3> QED BY <1>2, <2>2, <3>1, <3>2, <3>3, <3>4
    <2> QED BY <2>1, <2>2
<1>3. s \in T
    <2> HIDE DEF T
    <2> QED BY <1>1, <1>2, ListInduction
<1> QED BY <1>3

LEMMA WithoutNothing ==
    ASSUME NEW A, NEW s \in Seq(A), NEW S, ToSet(s) \cap S = {}
    PROVE  Without(s, S) = s
<1> DEFINE T == {t \in Seq(A) : ToSet(t) \cap S = {} => Without(t, S) = t}
<1>1. <<>> \in T
    BY WithoutEmpty
<1>2. ASSUME NEW t \in Seq(A), NEW e \in A, t \in T
      PROVE  Append(t, e) \in T
    BY <1>2, WithoutAppend, ElementsOfAppend
<1>3. s \in T
    <2> HIDE DEF T
    <2> QED BY <1>1, <1>2, ListInduction
<1> QED BY <1>3

\* What is taken out twice may be taken out at once.
LEMMA WithoutTwice ==
    ASSUME NEW A, NEW s \in Seq(A), NEW S, NEW U
    PROVE  Without(Without(s, S), U) = Without(s, S \cup U)
<1> DEFINE T == {t \in Seq(A) : Without(Without(t, S), U) = Without(t, S \cup U)}
<1>1. <<>> \in T
    BY WithoutEmpty
<1>2. ASSUME NEW t \in Seq(A), NEW e \in A, t \in T
      PROVE  Append(t, e) \in T
    <2>1. Without(t, S) \in Seq(A)
        BY WithoutElements
    <2>2. Without(Append(Without(t, S), e), U) =
              IF e \in U THEN Without(Without(t, S), U) ELSE Append(Without(Without(t, S), U), e)
        BY <2>1, WithoutAppend
    <2>3. Without(Append(t, e), S) = IF e \in S THEN Without(t, S) ELSE Append(Without(t, S), e)
        BY WithoutAppend
    <2>4. Without(Append(t, e), S \cup U) =
              IF e \in S \cup U THEN Without(t, S \cup U) ELSE Append(Without(t, S \cup U), e)
        BY WithoutAppend
    <2> QED BY <1>2, <2>2, <2>3, <2>4, ElementsOfAppend
<1>3. s \in T
    <2> HIDE DEF T
    <2> QED BY <1>1, <1>2, ListInduction
<1> QED BY <1>3

\* Appending to the second of two lists appends to both.
LEMMA AppendToConcat ==
    ASSUME NEW A, NEW s \in Seq(A), NEW t \in Seq(A), NEW e \in A
    PROVE  s \o Append(t, e) = Append(s \o t, e)
<1>1. <<e>> \in Seq(A) /\ s \o t \in Seq(A)
    BY ElementsOfConcat
<1>2. Append(t, e) = t \o <<e>>
    BY AppendIsConcat
<1>3. Append(s \o t, e) = (s \o t) \o <<e>>
    BY <1>1, AppendIsConcat
<1>4. s \o (t \o <<e>>) = (s \o t) \o <<e>>
    BY <1>1, ConcatAssociative
<1> QED BY <1>2, <1>3, <1>4

\* What is left of two lists is what is left of each.
LEMMA WithoutConcat ==
    ASSUME NEW A, NEW s \in Seq(A), NEW u \in Seq(A), NEW S
    PROVE  Without(s \o u, S) = Without(s, S) \o Without(u, S)
<1> DEFINE T == {t \in Seq(A) : Without(s \o t, S) = Without(s, S) \o Without(t, S)}
<1>1. <<>> \in T
    <2>1. s \o <<>> = s /\ Without(s, S) \o <<>> = Without(s, S)
        BY WithoutElements, ConcatEmptySeq
    <2>2. <<>> \in Seq(A)
        OBVIOUS
    <2> QED BY <2>1, <2>2, WithoutEmpty
<1>2. ASSUME NEW t \in Seq(A), NEW e \in A, t \in T
      PROVE  Append(t, e) \in T
    <2>1. /\ Without(t, S) \in Seq(A) /\ Without(s, S) \in Seq(A)
          /\ s \o t \in Seq(A) /\ <<e>> \in Seq(A)
        BY WithoutElements, ElementsOfConcat
    <2>2. s \o Append(t, e) = Append(s \o t, e)
        BY AppendToConcat
    <2>3. Without(s, S) \o Append(Without(t, S), e) = Append(Without(s, S) \o Without(t, S), e)
        <3>1. PICK x, y \in Seq(A) : x = Without(s, S) /\ y = Without(t, S)
            BY <2>1
        <3>2. x \o Append(y, e) = Append(x \o y, e)
            BY AppendToConcat
        <3> QED BY <3>1, <3>2
    <2>4. Without(Append(s \o t, e), S) =
              IF e \in S THEN Without(s \o t, S) ELSE Append(Without(s \o t, S), e)
        <3>1. PICK z \in Seq(A) : z = s \o t
            BY <2>1
        <3>2. Without(Append(z, e), S) = IF e \in S THEN Without(z, S) ELSE Append(Without(z, S), e)
            BY WithoutAppend
        <3> QED BY <3>1, <3>2
    <2>5. Without(Append(t, e), S) = IF e \in S THEN Without(t, S) ELSE Append(Without(t, S), e)
        BY WithoutAppend
    <2> QED BY <1>2, <2>2, <2>3, <2>4, <2>5, ElementsOfAppend
<1>3. u \in T
    <2> HIDE DEF T
    <2> QED BY <1>1, <1>2, ListInduction
<1> QED BY <1>3

-----------------------------------------------------------------------------
(* Merging                                                                  *)

LEMMA MinOfNaturals ==
    ASSUME NEW I, I \subseteq Nat, I # {}
    PROVE  Min(I) \in I
<1>1. \E x \in I : \A y \in I : x <= y
    <2> SUFFICES ASSUME \A x \in I : \E y \in I : ~(x <= y)
                 PROVE  FALSE
        OBVIOUS
    <2> DEFINE T == {k \in Nat : \A j \in 0..k : j \notin I}
    <2>1. 0 \in T
        OBVIOUS
    <2>2. ASSUME NEW k \in Nat, k \in T
          PROVE  k + 1 \in T
        <3>1. \A j \in Nat : j <= k => j \notin I
            BY <2>2
        <3>2. k + 1 \notin I
            BY <3>1
        <3> QED BY <3>1, <3>2
    <2>3. Nat \subseteq T
        <3> HIDE DEF T
        <3> QED BY <2>1, <2>2, SetInduction
    <2>4. PICK x : x \in I
        OBVIOUS
    <2>5. x \in Nat /\ x \in 0..x
        BY <2>4
    <2>6. x \in T
        BY <2>3, <2>5
    <2> QED BY <2>4, <2>5, <2>6
<1> QED BY <1>1 DEF Min

LEMMA MaxOfNaturals ==
    ASSUME NEW n \in Nat, NEW I, I \subseteq 0..n, I # {}
    PROVE  Max(I) \in I
<1>1. \E x \in I : \A y \in I : x >= y
    <2> DEFINE T == {k \in Nat : k <= n => \A j \in (n - k)..n : j \notin I}
    <2> SUFFICES ASSUME \A x \in I : \E y \in I : ~(x >= y)
                 PROVE  FALSE
        OBVIOUS
    <2>2. 0 \in T
        OBVIOUS
    <2>3. ASSUME NEW k \in Nat, k \in T
          PROVE  k + 1 \in T
        <3> SUFFICES ASSUME k + 1 <= n, NEW j \in (n - (k + 1))..n
                     PROVE  j \notin I
            OBVIOUS
        <3>1. \A i \in (n - k)..n : i \notin I
            BY <2>3
        <3> QED BY <3>1
    <2>4. n \in T
        <3> HIDE DEF T
        <3> QED BY <2>2, <2>3, SetInduction
    <2>5. \A j \in 0..n : j \notin I
        BY <2>4
    <2> QED BY <2>5
<1> QED BY <1>1 DEF Max

\* An element comes in, the others keep their order.
LEMMA InsertElements ==
    ASSUME NEW A, NEW s \in Seq(A), NEW c \in A, NEW j \in 1..(Len(s) + 1)
    PROVE  /\ InsertAt(s, j, c) \in Seq(A)
           /\ ToSet(InsertAt(s, j, c)) = ToSet(s) \cup {c}
           /\ IsInjective(InsertAt(s, j, c)) <=> IsInjective(s) /\ c \notin ToSet(s)
           /\ \A U : c \in U => Without(InsertAt(s, j, c), U) = Without(s, U)
<1> DEFINE p == SubSeq(s, 1, j - 1)
           q == SubSeq(s, j, Len(s))
<1>1. Len(s) \in Nat /\ \A i \in 1..Len(s) : s[i] \in A
    BY LenProperties, ElementOfSeq
<1>2. p \in Seq(A) /\ q \in Seq(A) /\ <<c>> \in Seq(A)
    BY <1>1, SubSeqProperties
<1>3. p \o q = s
    <2>1. (j - 1) + 1 = j /\ j - 1 \in 0..Len(s) /\ 1 \in 1..(Len(s) + 1)
        BY <1>1
    <2>2. SubSeq(s, 1, j - 1) \o SubSeq(s, (j - 1) + 1, Len(s)) = SubSeq(s, 1, Len(s))
        <3>1. j - 1 \in (1 - 1)..Len(s) /\ Len(s) \in (j - 1)..Len(s)
            BY <1>1, <2>1
        <3> QED BY <2>1, <3>1, ConcatAdjacentSubSeq
    <2> QED BY <2>1, <2>2, SubSeqFull
<1>4. InsertAt(s, j, c) = (p \o <<c>>) \o q
    BY DEF InsertAt
<1> HIDE DEF p, q
<1>5. p \o <<c>> = Append(p, c)
    BY <1>2, AppendIsConcat
<1>6. /\ Append(p, c) \in Seq(A)
      /\ ToSet(Append(p, c)) = ToSet(p) \cup {c}
      /\ IsInjective(Append(p, c)) <=> IsInjective(p) /\ c \notin ToSet(p)
    BY <1>2, ElementsOfAppend
<1>7. /\ Append(p, c) \o q \in Seq(A)
      /\ ToSet(Append(p, c) \o q) = ToSet(Append(p, c)) \cup ToSet(q)
      /\ IsInjective(Append(p, c) \o q) <=>
            /\ IsInjective(Append(p, c)) /\ IsInjective(q)
            /\ ToSet(Append(p, c)) \cap ToSet(q) = {}
    BY <1>2, <1>6, ElementsOfConcat
<1>8. /\ ToSet(s) = ToSet(p) \cup ToSet(q)
      /\ IsInjective(s) <=> IsInjective(p) /\ IsInjective(q) /\ ToSet(p) \cap ToSet(q) = {}
    <2>1. /\ ToSet(p \o q) = ToSet(p) \cup ToSet(q)
          /\ IsInjective(p \o q) <=>
                IsInjective(p) /\ IsInjective(q) /\ ToSet(p) \cap ToSet(q) = {}
        BY <1>2, ElementsOfConcat
    <2> QED BY <1>3, <2>1
<1>9. ASSUME NEW U, c \in U
      PROVE  Without(InsertAt(s, j, c), U) = Without(s, U)
    <2>1. Without(Append(p, c), U) = Without(p, U)
        BY <1>2, <1>9, WithoutAppend
    <2>2. Without(Append(p, c) \o q, U) = Without(Append(p, c), U) \o Without(q, U)
        <3>1. PICK pc \in Seq(A) : pc = Append(p, c)
            BY <1>6
        <3>2. Without(pc \o q, U) = Without(pc, U) \o Without(q, U)
            <4>1. pc \in Seq(A)
                BY <3>1
            <4>2. q \in Seq(A)
                BY <1>2
            <4> QED BY <4>1, <4>2, WithoutConcat
        <3> QED BY <3>1, <3>2
    <2>3. Without(p \o q, U) = Without(p, U) \o Without(q, U)
        BY <1>2, WithoutConcat
    <2> QED BY <1>3, <1>4, <1>5, <2>1, <2>2, <2>3
<1>10. /\ InsertAt(s, j, c) \in Seq(A)
       /\ ToSet(InsertAt(s, j, c)) = ToSet(s) \cup {c}
    BY <1>4, <1>5, <1>6, <1>7, <1>8
<1>11. IsInjective(InsertAt(s, j, c)) <=> IsInjective(s) /\ c \notin ToSet(s)
    BY <1>4, <1>5, <1>6, <1>7, <1>8
<1> QED BY <1>9, <1>10, <1>11

LEMMA AppendIsInsert ==
    ASSUME NEW A, NEW s \in Seq(A), NEW c \in A
    PROVE  Append(s, c) = InsertAt(s, Len(s) + 1, c)
<1>1. Len(s) \in Nat
    BY LenProperties
<1>2. (Len(s) + 1) - 1 = Len(s) /\ SubSeq(s, Len(s) + 1, Len(s)) = <<>>
    BY <1>1, SubSeqEmpty
<1>3. SubSeq(s, 1, Len(s)) = s
    BY SubSeqFull
<1>4. Append(s, c) = s \o <<c>> /\ s \o <<c>> \in Seq(A)
    BY AppendIsConcat, AppendProperties
<1>5. (s \o <<c>>) \o <<>> = s \o <<c>>
    BY <1>4, ConcatEmptySeq
<1> QED BY <1>2, <1>3, <1>4, <1>5 DEF InsertAt

\* A child that comes back is put somewhere between the others.
LEMMA PlaceInserts ==
    ASSUME NEW A, NEW merged \in Seq(A), NEW target \in Seq(A), NEW c \in A
    PROVE  \E j \in 1..(Len(merged) + 1) : Place(merged, target, c) = InsertAt(merged, j, c)
<1> DEFINE i == SelectInSeq(target, LAMBDA x : x = c)
           N == {k \in (i + 1)..Len(target) : Contains(merged, target[k])}
           P == {k \in 1..(i - 1) : Contains(merged, target[k])}
           next == IF N # {} THEN Min(N) ELSE 0
           prev == IF P # {} THEN Max(P) ELSE 0
           At(k) == {m \in 1..Len(merged) : merged[m] = target[k]}
           first(k) == IF At(k) # {} THEN Min(At(k)) ELSE 0
           last(k) == IF At(k) # {} THEN Max(At(k)) ELSE 0
<1>1. Len(merged) \in Nat /\ Len(target) \in Nat
    BY LenProperties
<1>2. i \in Nat
    <2> DEFINE I == {k \in 1..Len(target) : target[k] = c}
    <2>1. i = IF I # {} THEN Min(I) ELSE 0
        BY DEF SelectInSeq
    <2>2. I # {} => Min(I) \in I
        <3>1. I \subseteq Nat
            BY <1>1
        <3> HIDE DEF I
        <3> QED BY <3>1, MinOfNaturals
    <2> QED BY <1>1, <2>1, <2>2
<1>3. Place(merged, target, c) =
          IF next # 0 THEN InsertAt(merged, first(next), c)
          ELSE IF prev # 0 THEN InsertAt(merged, 1 + last(prev), c)
          ELSE Append(merged, c)
    BY DEF Place, SelectInSeq, SelectInSubSeq, SelectLastInSubSeq
<1> HIDE DEF i
<1>4. ASSUME N # {}
      PROVE  Min(N) \in N
    <2>1. N \subseteq Nat
        BY <1>1, <1>2
    <2> HIDE DEF N
    <2> QED BY <1>4, <2>1, MinOfNaturals
<1>5. ASSUME P # {}
      PROVE  Max(P) \in P
    <2>1. P \subseteq 0..i
        BY <1>2
    <2> HIDE DEF P
    <2> QED BY <1>2, <1>5, <2>1, MaxOfNaturals
<1>6. ASSUME NEW k, Contains(merged, target[k])
      PROVE  /\ first(k) \in 1..Len(merged)
             /\ last(k) \in 1..Len(merged)
    <2>1. At(k) # {} /\ At(k) \subseteq 1..Len(merged)
        BY <1>6 DEF Contains
    <2>2. At(k) \subseteq Nat /\ At(k) \subseteq 0..Len(merged)
        BY <1>1, <2>1
    <2>3. first(k) = Min(At(k)) /\ last(k) = Max(At(k))
        BY <2>1
    <2> HIDE DEF At, first, last
    <2>4. Min(At(k)) \in At(k) /\ Max(At(k)) \in At(k)
        BY <1>1, <2>1, <2>2, MinOfNaturals, MaxOfNaturals
    <2> QED BY <2>1, <2>3, <2>4
<1>7. next # 0 => Contains(merged, target[next])
    BY <1>4
<1>8. prev # 0 => Contains(merged, target[prev])
    BY <1>5
<1> HIDE DEF next, prev, first, last
<1>9. CASE next # 0
    BY <1>1, <1>3, <1>6, <1>7, <1>9
<1>10. CASE next = 0 /\ prev # 0
    <2>1. last(prev) \in 1..Len(merged)
        BY <1>6, <1>8, <1>10
    <2>2. 1 + last(prev) \in 1..(Len(merged) + 1)
        BY <1>1, <2>1
    <2> QED BY <1>3, <1>10, <2>2
<1>11. CASE next = 0 /\ prev = 0
    BY <1>1, <1>3, <1>11, AppendIsInsert
<1> QED BY <1>9, <1>10, <1>11

\* The list after is the list before with c somewhere.
GrownBy(after, before, A, c) ==
    /\ after \in Seq(A)
    /\ ToSet(after) = ToSet(before) \cup {c}
    /\ IsInjective(before) /\ c \notin ToSet(before) => IsInjective(after)
    /\ \A U : c \in U => Without(after, U) = Without(before, U)

LEMMA PlaceElements ==
    ASSUME NEW A, NEW merged \in Seq(A), NEW target \in Seq(A), NEW c \in A
    PROVE  GrownBy(Place(merged, target, c), merged, A, c)
<1>1. PICK j \in 1..(Len(merged) + 1) : Place(merged, target, c) = InsertAt(merged, j, c)
    BY PlaceInserts
<1> QED BY <1>1, InsertElements DEF GrownBy

\* The merge, step by step.
Merges(f, A, current, source, target) ==
    LET adds == Without(target, ToSet(source)) IN
    /\ f \in [0..Len(adds) -> Seq(A)]
    /\ MergeTargetChildren(current, source, target) = f[Len(adds)]
    /\ f[0] = Without(current, (ToSet(source) \ ToSet(target))
                                  \cup (ToSet(target) \ ToSet(source)))
    /\ \A k \in 1..Len(adds) : f[k] = Place(f[k - 1], target, adds[k])

LEMMA MergeRecursion ==
    ASSUME NEW A, NEW current \in Seq(A), NEW source \in Seq(A), NEW target \in Seq(A)
    PROVE  \E f : Merges(f, A, current, source, target)
<1> DEFINE adds == Without(target, ToSet(source))
           removes == Without(source, ToSet(target))
           kept == Without(current, ToSet(removes) \cup ToSet(adds))
           n == Len(adds)
           step == [k \in 1..n |-> [m \in Seq(A) |-> Place(m, target, adds[k])]]
           Def(f) == [k \in 0..n |-> IF k = 0 THEN kept ELSE Place(f[k - 1], target, adds[k])]
           merged == CHOOSE f : f = Def(f)
<1>1. /\ adds \in Seq(A) /\ ToSet(adds) = ToSet(target) \ ToSet(source)
      /\ ToSet(removes) = ToSet(source) \ ToSet(target)
      /\ kept \in Seq(A)
    BY WithoutElements
<1>2. n \in Nat /\ \A k \in 1..n : adds[k] \in A
    BY <1>1, ElementOfSeq, LenProperties
<1>3. step \in [1..n -> [Seq(A) -> Seq(A)]]
    <2> SUFFICES ASSUME NEW k \in 1..n, NEW m \in Seq(A)
                 PROVE  Place(m, target, adds[k]) \in Seq(A)
        OBVIOUS
    <2>1. adds[k] \in A
        BY <1>2
    <2> HIDE DEF adds
    <2>2. PICK j \in 1..(Len(m) + 1) : Place(m, target, adds[k]) = InsertAt(m, j, adds[k])
        BY <2>1, PlaceInserts
    <2> QED BY <2>1, <2>2, InsertElements
<1>4. MergeTargetChildren(current, source, target) = merged[n]
    BY DEF MergeTargetChildren
<1> HIDE DEF adds, removes, kept, n
<1>5. PICK f : Solves(f, Seq(A), kept, n, step)
    <2> HIDE DEF step
    <2> QED BY <1>1, <1>2, <1>3, RecursionExists
<1>6. ASSUME NEW k \in 1..n
      PROVE  f[k] = Place(f[k - 1], target, adds[k])
    <2>1. f[k - 1] \in Seq(A)
        BY <1>2, <1>5 DEF Solves
    <2> QED BY <1>5, <2>1 DEF Solves
<1>7. f = Def(f)
    <2>1. \A k \in 0..n : f[k] = Def(f)[k]
        <3>1. 0 \in 0..n /\ Def(f)[0] = kept
            BY <1>2
        <3>2. ASSUME NEW k \in 1..n
              PROVE  f[k] = Def(f)[k]
            BY <1>6, <3>2
        <3>3. 0..n = {0} \cup 1..n
            BY <1>2
        <3>4. f[0] = kept
            BY <1>5 DEF Solves
        <3> HIDE DEF Def
        <3> QED BY <3>1, <3>2, <3>3, <3>4
    <2>2. f \in [0..n -> Seq(A)]
        BY <1>5 DEF Solves
    <2> QED BY <2>1, <2>2
<1>8. merged = Def(merged)
    <2> HIDE DEF Def
    <2> QED BY <1>7
<1> HIDE DEF merged
<1>9. merged[0] = kept /\ \A k \in 1..n : merged[k] = Place(merged[k - 1], target, adds[k])
    <2>1. \A k \in 0..n : merged[k] = Def(merged)[k]
        BY <1>8
    <2> QED BY <1>2, <2>1
<1> DEFINE T == {k \in Nat : k <= n => merged[k] = f[k]}
<1>10. 0 \in T
    BY <1>5, <1>9 DEF Solves
<1>11. ASSUME NEW k \in Nat, k \in T
       PROVE  k + 1 \in T
    <2> SUFFICES ASSUME k + 1 <= n
                 PROVE  merged[k + 1] = f[k + 1]
        OBVIOUS
    <2>1. k + 1 \in 1..n /\ (k + 1) - 1 = k /\ merged[k] = f[k]
        BY <1>2, <1>11
    <2>2. merged[k + 1] = Place(merged[k], target, adds[k + 1])
        BY <1>9, <2>1
    <2>3. f[k + 1] = Place(f[k], target, adds[k + 1])
        BY <1>6, <2>1
    <2> QED BY <2>1, <2>2, <2>3
<1>12. merged[n] = f[n]
    <2>1. n \in T
        <3> HIDE DEF T
        <3> QED BY <1>2, <1>10, <1>11, SetInduction
    <2> QED BY <1>2, <2>1
<1>13. f \in [0..n -> Seq(A)] /\ f[0] = kept
    BY <1>5 DEF Solves
<1>14. kept = Without(current, (ToSet(source) \ ToSet(target)) \cup (ToSet(target) \ ToSet(source)))
    BY <1>1 DEF kept
<1> QED BY <1>4, <1>6, <1>12, <1>13, <1>14 DEF Merges, adds, n

\* The children an entry adds or removes.
EdgeDelta(source, target) ==
    (ToSet(source) \ ToSet(target)) \cup (ToSet(target) \ ToSet(source))

\* What the merge promises: the children removed are gone, those added are there,
\* each once, and the others are where they were.
MergedFrom(result, A, current, source, target) ==
    /\ result \in Seq(A)
    /\ ToSet(result) = (ToSet(current) \ EdgeDelta(source, target))
                          \cup (ToSet(target) \ ToSet(source))
    /\ IsInjective(current) /\ IsInjective(target) => IsInjective(result)
    /\ \A U : EdgeDelta(source, target) \subseteq U => Without(result, U) = Without(current, U)

LEMMA MergeElements ==
    ASSUME NEW A, NEW current \in Seq(A), NEW source \in Seq(A), NEW target \in Seq(A)
    PROVE  MergedFrom(MergeTargetChildren(current, source, target), A,
                      current, source, target)
<1> DEFINE adds == Without(target, ToSet(source))
           n == Len(adds)
           delta == EdgeDelta(source, target)
           result == MergeTargetChildren(current, source, target)
           kept == Without(current, delta)
<1>1. /\ adds \in Seq(A) /\ ToSet(adds) = ToSet(target) \ ToSet(source)
      /\ IsInjective(target) => IsInjective(adds)
    BY WithoutElements
<1>2. n \in Nat /\ DOMAIN adds = 1..n /\ \A k \in 1..n : adds[k] \in A
    BY <1>1, ElementOfSeq, LenProperties
<1>3. /\ kept \in Seq(A) /\ ToSet(kept) = ToSet(current) \ delta
      /\ IsInjective(current) => IsInjective(kept)
    BY WithoutElements
<1>4. PICK f : Merges(f, A, current, source, target)
    BY MergeRecursion
<1>5. /\ f \in [0..n -> Seq(A)] /\ result = f[n] /\ f[0] = kept
      /\ \A k \in 1..n : f[k] = Place(f[k - 1], target, adds[k])
    BY <1>4 DEF Merges, EdgeDelta
<1> HIDE DEF adds, n, kept, result
<1> DEFINE Added(k) == {adds[j] : j \in 1..k}
           Good(k) == /\ ToSet(f[k]) = ToSet(kept) \cup Added(k)
                      /\ IsInjective(kept) /\ IsInjective(adds) => IsInjective(f[k])
                      /\ \A U : delta \subseteq U => Without(f[k], U) = Without(kept, U)
           T == {k \in Nat : k <= n => Good(k)}
<1>6. 0 \in T
    <2>1. Added(0) = {}
        OBVIOUS
    <2> QED BY <1>5, <2>1
<1>7. ASSUME NEW k \in Nat, k \in T
      PROVE  k + 1 \in T
    <2> SUFFICES ASSUME k + 1 <= n
                 PROVE  Good(k + 1)
        OBVIOUS
    <2>1. /\ k + 1 \in 1..n /\ (k + 1) - 1 = k /\ k \in 0..n /\ Good(k)
          /\ f[k] \in Seq(A)
        <3>1. Good(k)
            <4> HIDE DEF Good
            <4> QED BY <1>2, <1>7
        <3>2. k + 1 \in 1..n /\ (k + 1) - 1 = k /\ k \in 0..n
            <4> HIDE DEF Good, T
            <4> QED BY <1>2
        <3>3. f[k] \in Seq(A)
            <4> HIDE DEF Good, T
            <4> QED BY <1>5, <3>2
        <3> HIDE DEF Good, T
        <3> QED BY <3>1, <3>2, <3>3
    <2>2. /\ f[k + 1] = Place(f[k], target, adds[k + 1])
          /\ adds[k + 1] \in A /\ adds[k + 1] \in delta
        <3>1. adds[k + 1] \in ToSet(adds)
            BY <1>2, <2>1 DEF ToSet
        <3> QED BY <1>1, <1>2, <1>5, <2>1, <3>1 DEF EdgeDelta
    <2>4. GrownBy(f[k + 1], f[k], A, adds[k + 1])
        BY <2>1, <2>2, PlaceElements
    <2>5. Added(k + 1) = Added(k) \cup {adds[k + 1]}
        <3>1. 1..(k + 1) = (1..k) \cup {k + 1}
            OBVIOUS
        <3> QED BY <3>1
    <2>6. ToSet(f[k + 1]) = ToSet(kept) \cup Added(k + 1)
        BY <2>1, <2>4, <2>5 DEF GrownBy
    <2>7. ASSUME IsInjective(kept), IsInjective(adds)
          PROVE  IsInjective(f[k + 1])
        <3>1. adds[k + 1] \notin ToSet(kept)
            BY <1>3, <2>2
        <3>2. ASSUME NEW i \in 1..k
              PROVE  adds[i] # adds[k + 1]
            <4>1. i \in 1..n /\ i # k + 1
                BY <1>2, <2>1
            <4> QED BY <1>2, <2>1, <2>7, <4>1 DEF IsInjective
        <3>3. adds[k + 1] \notin Added(k)
            BY <3>2
        <3> QED BY <2>1, <2>4, <2>7, <3>1, <3>3 DEF GrownBy
    <2>8. ASSUME NEW U, delta \subseteq U
          PROVE  Without(f[k + 1], U) = Without(kept, U)
        BY <2>1, <2>2, <2>4, <2>8 DEF GrownBy
    <2> QED BY <2>6, <2>7, <2>8
<1>8. Good(n)
    <2>1. n \in T
        <3> HIDE DEF T
        <3> QED BY <1>2, <1>6, <1>7, SetInduction
    <2> QED BY <1>2, <2>1
<1>9. Added(n) = ToSet(adds)
    BY <1>2 DEF ToSet
<1>10. ToSet(result) = (ToSet(current) \ delta) \cup (ToSet(target) \ ToSet(source))
    BY <1>1, <1>3, <1>5, <1>8, <1>9
<1>11. ASSUME NEW U, delta \subseteq U
       PROVE  Without(result, U) = Without(current, U)
    <2>1. Without(kept, U) = Without(current, delta \cup U)
        BY WithoutTwice DEF kept
    <2>2. delta \cup U = U
        BY <1>11
    <2> QED BY <1>5, <1>8, <1>11, <2>1, <2>2
<1>12. result \in Seq(A)
    BY <1>2, <1>5
<1> QED BY <1>1, <1>3, <1>5, <1>8, <1>10, <1>11, <1>12 DEF MergedFrom, result

LEMMA WithoutAll ==
    ASSUME NEW A, NEW s \in Seq(A), NEW U, A \subseteq U \/ ToSet(s) \subseteq U
    PROVE  Without(s, U) = <<>>
<1>1. Without(s, U) \in Seq(A) /\ ToSet(Without(s, U)) = ToSet(s) \ U
    BY WithoutElements
<1>2. ToSet(s) \subseteq A
    BY ElementOfSeq, LenProperties DEF ToSet
<1>3. ToSet(Without(s, U)) = {}
    BY <1>1, <1>2
<1> SUFFICES ASSUME Without(s, U) # <<>>
             PROVE  FALSE
    OBVIOUS
<1>4. DOMAIN Without(s, U) = 1..Len(Without(s, U)) /\ Len(Without(s, U)) \in Nat
    BY <1>1, LenProperties
<1>5. Len(Without(s, U)) # 0
    BY <1>1, EmptySeq
<1>6. 1 \in DOMAIN Without(s, U)
    BY <1>4, <1>5
<1> QED BY <1>3, <1>6 DEF ToSet

-----------------------------------------------------------------------------
(* Groups of changes.                                                       *)

NodeMap == UNION {[D -> Node] : D \in SUBSET AnyId}
Snapshot == Node \cup {None}
Group == UNION {[D -> [before: Snapshot, after: Snapshot]] : D \in SUBSET AnyId}

Direction == {"undo", "redo"}
Source(change, d) == IF d = "undo" THEN change.after ELSE change.before
Target(change, d) == IF d = "undo" THEN change.before ELSE change.after

\* What one change makes of a node: its target, or the target with the children
\* merged into those of the node as it is.
ChangedTo(node, ns, n, change, d) ==
    LET target == Target(change, d)
        source == Source(change, d)
    IN
    /\ target # None
    /\ \E children \in Seq(AnyId) :
          /\ node = NormalizeNode([target EXCEPT !.children = children])
          /\ \/ /\ source = None \/ n \notin DOMAIN ns
                /\ children = target.children
             \/ /\ source # None /\ n \in DOMAIN ns
                /\ MergedFrom(children, AnyId, ns[n].children, source.children,
                              target.children)

LEMMA NodeFields ==
    ASSUME NEW s \in Node
    PROVE  /\ s.children \in Seq(AnyId) /\ s.kind \in {"root", "branch", "leaf"}
           /\ s.parent \in AnyId \cup {None} /\ s.status \in Status
           /\ s.context \in {"missing", "valid", "stale"} /\ s.included \in BOOLEAN
           /\ s.task \in BOOLEAN
           /\ \A c \in Seq(AnyId) : [s EXCEPT !.children = c] \in Node
           /\ NormalizeNode(s) \in Node
BY DEF Node, NormalizeNode, Status

\* A group leaves a node as it is, changes it as the change of the node says, or
\* takes it away when the change says so.
LEMMA GroupValue ==
    ASSUME NEW ns \in NodeMap, NEW group \in Group, NEW d \in Direction,
           NEW n \in DOMAIN ApplyGroup(ns, group, d)
    PROVE  \/ /\ n \in DOMAIN ns \ DOMAIN group
              /\ ApplyGroup(ns, group, d)[n] = ns[n]
           \/ /\ n \in DOMAIN group
              /\ ChangedTo(ApplyGroup(ns, group, d)[n], ns, n, group[n], d)
<1> DEFINE value(m) ==
               IF d = "undo"
               THEN ResolveNodePatchValue(ns, m, group[m].after, group[m].before)
               ELSE ResolveNodePatchValue(ns, m, group[m].before, group[m].after)
           deleted == {m \in DOMAIN group : value(m) = None}
           source == Source(group[n], d)
           target == Target(group[n], d)
<1>1. /\ n \in (DOMAIN ns \cup DOMAIN group) \ deleted
      /\ ApplyGroup(ns, group, d)[n] =
            IF n \in DOMAIN group THEN NormalizeNode(value(n)) ELSE ns[n]
    BY DEF ApplyGroup
<1>2. CASE n \notin DOMAIN group
    BY <1>1, <1>2
<1>3. ASSUME n \in DOMAIN group
      PROVE  ChangedTo(ApplyGroup(ns, group, d)[n], ns, n, group[n], d)
    <2>1. value(n) = ResolveNodePatchValue(ns, n, source, target) /\ value(n) # None
        BY <1>1, <1>3 DEF Direction, Source, Target
    <2>2. ApplyGroup(ns, group, d)[n] = NormalizeNode(value(n))
        BY <1>1, <1>3
    <2>3. group[n] \in [before: Snapshot, after: Snapshot]
        BY <1>3 DEF Group
    <2>4. source \in Snapshot /\ target \in Snapshot
        BY <2>3 DEF Source, Target
    <2> HIDE DEF value, source, target
    <2>5. target # None
        BY <2>1 DEF ResolveNodePatchValue
    <2>6. target \in Node /\ target.children \in Seq(AnyId)
        BY <2>4, <2>5, NodeFields DEF Snapshot
    <2>7. CASE source = None \/ n \notin DOMAIN ns
        <3>1. value(n) = target
            BY <2>1, <2>7 DEF ResolveNodePatchValue
        <3>2. target = [target EXCEPT !.children = target.children]
            BY <2>6 DEF Node
        <3> QED BY <2>2, <2>5, <2>6, <2>7, <3>1, <3>2 DEF ChangedTo, source, target
    <2>8. CASE source # None /\ n \in DOMAIN ns
        <3> DEFINE merged == MergeTargetChildren(ns[n].children, source.children,
                                                 target.children)
        <3>1. value(n) = [target EXCEPT !.children = merged]
            BY <2>1, <2>5, <2>8 DEF ResolveNodePatchValue
        <3>2. ns[n] \in Node
            BY <2>8 DEF NodeMap
        <3>3. source.children \in Seq(AnyId) /\ ns[n].children \in Seq(AnyId)
            BY <2>4, <2>8, <3>2, NodeFields DEF Snapshot
        <3>4. MergedFrom(merged, AnyId, ns[n].children, source.children, target.children)
            BY <2>6, <3>3, MergeElements
        <3>5. merged \in Seq(AnyId)
            BY <3>4 DEF MergedFrom
        <3> HIDE DEF merged
        <3> QED BY <2>2, <2>5, <2>8, <3>1, <3>4, <3>5 DEF ChangedTo, source, target
    <2> QED BY <2>7, <2>8
<1> QED BY <1>1, <1>2, <1>3

\* The nodes a group leaves are those there were and those it speaks of.
LEMMA GroupDomain ==
    ASSUME NEW ns \in NodeMap, NEW group \in Group, NEW d \in Direction
    PROVE  /\ DOMAIN ApplyGroup(ns, group, d) \subseteq DOMAIN ns \cup DOMAIN group
           /\ \A n \in DOMAIN ns \cup DOMAIN group :
                 \/ n \in DOMAIN ApplyGroup(ns, group, d)
                 \/ n \in DOMAIN group /\ Target(group[n], d) = None
<1> DEFINE value(m) ==
               IF d = "undo"
               THEN ResolveNodePatchValue(ns, m, group[m].after, group[m].before)
               ELSE ResolveNodePatchValue(ns, m, group[m].before, group[m].after)
           deleted == {m \in DOMAIN group : value(m) = None}
<1>1. DOMAIN ApplyGroup(ns, group, d) = (DOMAIN ns \cup DOMAIN group) \ deleted
    BY DEF ApplyGroup
<1>2. ASSUME NEW n \in deleted
      PROVE  Target(group[n], d) = None
    <2> DEFINE source == Source(group[n], d)
               target == Target(group[n], d)
    <2>1. ResolveNodePatchValue(ns, n, source, target) = None
        BY DEF Direction, Source, Target
    <2>2. group[n] \in [before: Snapshot, after: Snapshot]
        BY DEF Group
    <2>3. target \in Snapshot
        BY <2>2 DEF Target
    <2> HIDE DEF source, target
    <2> SUFFICES ASSUME target # None
                 PROVE  FALSE
        BY DEF target
    <2>4. target \in Node
        BY <2>3 DEF Snapshot
    <2>5. source # None /\ n \in DOMAIN ns
        BY <2>1 DEF ResolveNodePatchValue
    <2> DEFINE merged == MergeTargetChildren(ns[n].children, source.children,
                                             target.children)
    <2>6. ns[n] \in Node /\ source \in Node
        <3>1. source \in Snapshot
            BY <2>2 DEF Source, source
        <3> QED BY <2>5, <3>1 DEF NodeMap, Snapshot
    <2>7. merged \in Seq(AnyId)
        <3>1. /\ ns[n].children \in Seq(AnyId) /\ source.children \in Seq(AnyId)
              /\ target.children \in Seq(AnyId)
            BY <2>4, <2>6, NodeFields
        <3> QED BY <3>1, MergeElements DEF MergedFrom
    <2>8. ResolveNodePatchValue(ns, n, source, target) = [target EXCEPT !.children = merged]
        BY <2>4, <2>5, NoneAssumption DEF ResolveNodePatchValue
    <2> HIDE DEF merged
    <2>9. [target EXCEPT !.children = merged] \in Node
        BY <2>4, <2>7, NodeFields
    <2> QED BY <2>1, <2>8, <2>9, NoneAssumption
<1> QED BY <1>1, <1>2

\* Apart from its children and the end of its stream the node is the target.
LEMMA ChangedNode ==
    ASSUME NEW ns, NEW n, NEW change \in [before: Snapshot, after: Snapshot],
           NEW d \in Direction, NEW node, ChangedTo(node, ns, n, change, d)
    PROVE  LET source == Source(change, d)
               target == Target(change, d)
           IN
           /\ node \in Node /\ target \in Node /\ source \in Snapshot
           /\ node.kind = target.kind /\ node.parent = target.parent
           /\ node.context = target.context /\ node.included = target.included
           /\ node.task = target.task
           /\ \/ (source = None \/ n \notin DOMAIN ns) /\ node.children = target.children
              \/ /\ source \in Node /\ n \in DOMAIN ns
                 /\ MergedFrom(node.children, AnyId, ns[n].children, source.children,
                               target.children)
<1> DEFINE source == Source(change, d)
           target == Target(change, d)
<1>1. source \in Snapshot /\ target \in Snapshot /\ target # None
    BY DEF ChangedTo, Source, Target
<1>2. PICK children \in Seq(AnyId) :
          /\ node = NormalizeNode([target EXCEPT !.children = children])
          /\ \/ (source = None \/ n \notin DOMAIN ns) /\ children = target.children
             \/ /\ source # None /\ n \in DOMAIN ns
                /\ MergedFrom(children, AnyId, ns[n].children, source.children,
                              target.children)
    BY DEF ChangedTo
<1> HIDE DEF source, target
<1>3. target \in Node
    BY <1>1 DEF Snapshot
<1> DEFINE edited == [target EXCEPT !.children = children]
<1>4. /\ edited \in Node /\ edited.children = children
      /\ edited.kind = target.kind /\ edited.parent = target.parent
      /\ edited.context = target.context /\ edited.included = target.included
      /\ edited.task = target.task
    BY <1>2, <1>3 DEF Node
<1> HIDE DEF edited
<1>5. /\ NormalizeNode(edited) \in Node
      /\ NormalizeNode(edited).children = edited.children
      /\ NormalizeNode(edited).kind = edited.kind
      /\ NormalizeNode(edited).parent = edited.parent
      /\ NormalizeNode(edited).context = edited.context
      /\ NormalizeNode(edited).included = edited.included
      /\ NormalizeNode(edited).task = edited.task
    <2>1. NormalizeNode(edited) \in Node
        BY <1>4, NodeFields
    <2> QED BY <1>4, <2>1 DEF NormalizeNode, Node
<1>6. node = NormalizeNode(edited)
    BY <1>2 DEF edited
<1>7. \/ (source = None \/ n \notin DOMAIN ns) /\ node.children = target.children
      \/ /\ source \in Node /\ n \in DOMAIN ns
         /\ MergedFrom(node.children, AnyId, ns[n].children, source.children,
                       target.children)
    <2>1. node.children = children
        BY <1>4, <1>5, <1>6
    <2> QED BY <1>1, <1>2, <2>1 DEF Snapshot
<1> HIDE DEF source
<1>8. /\ node \in Node
      /\ node.kind = target.kind /\ node.parent = target.parent
      /\ node.context = target.context /\ node.included = target.included
      /\ node.task = target.task
    BY <1>4, <1>5, <1>6
<1> QED BY <1>1, <1>3, <1>7, <1>8 DEF source, target

LEMMA GroupTyped ==
    ASSUME NEW ns \in NodeMap, NEW group \in Group, NEW d \in Direction
    PROVE  ApplyGroup(ns, group, d) \in NodeMap
<1> DEFINE result == ApplyGroup(ns, group, d)
<1>1. result = [n \in DOMAIN result |-> result[n]]
    BY DEF ApplyGroup
<1>2. DOMAIN result \subseteq AnyId
    BY GroupDomain DEF NodeMap, Group
<1>3. ASSUME NEW n \in DOMAIN result
      PROVE  result[n] \in Node
    <2>1. CASE n \in DOMAIN ns /\ result[n] = ns[n]
        BY <2>1 DEF NodeMap
    <2>2. CASE n \in DOMAIN group /\ ChangedTo(result[n], ns, n, group[n], d)
        <3>1. group[n] \in [before: Snapshot, after: Snapshot]
            BY <2>2 DEF Group
        <3> HIDE DEF result
        <3> QED BY <2>2, <3>1, ChangedNode
    <2> QED BY <1>3, <2>1, <2>2, GroupValue
<1> HIDE DEF result
<1>4. result \in [DOMAIN result -> Node]
    BY <1>1, <1>3
<1>5. result \in NodeMap
    BY <1>2, <1>4 DEF NodeMap
<1> QED BY <1>5 DEF result

LEMMA OverrideIs ==
    ASSUME NEW f, NEW g
    PROVE  /\ DOMAIN Override(f, g) = DOMAIN f \cup DOMAIN g
           /\ \A x \in DOMAIN g : Override(f, g)[x] = g[x]
           /\ \A x \in DOMAIN f \ DOMAIN g : Override(f, g)[x] = f[x]
BY DEF Override

LEMMA OverrideAt ==
    ASSUME NEW f, NEW g, NEW m \in DOMAIN f \cup DOMAIN g
    PROVE  Override(f, g)[m] = IF m \in DOMAIN g THEN g[m] ELSE f[m]
BY DEF Override
=============================================================================
