----------------------------- MODULE AuxoProofs -----------------------------
(***************************************************************************)
(* Proofs about AuxoSession, for every set of clients and runs, every      *)
(* limit and every world: what the limiter in front of the route lets      *)
(* through, and that the route abandons no task whose name it knows.       *)
(* What the planner computes is opaque to them.                            *)
(***************************************************************************)
EXTENDS AuxoSession, FiniteSetTheorems, TLAPS

(* The limiter.                                                            *)

\* The requests of a client in a stretch of time.
Between(A, c, from, to) == {a \in A : a.client = c /\ a.at \in from..to}

ClientsOf(A) == {a.client : a \in A}

LimiterTypeOK ==
  /\ now \in Nat
  /\ DOMAIN entries \subseteq Client
  /\ entries = [c \in DOMAIN entries |-> entries[c]]
  /\ \A c \in DOMAIN entries :
       /\ entries[c] = [count |-> entries[c].count, resetAt |-> entries[c].resetAt]
       /\ entries[c].count \in Nat /\ entries[c].resetAt \in Nat
  /\ IsFiniteSet(admitted)
  /\ \A a \in admitted : a.client \in Client /\ a.at \in 0..now

NeverEmptied == Cardinality(ClientsOf(admitted)) <= MaxEntries

\* The window of client c accounts for the requests since it began, and those
\* less than a window before it all belong to the one before.
WindowAccounts(c) ==
  LET begun == entries[c].resetAt - WindowMs
  IN  /\ begun \in 0..now /\ entries[c].count \in 1..Limit
      /\ \A a \in admitted : a.client = c => a.at < entries[c].resetAt
      /\ Cardinality(Between(admitted, c, begun, now)) <= entries[c].count
      /\ Cardinality(Between(admitted, c, begun - WindowMs + 1, begun - 1)) <= Limit

TableAccounts ==
  /\ DOMAIN entries = ClientsOf(admitted)
  /\ \A c \in DOMAIN entries : WindowAccounts(c)

WithinTwice ==
  \A c \in Client, t \in 0..now :
    Cardinality(Between(admitted, c, t, t + WindowMs - 1)) <= 2 * Limit

LimiterInv == LimiterTypeOK /\ (NeverEmptied => TableAccounts /\ WithinTwice)

\* The limits are positive numbers.
LEMMA Limits ==
  Limit \in Nat \ {0} /\ WindowMs \in Nat \ {0} /\ MaxEntries \in Nat \ {0}
BY LimiterAssumption

\* A part of a finite set is finite and no larger.
LEMMA PartIsSmaller ==
  ASSUME NEW S, IsFiniteSet(S), NEW T, T \subseteq S
  PROVE  /\ IsFiniteSet(T) /\ Cardinality(T) \in Nat
         /\ Cardinality(S) \in Nat /\ Cardinality(T) <= Cardinality(S)
BY FS_Subset, FS_CardinalityType

\* Two parts together are no larger than their sum.
LEMMA TogetherNoLarger ==
  ASSUME NEW S, NEW T, NEW U, IsFiniteSet(S), IsFiniteSet(T), U \subseteq S \cup T
  PROVE  Cardinality(U) <= Cardinality(S) + Cardinality(T)
<1>1. /\ IsFiniteSet(S \cup T)
      /\ Cardinality(S \cup T) = Cardinality(S) + Cardinality(T) - Cardinality(S \cap T)
  BY FS_Union
<1>2. Cardinality(U) <= Cardinality(S \cup T) /\ Cardinality(U) \in Nat
  BY <1>1, PartIsSmaller
<1>3. Cardinality(S) \in Nat /\ Cardinality(T) \in Nat /\ Cardinality(S \cup T) \in Nat
  BY <1>1, FS_CardinalityType
<1>4. Cardinality(S \cap T) \in Nat
  BY PartIsSmaller
<1> QED
  BY <1>1, <1>2, <1>3, <1>4

\* One request more is at most one more.
LEMMA OneMore ==
  ASSUME NEW S, NEW x, NEW U, IsFiniteSet(S), U \subseteq S \cup {x}
  PROVE  Cardinality(U) <= Cardinality(S) + 1
BY FS_Singleton, TogetherNoLarger

\* The stretches of a finite record are finite.
LEMMA StretchIsFinite ==
  ASSUME NEW A, IsFiniteSet(A), NEW c, NEW from, NEW to
  PROVE  IsFiniteSet(Between(A, c, from, to)) /\ Cardinality(Between(A, c, from, to)) \in Nat
BY PartIsSmaller DEF Between

\* A finite record has finitely many clients.
LEMMA ClientsAreFinite ==
  ASSUME NEW A, IsFiniteSet(A)
  PROVE  IsFiniteSet(ClientsOf(A))
<1> DEFINE client == [a \in A |-> a.client]
<1>1. client \in Surjection(A, ClientsOf(A))
  BY DEF Surjection, ClientsOf
<1> QED
  BY <1>1, FS_Surjection

\* Initially nobody has been seen.
LEMMA LimiterInitInv == LimiterInit => LimiterInv
<1> SUFFICES ASSUME LimiterInit PROVE LimiterInv
  OBVIOUS
<1>1. now = 0 /\ admitted = {} /\ DOMAIN entries = {} /\ entries = [c \in {} |-> 0]
  BY DEF LimiterInit
<1>2. LimiterTypeOK
  BY <1>1, FS_EmptySet DEF LimiterTypeOK
<1>3. TableAccounts
  BY <1>1 DEF TableAccounts, ClientsOf
<1>4. WithinTwice
  <2> SUFFICES ASSUME NEW c \in Client, NEW t \in 0..now
               PROVE  Cardinality(Between(admitted, c, t, t + WindowMs - 1)) <= 2 * Limit
    BY DEF WithinTwice
  <2>1. Between(admitted, c, t, t + WindowMs - 1) = {}
    BY <1>1 DEF Between
  <2> QED
    BY <2>1, FS_EmptySet, Limits
<1> QED
  BY <1>2, <1>3, <1>4 DEF LimiterInv

\* A client that is let through: the table grows by one request of its window.
LEMMA Entering ==
  ASSUME LimiterTypeOK, NEW c \in Client, Admit(c)
  PROVE  /\ LimiterTypeOK' /\ now' = now
         /\ \E x : /\ x.client = c /\ x.at = now /\ admitted' = admitted \cup {x}
         /\ NeverEmptied' => NeverEmptied
         /\ NeverEmptied' /\ TableAccounts =>
              /\ DOMAIN entries' = ClientsOf(admitted')
              /\ \A d \in DOMAIN entries : d # c => entries'[d] = entries[d]
              /\ IF InWindow(c)
                 THEN entries'[c].count = entries[c].count + 1 /\ entries'[c].resetAt = entries[c].resetAt
                 ELSE entries'[c].count = 1 /\ entries'[c].resetAt = now + WindowMs
<1> DEFINE x == [client |-> c, at |-> now, serial |-> Cardinality(admitted)]
           entry == IF InWindow(c) THEN [entries[c] EXCEPT !.count = @ + 1]
                    ELSE [count |-> 1, resetAt |-> now + WindowMs]
           grown == [d \in DOMAIN entries \cup {c} |-> IF d = c THEN entry ELSE entries[d]]
<1>1. /\ entries' = Kept(grown) /\ admitted' = admitted \cup {x} /\ now' = now
  BY DEF Admit, Entered
<1>2. x.client = c /\ x.at = now
  OBVIOUS
<1> HIDE DEF x
<1>3. /\ now \in Nat /\ DOMAIN entries \subseteq Client /\ IsFiniteSet(admitted)
      /\ \A d \in DOMAIN entries :
           /\ entries[d] = [count |-> entries[d].count, resetAt |-> entries[d].resetAt]
           /\ entries[d].count \in Nat /\ entries[d].resetAt \in Nat
      /\ \A a \in admitted : a.client \in Client /\ a.at \in 0..now
  BY DEF LimiterTypeOK
<1>4. entry = IF InWindow(c) THEN [count |-> entries[c].count + 1, resetAt |-> entries[c].resetAt]
              ELSE [count |-> 1, resetAt |-> now + WindowMs]
  BY <1>3 DEF InWindow
<1>5. /\ entry = [count |-> entry.count, resetAt |-> entry.resetAt]
      /\ entry.count \in Nat /\ entry.resetAt \in Nat
  BY <1>3, <1>4, Limits DEF InWindow
<1> HIDE DEF entry
<1>6. /\ DOMAIN grown = DOMAIN entries \cup {c}
      /\ grown[c] = entry /\ \A d \in DOMAIN entries : d # c => grown[d] = entries[d]
  OBVIOUS
<1>7. grown = [d \in DOMAIN grown |-> grown[d]]
  BY <1>6
<1> HIDE DEF grown
<1>8. entries' = grown \/ entries' = [d \in {} |-> 0]
  BY <1>1 DEF Kept
<1>9. IsFiniteSet(admitted')
  BY <1>1, <1>3, FS_AddElement
<1>10. \A a \in admitted' : a.client \in Client /\ a.at \in 0..now
  BY <1>1, <1>2, <1>3
<1>11. LimiterTypeOK'
  <2>1. CASE entries' = grown
    BY <1>1, <1>3, <1>5, <1>6, <1>7, <1>9, <1>10, <2>1 DEF LimiterTypeOK
  <2>2. CASE entries' = [d \in {} |-> 0]
    BY <1>1, <1>3, <1>9, <1>10, <2>2 DEF LimiterTypeOK
  <2> QED
    BY <1>8, <2>1, <2>2
<1>12. ClientsOf(admitted') = ClientsOf(admitted) \cup {c}
  BY <1>1, <1>2 DEF ClientsOf
<1>13. IsFiniteSet(ClientsOf(admitted'))
  BY <1>9, ClientsAreFinite
<1>14. ASSUME NeverEmptied' PROVE NeverEmptied
  <2>1. Cardinality(ClientsOf(admitted)) <= Cardinality(ClientsOf(admitted'))
    BY <1>12, <1>13, PartIsSmaller
  <2>2. /\ Cardinality(ClientsOf(admitted')) \in Nat /\ Cardinality(ClientsOf(admitted)) \in Nat
    BY <1>12, <1>13, PartIsSmaller
  <2> QED
    BY <1>14, <2>1, <2>2, Limits DEF NeverEmptied
<1>15. ASSUME NeverEmptied', TableAccounts PROVE entries' = grown /\ DOMAIN grown = ClientsOf(admitted')
  <2>1. DOMAIN grown = ClientsOf(admitted')
    BY <1>6, <1>12, <1>15 DEF TableAccounts
  <2>2. ~(Cardinality(DOMAIN grown) > MaxEntries)
    <3>1. Cardinality(ClientsOf(admitted')) \in Nat
      BY <1>13, FS_CardinalityType
    <3>2. Cardinality(ClientsOf(admitted')) <= MaxEntries
      BY <1>15 DEF NeverEmptied
    <3> QED
      BY <2>1, <3>1, <3>2, Limits
  <2> QED
    BY <1>1, <2>1, <2>2 DEF Kept
<1>16. IF InWindow(c)
       THEN entry.count = entries[c].count + 1 /\ entry.resetAt = entries[c].resetAt
       ELSE entry.count = 1 /\ entry.resetAt = now + WindowMs
  BY <1>4
<1> QED
  BY <1>1, <1>2, <1>6, <1>11, <1>14, <1>15, <1>16

\* Whoever is let through within its window raises its count by one; whoever is
\* let through after it begins a new one.
LEMMA AdmittedAccounts ==
  ASSUME LimiterTypeOK, NEW c \in Client, Admit(c), NeverEmptied', TableAccounts
  PROVE  WindowAccounts(c)'
<1>1. PICK x : x.client = c /\ x.at = now /\ admitted' = admitted \cup {x}
  BY Entering
<1>2. /\ now' = now /\ now \in Nat /\ IsFiniteSet(admitted)
      /\ \A a \in admitted : a.client \in Client /\ a.at \in 0..now
      /\ \A d \in DOMAIN entries : entries[d].count \in Nat /\ entries[d].resetAt \in Nat
  BY Entering DEF LimiterTypeOK
<1>3. Limit \in Nat \ {0} /\ WindowMs \in Nat \ {0}
  BY Limits
<1>4. CASE InWindow(c)
  <2>1. entries'[c].count = entries[c].count + 1 /\ entries'[c].resetAt = entries[c].resetAt
    BY <1>4, Entering
  <2>2. c \in DOMAIN entries /\ now < entries[c].resetAt /\ WindowAccounts(c)
    BY <1>4 DEF InWindow, TableAccounts
  <2>3. entries[c].count < Limit
    BY <1>2, <1>3, <1>4, <2>2 DEF Admit, Exhausted
  <2> DEFINE begun == entries[c].resetAt - WindowMs
  <2>4. /\ begun \in 0..now /\ entries[c].count \in 1..Limit
        /\ \A a \in admitted : a.client = c => a.at < entries[c].resetAt
        /\ Cardinality(Between(admitted, c, begun, now)) <= entries[c].count
        /\ Cardinality(Between(admitted, c, begun - WindowMs + 1, begun - 1)) <= Limit
    BY <2>2 DEF WindowAccounts
  <2>5. Cardinality(Between(admitted', c, begun, now)) <= entries[c].count + 1
    <3>1. Between(admitted', c, begun, now) \subseteq Between(admitted, c, begun, now) \cup {x}
      BY <1>1 DEF Between
    <3>2. Cardinality(Between(admitted', c, begun, now)) <= Cardinality(Between(admitted, c, begun, now)) + 1
      BY <1>2, <3>1, StretchIsFinite, OneMore
    <3>3. /\ Cardinality(Between(admitted, c, begun, now)) \in Nat
          /\ Cardinality(Between(admitted', c, begun, now)) \in Nat
      BY <1>2, <1>1, StretchIsFinite, FS_AddElement
    <3> QED
      BY <2>2, <2>4, <3>2, <3>3, <1>2
  <2>6. Between(admitted', c, begun - WindowMs + 1, begun - 1)
          = Between(admitted, c, begun - WindowMs + 1, begun - 1)
    BY <1>1, <1>2, <1>3, <2>2, <2>4 DEF Between
  <2>7. \A a \in admitted' : a.client = c => a.at < entries[c].resetAt
    BY <1>1, <2>2, <2>4
  <2>8. entries'[c].count \in 1..Limit
    BY <2>1, <2>3, <2>4, <1>2, <1>3, <2>2
  <2> QED
    BY <1>2, <2>1, <2>4, <2>5, <2>6, <2>7, <2>8 DEF WindowAccounts
<1>5. CASE ~InWindow(c)
  <2>1. entries'[c].count = 1 /\ entries'[c].resetAt = now + WindowMs
    BY <1>5, Entering
  <2>2. \A a \in admitted : a.client = c =>
          c \in DOMAIN entries /\ entries[c].resetAt <= now /\ a.at < entries[c].resetAt
    BY <1>2, <1>5 DEF InWindow, TableAccounts, ClientsOf, WindowAccounts
  <2>3. Cardinality(Between(admitted', c, now, now)) <= 1
    <3>1. Between(admitted', c, now, now) \subseteq {} \cup {x}
      BY <1>1, <1>2, <2>2 DEF Between
    <3>2. Cardinality(Between(admitted', c, now, now)) <= Cardinality({}) + 1
      BY <3>1, OneMore, FS_EmptySet
    <3> QED
      BY <3>2, FS_EmptySet
  <2>4. Cardinality(Between(admitted', c, now - WindowMs + 1, now - 1)) <= Limit
    <3> DEFINE before == Between(admitted', c, now - WindowMs + 1, now - 1)
    <3>1. CASE c \notin DOMAIN entries
      <4>1. before = {}
        BY <1>1, <1>2, <2>2, <3>1 DEF Between
      <4> QED
        BY <4>1, <1>3, FS_EmptySet
    <3>2. CASE c \in DOMAIN entries
      <4> DEFINE begun == entries[c].resetAt - WindowMs
      <4>1. /\ begun \in 0..now /\ entries[c].count \in 1..Limit
            /\ Cardinality(Between(admitted, c, begun, now)) <= entries[c].count
        BY <3>2 DEF TableAccounts, WindowAccounts
      <4>2. entries[c].resetAt <= now /\ entries[c].resetAt \in Nat
        BY <1>2, <1>5, <3>2 DEF InWindow
      <4>3. before \subseteq Between(admitted, c, begun, now)
        BY <1>1, <1>2, <1>3, <4>1, <4>2 DEF Between
      <4>4. /\ Cardinality(before) <= Cardinality(Between(admitted, c, begun, now))
            /\ Cardinality(before) \in Nat /\ Cardinality(Between(admitted, c, begun, now)) \in Nat
        BY <1>2, <4>3, StretchIsFinite, PartIsSmaller
      <4> QED
        BY <4>1, <4>4, <1>3
    <3> QED
      BY <3>1, <3>2
  <2>5. \A a \in admitted' : a.client = c => a.at < now + WindowMs
    BY <1>1, <1>2, <1>3
  <2>6. entries'[c].resetAt - WindowMs = now
    BY <1>2, <1>3, <2>1
  <2> QED
    BY <1>2, <1>3, <2>1, <2>3, <2>4, <2>5, <2>6 DEF WindowAccounts
<1> QED
  BY <1>4, <1>5

\* A stretch of one window reaches into two windows at most: twice the limit.
LEMMA StretchesHold ==
  ASSUME NEW A, IsFiniteSet(A), NEW c, NEW n \in Nat, \A a \in A : a.at \in 0..n,
         NEW begun \in Int, NEW t \in Nat, t + WindowMs > begun,
         Cardinality(Between(A, c, begun, n)) <= Limit,
         Cardinality(Between(A, c, begun - WindowMs + 1, begun - 1)) <= Limit
  PROVE  Cardinality(Between(A, c, t, t + WindowMs - 1)) <= 2 * Limit
<1>1. Limit \in Nat \ {0} /\ WindowMs \in Nat \ {0}
  BY Limits
<1> DEFINE stretch == Between(A, c, t, t + WindowMs - 1)
           lately == Between(A, c, begun, n)
           before == Between(A, c, begun - WindowMs + 1, begun - 1)
<1>2. stretch \subseteq before \cup lately
  BY <1>1 DEF Between
<1>3. /\ IsFiniteSet(before) /\ IsFiniteSet(lately) /\ Cardinality(before) \in Nat
      /\ Cardinality(lately) \in Nat /\ Cardinality(stretch) \in Nat
  BY StretchIsFinite
<1>4. Cardinality(stretch) <= Cardinality(before) + Cardinality(lately)
  BY <1>2, <1>3, TogetherNoLarger
<1> QED
  BY <1>1, <1>3, <1>4

\* check() keeps its account of every client.
LEMMA AdmitKeeps ==
  ASSUME LimiterInv, NEW c \in Client, Admit(c)
  PROVE  LimiterInv'
<1>1. LimiterTypeOK /\ LimiterTypeOK' /\ now' = now
  BY Entering DEF LimiterInv
<1> SUFFICES ASSUME NeverEmptied' PROVE TableAccounts' /\ WithinTwice'
  BY <1>1 DEF LimiterInv
<1>2. NeverEmptied /\ TableAccounts /\ WithinTwice
  BY <1>1, Entering DEF LimiterInv
<1>3. PICK x : x.client = c /\ x.at = now /\ admitted' = admitted \cup {x}
  BY <1>1, Entering
<1>4. ASSUME NEW d, d # c, NEW from, NEW to
      PROVE  Between(admitted', d, from, to) = Between(admitted, d, from, to)
  BY <1>3, <1>4 DEF Between
<1>5. TableAccounts'
  <2>1. DOMAIN entries' = ClientsOf(admitted')
    BY <1>1, <1>2, Entering
  <2>2. ASSUME NEW d \in DOMAIN entries' PROVE WindowAccounts(d)'
    <3>1. CASE d = c
      BY <1>1, <1>2, <3>1, AdmittedAccounts
    <3>2. CASE d # c
      <4>1. d \in DOMAIN entries
        BY <1>2, <1>3, <2>1, <2>2, <3>2 DEF ClientsOf, TableAccounts
      <4>2. entries'[d] = entries[d]
        BY <1>1, <1>2, <3>2, <4>1, Entering
      <4>3. WindowAccounts(d)
        BY <1>2, <4>1 DEF TableAccounts
      <4>4. \A a \in admitted' : a.client = d => a.at < entries[d].resetAt
        BY <1>3, <3>2, <4>3 DEF WindowAccounts
      <4> QED
        BY <1>1, <1>4, <3>2, <4>2, <4>3, <4>4 DEF WindowAccounts
    <3> QED
      BY <3>1, <3>2
  <2> QED
    BY <2>1, <2>2 DEF TableAccounts
<1>6. WithinTwice'
  <2> SUFFICES ASSUME NEW d \in Client, NEW t \in 0..now
               PROVE  Cardinality(Between(admitted', d, t, t + WindowMs - 1)) <= 2 * Limit
    BY <1>1 DEF WithinTwice
  <2>1. CASE d \in DOMAIN entries' => t + WindowMs > entries'[d].resetAt - WindowMs
    <3>1. CASE d \notin DOMAIN entries'
      <4>1. Between(admitted', d, t, t + WindowMs - 1) = {}
        BY <1>5, <3>1 DEF TableAccounts, ClientsOf, Between
      <4> QED
        BY <4>1, Limits, FS_EmptySet
    <3>2. CASE d \in DOMAIN entries'
      <4> DEFINE begun == entries'[d].resetAt - WindowMs
      <4>1. /\ begun \in 0..now /\ entries'[d].count \in 1..Limit
            /\ Cardinality(Between(admitted', d, begun, now)) <= entries'[d].count
            /\ Cardinality(Between(admitted', d, begun - WindowMs + 1, begun - 1)) <= Limit
        BY <1>1, <1>5, <3>2 DEF TableAccounts, WindowAccounts
      <4>2. /\ now \in Nat /\ IsFiniteSet(admitted') /\ \A a \in admitted' : a.at \in 0..now
        BY <1>1 DEF LimiterTypeOK
      <4>3. Cardinality(Between(admitted', d, begun, now)) <= Limit
        BY <4>1, <4>2, StretchIsFinite, Limits
      <4>4. t + WindowMs > begun
        BY <2>1, <3>2
      <4> HIDE DEF begun
      <4> QED
        BY <4>1, <4>2, <4>3, <4>4, StretchesHold
    <3> QED
      BY <3>1, <3>2
  <2>2. CASE ~(d \in DOMAIN entries' => t + WindowMs > entries'[d].resetAt - WindowMs)
    <3>1. Between(admitted', d, t, t + WindowMs - 1) = Between(admitted, d, t, t + WindowMs - 1)
      <4>1. WindowAccounts(d)' /\ entries'[d].resetAt \in Nat
        BY <1>1, <1>5, <2>2 DEF TableAccounts, LimiterTypeOK
      <4>2. entries'[d].resetAt - WindowMs <= now /\ now \in Nat
        BY <1>1, <4>1 DEF WindowAccounts, LimiterTypeOK
      <4>3. t + WindowMs - 1 < now
        BY <2>2, <4>1, <4>2, Limits
      <4> QED
        BY <1>3, <4>2, <4>3, Limits DEF Between
    <3> QED
      BY <1>2, <3>1 DEF WithinTwice
  <2> QED
    BY <2>1, <2>2
<1> QED
  BY <1>5, <1>6

\* Time alone lets nobody through.
LEMMA TickKeeps ==
  ASSUME LimiterInv, Tick
  PROVE  LimiterInv'
<1>1. LimiterTypeOK /\ now' = now + 1 /\ UNCHANGED <<entries, admitted>> /\ now \in Nat
  BY DEF LimiterInv, LimiterTypeOK, Tick
<1>2. LimiterTypeOK'
  BY <1>1 DEF LimiterTypeOK
<1> SUFFICES ASSUME NeverEmptied' PROVE TableAccounts' /\ WithinTwice'
  BY <1>2 DEF LimiterInv
<1>3. TableAccounts /\ WithinTwice
  BY <1>1 DEF LimiterInv, NeverEmptied
<1>4. \A a \in admitted : a.at \in 0..now
  BY <1>1 DEF LimiterTypeOK
<1>5. ASSUME NEW c \in DOMAIN entries PROVE WindowAccounts(c)'
  <2>1. WindowAccounts(c) /\ entries[c].resetAt \in Nat
    BY <1>1, <1>3 DEF TableAccounts, LimiterTypeOK
  <2>2. Between(admitted, c, entries[c].resetAt - WindowMs, now + 1)
          = Between(admitted, c, entries[c].resetAt - WindowMs, now)
    BY <1>1, <1>4, <2>1, Limits DEF Between
  <2>3. (entries[c].resetAt - WindowMs) \in 0..(now + 1)
    BY <1>1, <2>1, Limits DEF WindowAccounts
  <2> QED
    BY <1>1, <2>1, <2>2, <2>3 DEF WindowAccounts
<1>6. TableAccounts'
  BY <1>1, <1>3, <1>5 DEF TableAccounts
<1>7. ASSUME NEW c \in Client, NEW t \in 0..(now + 1)
      PROVE  Cardinality(Between(admitted, c, t, t + WindowMs - 1)) <= 2 * Limit
  <2>1. CASE t \in 0..now
    BY <1>3, <2>1 DEF WithinTwice
  <2>2. CASE t = now + 1
    <3>1. Between(admitted, c, t, t + WindowMs - 1) = {}
      BY <1>1, <1>4, <2>2, Limits DEF Between
    <3> QED
      BY <3>1, FS_EmptySet, Limits
  <2> QED
    BY <1>1, <2>1, <2>2
<1> QED
  BY <1>1, <1>6, <1>7 DEF WithinTwice

\* Nothing else touches the limiter.
LEMMA LimiterStep ==
  ASSUME LimiterInv, [Next]_vars
  PROVE  LimiterInv'
<1>1. ASSUME UNCHANGED limiterVars PROVE LimiterInv'
  BY <1>1 DEF LimiterInv, limiterVars, LimiterTypeOK, NeverEmptied, TableAccounts, WindowAccounts,
              WithinTwice
<1>2. \/ UNCHANGED limiterVars
      \/ \E c \in Client : Admit(c)
      \/ Tick
  <2>1. CASE PageNext
    BY <2>1 DEF PageNext, OpenAuxo, GenerateRefused, CancelAuxo, DiscardAuxoPreview, ConfirmDrifted,
                ConfirmAuxoPlan, Render, Edit, AskAtRoot, UndoAtRoot, ToggleNutrient, RemoveNutrient,
                NutrientArrives
  <2>2. ASSUME NEW r \in Run, RunNext(r) PROVE UNCHANGED limiterVars \/ Admit(Page)
    BY <2>2 DEF RunNext, Generate, ClientTimesOut, ResponseArrives, RouteReceives, Refuse,
                PostReturns, PostFails, PollSeesEnd, PollFails, ClientGone, RouteTimesOut, Aborts,
                CancelEnds, RuntimeAccepts, TaskEnds
  <2>3. ASSUME NEW c \in Client, OtherRequest(c) PROVE UNCHANGED limiterVars \/ Admit(c)
    BY <2>3 DEF OtherRequest, Refuse
  <2>4. CASE TimePasses
    BY <2>4 DEF TimePasses
  <2>5. CASE UNCHANGED vars
    BY <2>5 DEF vars
  <2> QED
    BY <2>1, <2>2, <2>3, <2>4, <2>5, SessionAssumption DEF Next
<1> QED
  BY <1>1, <1>2, AdmitKeeps, TickKeeps

\* The invariant of the limiter: as long as the table was never emptied, the
\* window of every client it has seen accounts for that client's requests.
THEOREM LimiterInvariant == AuxoSpec => []LimiterInv
<1>1. Init => LimiterInv
  BY LimiterInitInv DEF Init
<1>2. LimiterInv /\ [Next]_vars => LimiterInv'
  BY LimiterStep
<1> QED
  BY <1>1, <1>2, PTL DEF AuxoSpec

\* LimitHolds: check() of the route's limiter lets no client through more than
\* twice the limit in any stretch of one window, while its table does not
\* overflow.
THEOREM LimitAlwaysHolds == AuxoSpec => []LimitHolds
<1>1. LimiterInv => LimitHolds
  BY DEF LimiterInv, LimitHolds, NeverEmptied, WithinTwice, ClientsOf, Between
<1> QED
  BY <1>1, LimiterInvariant, PTL

-----------------------------------------------------------------------------
(* The route and its tasks.                                                *)

\* The shape of what the page, the route and the Runtime know of a run.
RunShape(r) ==
  /\ call[r] = [stage |-> call[r].stage, bundle |-> call[r].bundle]
  /\ route[r] = [stage |-> route[r].stage, attempt |-> route[r].attempt,
                 answer |-> route[r].answer, plan |-> route[r].plan]
  /\ task[r] = [state |-> task[r].state, reply |-> task[r].reply]
  /\ route[r].attempt \in Nat

RunsTyped ==
  /\ call = [r \in Run |-> call[r]] /\ route = [r \in Run |-> route[r]]
  /\ task = [r \in Run |-> task[r]]
  /\ \A r \in Run : RunShape(r)

\* A run: nothing is posted before the route takes it up; whoever polls or
\* cancels has a task the Runtime has taken; no attempt is beyond the last;
\* an answer leaves a task behind only if the submission failed before the task
\* had a name, or its cancellation failed.
RunAccounts(r) ==
  /\ call[r].stage = "idle" => route[r].stage = "none"
  /\ route[r].stage \in {"none", "arriving", "posting", "polling", "cancelling", "answered"}
  /\ route[r].stage \in {"none", "arriving"} => task[r].state = "none" /\ route[r].attempt = 0
  /\ route[r].stage \in {"polling", "cancelling"} => task[r].state \notin {"none", "sent", "refused"}
  /\ route[r].stage = "posting" => task[r].state # "none"
  /\ route[r].attempt <= MaxAttempts
  /\ route[r].stage = "answered" /\ task[r].state \in {"sent", "live"} =>
       route[r].answer \in {"unnamed", "uncancelled"}

RouteInv == RunsTyped /\ \A r \in Run : RunAccounts(r)

\* The run r is left as it was, or answers for itself.
Moves(r) ==
  /\ call' = [call EXCEPT ![r] = call'[r]] /\ route' = [route EXCEPT ![r] = route'[r]]
  /\ task' = [task EXCEPT ![r] = task'[r]]

\* A step of one run disturbs no other.
LEMMA OthersStand ==
  ASSUME RouteInv, NEW r \in Run, Moves(r), RunShape(r)', RunAccounts(r)'
  PROVE  RouteInv'
<1>1. RunsTyped
  BY DEF RouteInv
<1>2. call' = [q \in Run |-> call'[q]] /\ route' = [q \in Run |-> route'[q]] /\ task' = [q \in Run |-> task'[q]]
  BY <1>1 DEF RunsTyped, Moves
<1>3. ASSUME NEW q \in Run, q # r PROVE RunShape(q)' /\ RunAccounts(q)'
  <2>1. call'[q] = call[q] /\ route'[q] = route[q] /\ task'[q] = task[q]
    BY <1>1, <1>3 DEF RunsTyped, Moves
  <2> QED
    BY <2>1 DEF RouteInv, RunsTyped, RunShape, RunAccounts
<1> QED
  BY <1>2, <1>3 DEF RouteInv, RunsTyped

\* A run the page begins is on its way to the route.
LEMMA GenerateKeeps ==
  ASSUME RouteInv, NEW r \in Run, Generate(r)
  PROVE  RouteInv'
<1>1. RunsTyped /\ RunShape(r) /\ RunAccounts(r)
  BY DEF RouteInv, RunsTyped
<1>2. call[r].stage = "idle"
  <2>1. r \in Nat /\ (call[r].stage = "idle" <=> r >= r)
    BY SessionAssumption DEF Generate
  <2> QED
    BY <2>1
<1>3. PICK bundle : call' = [call EXCEPT ![r] = [stage |-> "waiting", bundle |-> bundle]]
  BY DEF Generate
<1>4. route' = [route EXCEPT ![r].stage = "arriving"] /\ UNCHANGED task
  BY DEF Generate
<1>5. /\ call'[r] = [stage |-> "waiting", bundle |-> bundle] /\ task'[r] = task[r]
      /\ route'[r] = [stage |-> "arriving", attempt |-> route[r].attempt,
                      answer |-> route[r].answer, plan |-> route[r].plan]
  BY <1>1, <1>3, <1>4 DEF RunsTyped, RunShape
<1>6. Moves(r)
  BY <1>1, <1>3, <1>4, <1>5 DEF Moves, RunsTyped
<1>7. RunShape(r)'
  BY <1>1, <1>5 DEF RunShape
<1>8. RunAccounts(r)'
  BY <1>1, <1>2, <1>5 DEF RunAccounts
<1> QED
  BY <1>6, <1>7, <1>8, OthersStand

\* Whatever the page does, what is idle stays so or has been.
LEMMA PageKeepsRoute ==
  ASSUME RouteInv, UNCHANGED <<route, task>>, call' = [r \in Run |-> call'[r]],
         \A r \in Run : /\ call'[r] = [stage |-> call'[r].stage, bundle |-> call'[r].bundle]
                        /\ call'[r].stage = "idle" => call[r].stage = "idle"
  PROVE  RouteInv'
<1>1. RunsTyped' /\ \A r \in Run : RunAccounts(r)
  BY DEF RouteInv, RunsTyped, RunShape
<1>2. ASSUME NEW r \in Run PROVE RunAccounts(r)'
  BY <1>1 DEF RunAccounts
<1> QED
  BY <1>1, <1>2 DEF RouteInv

\* Closing the dialog ends the requests that wait.
LEMMA CancelAuxoKeeps ==
  ASSUME RouteInv, CancelAuxo
  PROVE  RouteInv'
<1>1. /\ call' = [r \in Run |-> IF r \in InFlight THEN [call[r] EXCEPT !.stage = "over"] ELSE call[r]]
      /\ UNCHANGED <<route, task>>
  BY DEF CancelAuxo
<1>2. ASSUME NEW r \in Run
      PROVE  /\ call'[r] = [stage |-> call'[r].stage, bundle |-> call'[r].bundle]
             /\ call'[r].stage = "idle" => call[r].stage = "idle"
  <2>1. call[r] = [stage |-> call[r].stage, bundle |-> call[r].bundle]
    BY DEF RouteInv, RunsTyped, RunShape
  <2>2. CASE r \in InFlight
    <3>1. call'[r] = [stage |-> "over", bundle |-> call[r].bundle]
      BY <1>1, <2>1, <2>2
    <3> QED
      BY <3>1
  <2>3. CASE r \notin InFlight
    BY <1>1, <2>1, <2>3
  <2> QED
    BY <2>2, <2>3
<1>3. call' = [r \in Run |-> call'[r]]
  BY <1>1
<1> QED
  BY <1>1, <1>2, <1>3, PageKeepsRoute

\* A request that fails by the page's own timer is over.
LEMMA ClientTimesOutKeeps ==
  ASSUME RouteInv, NEW r \in Run, ClientTimesOut(r)
  PROVE  RouteInv'
<1>1. call' = [call EXCEPT ![r].stage = "over"] /\ UNCHANGED <<route, task>>
  BY DEF ClientTimesOut
<1>2. RunsTyped /\ RunShape(r) /\ RunAccounts(r)
  BY DEF RouteInv, RunsTyped
<1>3. call'[r] = [stage |-> "over", bundle |-> call[r].bundle] /\ route'[r] = route[r] /\ task'[r] = task[r]
  BY <1>1, <1>2 DEF RunsTyped, RunShape
<1>4. Moves(r)
  BY <1>1, <1>2, <1>3 DEF Moves, RunsTyped
<1>5. RunShape(r)' /\ RunAccounts(r)'
  BY <1>2, <1>3 DEF RunShape, RunAccounts
<1> QED
  BY <1>4, <1>5, OthersStand

\* A response that arrives is read once.
LEMMA ResponseKeeps ==
  ASSUME RouteInv, NEW r \in Run, ResponseArrives(r)
  PROVE  RouteInv'
<1>1. /\ call' = [call EXCEPT ![r] = [stage |-> "over", bundle |-> None]]
      /\ route' = [route EXCEPT ![r].plan = <<>>] /\ UNCHANGED task
  BY DEF ResponseArrives
<1>2. RunsTyped /\ RunShape(r) /\ RunAccounts(r)
  BY DEF RouteInv, RunsTyped
<1>3. /\ call'[r] = [stage |-> "over", bundle |-> None] /\ task'[r] = task[r]
      /\ route'[r] = [stage |-> route[r].stage, attempt |-> route[r].attempt,
                      answer |-> route[r].answer, plan |-> <<>>]
  BY <1>1, <1>2 DEF RunsTyped, RunShape
<1>4. Moves(r)
  BY <1>1, <1>2, <1>3 DEF Moves, RunsTyped
<1>5. RunShape(r)'
  BY <1>2, <1>3 DEF RunShape
<1>6. RunAccounts(r)'
  BY <1>2, <1>3 DEF RunAccounts
<1> QED
  BY <1>4, <1>5, <1>6, OthersStand

\* The record of the route after each kind of answer or submission.
LEMMA Answering ==
  ASSUME RouteInv, NEW r \in Run, NEW answer, Answers(r, answer)
  PROVE  /\ route' = [route EXCEPT ![r] = route'[r]]
         /\ route'[r] = [stage |-> "answered", attempt |-> route[r].attempt,
                         answer |-> answer, plan |-> route[r].plan]
<1>1. /\ route = [q \in Run |-> route[q]]
      /\ route[r] = [stage |-> route[r].stage, attempt |-> route[r].attempt,
                     answer |-> route[r].answer, plan |-> route[r].plan]
  BY DEF RouteInv, RunsTyped, RunShape
<1>2. route' = [route EXCEPT ![r] = [[route[r] EXCEPT !.stage = "answered"] EXCEPT !.answer = answer]]
  BY <1>1 DEF Answers
<1>3. [[route[r] EXCEPT !.stage = "answered"] EXCEPT !.answer = answer]
        = [stage |-> "answered", attempt |-> route[r].attempt, answer |-> answer, plan |-> route[r].plan]
  <2> DEFINE moved == [route[r] EXCEPT !.stage = "answered"]
  <2>1. moved = [stage |-> "answered", attempt |-> route[r].attempt,
                 answer |-> route[r].answer, plan |-> route[r].plan]
    BY <1>1
  <2> HIDE DEF moved
  <2>2. [moved EXCEPT !.answer = answer]
          = [stage |-> "answered", attempt |-> route[r].attempt,
             answer |-> answer, plan |-> route[r].plan]
    BY <2>1
  <2> QED
    BY <2>2 DEF moved
<1> QED
  BY <1>1, <1>2, <1>3

LEMMA Posting ==
  ASSUME RouteInv, NEW r \in Run, PostsTask(r)
  PROVE  /\ route' = [route EXCEPT ![r] = route'[r]] /\ task' = [task EXCEPT ![r] = task'[r]]
         /\ route'[r] = [stage |-> "posting", attempt |-> route[r].attempt + 1,
                         answer |-> route[r].answer, plan |-> route[r].plan]
         /\ task'[r] = [state |-> "sent", reply |-> None]
<1>1. /\ route = [q \in Run |-> route[q]] /\ task = [q \in Run |-> task[q]]
      /\ route[r] = [stage |-> route[r].stage, attempt |-> route[r].attempt,
                     answer |-> route[r].answer, plan |-> route[r].plan]
  BY DEF RouteInv, RunsTyped, RunShape
<1>2. /\ route' = [route EXCEPT ![r] = [[route[r] EXCEPT !.stage = "posting"]
                                          EXCEPT !.attempt = route[r].attempt + 1]]
      /\ task' = [task EXCEPT ![r] = [state |-> "sent", reply |-> None]]
  BY <1>1 DEF PostsTask
<1>3. [[route[r] EXCEPT !.stage = "posting"] EXCEPT !.attempt = route[r].attempt + 1]
        = [stage |-> "posting", attempt |-> route[r].attempt + 1,
           answer |-> route[r].answer, plan |-> route[r].plan]
  <2> DEFINE moved == [route[r] EXCEPT !.stage = "posting"]
  <2>1. moved = [stage |-> "posting", attempt |-> route[r].attempt,
                 answer |-> route[r].answer, plan |-> route[r].plan]
    BY <1>1
  <2> HIDE DEF moved
  <2>2. [moved EXCEPT !.attempt = route[r].attempt + 1]
          = [stage |-> "posting", attempt |-> route[r].attempt + 1,
             answer |-> route[r].answer, plan |-> route[r].plan]
    BY <2>1
  <2> QED
    BY <2>2 DEF moved
<1> QED
  BY <1>1, <1>2, <1>3

LEMMA Moving ==
  ASSUME RouteInv, NEW r \in Run, NEW stage, route' = [route EXCEPT ![r].stage = stage]
  PROVE  /\ route' = [route EXCEPT ![r] = route'[r]]
         /\ route'[r] = [stage |-> stage, attempt |-> route[r].attempt,
                         answer |-> route[r].answer, plan |-> route[r].plan]
BY DEF RouteInv, RunsTyped, RunShape

\* A step of the route or the Runtime for run r, given what it leaves behind.
LEMMA RouteStepStands ==
  ASSUME RouteInv, NEW r \in Run, UNCHANGED call, call[r].stage # "idle",
         route' = [route EXCEPT ![r] = route'[r]], task' = [task EXCEPT ![r] = task'[r]],
         route'[r] = [stage |-> route'[r].stage, attempt |-> route'[r].attempt,
                      answer |-> route'[r].answer, plan |-> route'[r].plan],
         task'[r] = [state |-> task'[r].state, reply |-> task'[r].reply],
         route'[r].attempt \in Nat, route'[r].attempt <= MaxAttempts,
         route'[r].stage \in {"posting", "polling", "cancelling", "answered"},
         route'[r].stage = "posting" => task'[r].state # "none",
         route'[r].stage \in {"polling", "cancelling"} => task'[r].state \notin {"none", "sent", "refused"},
         route'[r].stage = "answered" /\ task'[r].state \in {"sent", "live"} =>
           route'[r].answer \in {"unnamed", "uncancelled"}
  PROVE  RouteInv'
<1>1. RunsTyped /\ RunShape(r)
  BY DEF RouteInv, RunsTyped
<1>2. Moves(r)
  BY <1>1 DEF Moves, RunsTyped
<1>3. RunShape(r)'
  BY <1>1 DEF RunShape
<1>4. RunAccounts(r)'
  BY DEF RunAccounts
<1> QED
  BY <1>2, <1>3, <1>4, OthersStand

\* What holds of a run the route handles.
LEMMA Handled ==
  ASSUME RouteInv, NEW r \in Run, route[r].stage # "none"
  PROVE  /\ call[r].stage # "idle" /\ RunShape(r) /\ RunAccounts(r)
         /\ route = [route EXCEPT ![r] = route[r]] /\ task = [task EXCEPT ![r] = task[r]]
         /\ route[r] = [stage |-> route[r].stage, attempt |-> route[r].attempt,
                        answer |-> route[r].answer, plan |-> route[r].plan]
         /\ task[r] = [state |-> task[r].state, reply |-> task[r].reply]
         /\ route[r].attempt \in Nat /\ route[r].attempt <= MaxAttempts
BY DEF RouteInv, RunsTyped, RunShape, RunAccounts

\* The route takes up a request: it refuses, answers or posts the first attempt.
LEMMA RouteReceivesKeeps ==
  ASSUME RouteInv, NEW r \in Run, RouteReceives(r)
  PROVE  RouteInv'
<1>1. route[r].stage = "arriving" /\ UNCHANGED call
  BY DEF RouteReceives
<1>2. /\ call[r].stage # "idle" /\ task[r].state = "none" /\ route[r].attempt = 0
      /\ task = [task EXCEPT ![r] = task[r]]
      /\ task[r] = [state |-> task[r].state, reply |-> task[r].reply]
  BY <1>1, Handled DEF RunAccounts
<1>3. MaxAttempts \in Nat \ {0}
  BY SessionAssumption
<1>4. CASE Answers(r, "error") /\ UNCHANGED task
  <2>1. /\ route' = [route EXCEPT ![r] = route'[r]]
        /\ route'[r] = [stage |-> "answered", attempt |-> 0, answer |-> "error", plan |-> route[r].plan]
    BY <1>2, <1>4, Answering
  <2> QED
    BY <1>1, <1>2, <1>3, <1>4, <2>1, RouteStepStands
<1>5. CASE PostsTask(r)
  <2>1. /\ route' = [route EXCEPT ![r] = route'[r]] /\ task' = [task EXCEPT ![r] = task'[r]]
        /\ route'[r] = [stage |-> "posting", attempt |-> 1, answer |-> route[r].answer,
                        plan |-> route[r].plan]
        /\ task'[r] = [state |-> "sent", reply |-> None]
    BY <1>2, <1>5, Posting
  <2> QED
    BY <1>1, <1>2, <1>3, <2>1, RouteStepStands
<1> QED
  BY <1>4, <1>5 DEF RouteReceives

\* The answer to the submission.
LEMMA PostKeeps ==
  ASSUME RouteInv, NEW r \in Run, PostReturns(r)
  PROVE  RouteInv'
<1>1. route[r].stage = "posting" /\ UNCHANGED <<call, task>>
  BY DEF PostReturns
<1>a. /\ call[r].stage # "idle" /\ task' = [task EXCEPT ![r] = task'[r]]
      /\ task'[r] = [state |-> task[r].state, reply |-> task[r].reply]
      /\ route[r].attempt \in Nat /\ route[r].attempt <= MaxAttempts
  BY <1>1, Handled
<1>2. route' = [route EXCEPT ![r].stage = "polling"] /\ task[r].state \notin {"sent", "refused"}
  BY DEF PostReturns
<1>3. /\ route' = [route EXCEPT ![r] = route'[r]]
      /\ route'[r] = [stage |-> "polling", attempt |-> route[r].attempt,
                      answer |-> route[r].answer, plan |-> route[r].plan]
  BY <1>2, Moving
<1>4. task[r].state # "none"
  BY <1>1, Handled DEF RunAccounts
<1>5. /\ route'[r].stage = "polling" /\ route'[r].attempt \in Nat
      /\ route'[r].attempt <= MaxAttempts /\ task'[r].state = task[r].state
  BY <1>1, <1>a, <1>3
<1> QED
  BY <1>1, <1>a, <1>2, <1>3, <1>4, <1>5, RouteStepStands

\* The record of a task that is set or whose state alone moves.
LEMMA TaskMoving ==
  ASSUME RouteInv, NEW r \in Run, NEW state, task' = [task EXCEPT ![r].state = state]
  PROVE  /\ task' = [task EXCEPT ![r] = task'[r]]
         /\ task'[r] = [state |-> state, reply |-> task[r].reply]
BY DEF RouteInv, RunsTyped, RunShape

\* The route answers while its task stands as it is, and may.
LEMMA AnsweringStands ==
  ASSUME RouteInv, NEW r \in Run, route[r].stage # "none", NEW answer, Answers(r, answer),
         UNCHANGED call, task' = [task EXCEPT ![r] = task'[r]],
         task'[r] = [state |-> task'[r].state, reply |-> task'[r].reply],
         task'[r].state \in {"sent", "live"} => answer \in {"unnamed", "uncancelled"}
  PROVE  RouteInv'
<1>1. /\ route' = [route EXCEPT ![r] = route'[r]]
      /\ route'[r] = [stage |-> "answered", attempt |-> route[r].attempt,
                      answer |-> answer, plan |-> route[r].plan]
  BY Answering
<1>2. call[r].stage # "idle" /\ route[r].attempt \in Nat /\ route[r].attempt <= MaxAttempts
  BY Handled
<1>3. /\ route'[r].stage = "answered" /\ route'[r].answer = answer /\ route'[r].attempt \in Nat
      /\ route'[r].attempt <= MaxAttempts
      /\ route'[r] = [stage |-> route'[r].stage, attempt |-> route'[r].attempt,
                      answer |-> route'[r].answer, plan |-> route'[r].plan]
  BY <1>1, <1>2
<1> QED
  BY <1>1, <1>2, <1>3, RouteStepStands

\* The route moves on while its task stands as it is.
LEMMA MovingStands ==
  ASSUME RouteInv, NEW r \in Run, route[r].stage = "polling",
         route' = [route EXCEPT ![r].stage = "cancelling"], UNCHANGED <<call, task>>
  PROVE  RouteInv'
<1>1. /\ route' = [route EXCEPT ![r] = route'[r]]
      /\ route'[r] = [stage |-> "cancelling", attempt |-> route[r].attempt,
                      answer |-> route[r].answer, plan |-> route[r].plan]
  BY Moving
<1>2. /\ call[r].stage # "idle" /\ route[r].attempt \in Nat /\ route[r].attempt <= MaxAttempts
      /\ task' = [task EXCEPT ![r] = task'[r]]
      /\ task'[r] = [state |-> task'[r].state, reply |-> task'[r].reply]
      /\ task'[r].state \notin {"none", "sent", "refused"}
  BY Handled DEF RunAccounts
<1>3. /\ route'[r].stage = "cancelling" /\ route'[r].attempt \in Nat
      /\ route'[r].attempt <= MaxAttempts
      /\ route'[r] = [stage |-> route'[r].stage, attempt |-> route'[r].attempt,
                      answer |-> route'[r].answer, plan |-> route'[r].plan]
  BY <1>1, <1>2
<1> QED
  BY <1>1, <1>2, <1>3, RouteStepStands

\* The poll that sees the task's end: a plan, one more attempt, or an error.
LEMMA PollSeesEndKeeps ==
  ASSUME RouteInv, NEW r \in Run, PollSeesEnd(r)
  PROVE  RouteInv'
<1> DEFINE request == call[r].bundle.request
           read == [task EXCEPT ![r].reply = None]
<1>1. route[r].stage = "polling" /\ task[r].state \in {"completed", "failed"} /\ UNCHANGED call
  BY DEF PollSeesEnd
<1>2. /\ call[r].stage # "idle" /\ route[r].attempt \in Nat /\ route[r].attempt <= MaxAttempts
      /\ RunsTyped /\ RunShape(r)
  BY <1>1, Handled DEF RouteInv
<1>3. PICK verdict :
        \/ /\ verdict = "accepted"
           /\ route' = [route EXCEPT ![r].stage = "answered", ![r].answer = "plan",
                                     ![r].plan = AcceptedPlan(task[r].reply, request)]
           /\ task' = read
        \/ /\ verdict = "too large" /\ route[r].attempt < MaxAttempts
           /\ PostsTask(r)
        \/ /\ verdict = "invalid" \/ (verdict = "too large" /\ route[r].attempt = MaxAttempts)
           /\ Answers(r, "error") /\ task' = read
  BY DEF PollSeesEnd
<1>4. ASSUME task' = read
      PROVE  /\ task' = [task EXCEPT ![r] = task'[r]]
             /\ task'[r] = [state |-> task'[r].state, reply |-> task'[r].reply]
             /\ task'[r].state \notin {"sent", "live"}
  <2>1. task'[r] = [state |-> task[r].state, reply |-> None]
    BY <1>2, <1>4 DEF RunsTyped, RunShape
  <2>2. task' = [task EXCEPT ![r] = task'[r]]
    BY <1>2, <1>4 DEF RunsTyped, RunShape
  <2> QED
    BY <1>1, <2>1, <2>2
<1>5. CASE /\ route' = [route EXCEPT ![r].stage = "answered", ![r].answer = "plan",
                                     ![r].plan = AcceptedPlan(task[r].reply, request)]
           /\ task' = read
  <2> DEFINE plan == AcceptedPlan(task[r].reply, request)
             moved == [route[r] EXCEPT !.stage = "answered"]
             answered == [moved EXCEPT !.answer = "plan"]
  <2>1. moved = [stage |-> "answered", attempt |-> route[r].attempt,
                 answer |-> route[r].answer, plan |-> route[r].plan]
    BY <1>2 DEF RunShape
  <2>2. route' = [route EXCEPT ![r] = [answered EXCEPT !.plan = plan]]
    BY <1>2, <1>5 DEF RunsTyped
  <2> HIDE DEF plan, moved
  <2>3. answered = [stage |-> "answered", attempt |-> route[r].attempt,
                    answer |-> "plan", plan |-> route[r].plan]
    BY <2>1
  <2> HIDE DEF answered
  <2>4. [answered EXCEPT !.plan = plan] = [stage |-> "answered", attempt |-> route[r].attempt,
                                           answer |-> "plan", plan |-> plan]
    BY <2>3
  <2>5. /\ route' = [route EXCEPT ![r] = route'[r]]
        /\ route'[r] = [stage |-> "answered", attempt |-> route[r].attempt,
                        answer |-> "plan", plan |-> plan]
    BY <1>2, <2>2, <2>4 DEF RunsTyped
  <2>6. /\ route'[r].stage = "answered" /\ route'[r].attempt = route[r].attempt
        /\ route'[r] = [stage |-> route'[r].stage, attempt |-> route'[r].attempt,
                        answer |-> route'[r].answer, plan |-> route'[r].plan]
    BY <2>5
  <2> QED
    BY <1>1, <1>2, <1>4, <1>5, <2>5, <2>6, RouteStepStands
<1>6. CASE route[r].attempt < MaxAttempts /\ PostsTask(r)
  <2>1. /\ route' = [route EXCEPT ![r] = route'[r]] /\ task' = [task EXCEPT ![r] = task'[r]]
        /\ route'[r] = [stage |-> "posting", attempt |-> route[r].attempt + 1,
                        answer |-> route[r].answer, plan |-> route[r].plan]
        /\ task'[r] = [state |-> "sent", reply |-> None]
    BY <1>6, Posting
  <2>2. route'[r].stage = "posting" /\ route'[r].attempt = route[r].attempt + 1 /\ task'[r].state = "sent"
    BY <2>1
  <2>3. route[r].attempt + 1 \in Nat /\ route[r].attempt + 1 <= MaxAttempts
    BY <1>2, <1>6, SessionAssumption
  <2>4. /\ route'[r] = [stage |-> route'[r].stage, attempt |-> route'[r].attempt,
                        answer |-> route'[r].answer, plan |-> route'[r].plan]
        /\ task'[r] = [state |-> task'[r].state, reply |-> task'[r].reply]
    BY <2>1
  <2> QED
    BY <1>1, <1>2, <2>1, <2>2, <2>3, <2>4, RouteStepStands
<1>7. CASE Answers(r, "error") /\ task' = read
  BY <1>1, <1>4, <1>7, AnsweringStands
<1> QED
  BY <1>3, <1>5, <1>6, <1>7

\* A task that stands: nothing of a run but its answer has moved.
LEMMA TaskStands ==
  ASSUME RouteInv, NEW r \in Run, UNCHANGED task
  PROVE  /\ task' = [task EXCEPT ![r] = task'[r]]
         /\ task'[r] = [state |-> task'[r].state, reply |-> task'[r].reply]
BY DEF RouteInv, RunsTyped, RunShape

\* The submission fails, whatever became of the task.
LEMMA PostFailsKeeps ==
  ASSUME RouteInv, NEW r \in Run, PostFails(r)
  PROVE  RouteInv'
<1>1. route[r].stage = "posting" /\ Answers(r, "unnamed") /\ UNCHANGED <<call, task>>
  BY DEF PostFails
<1> QED
  BY <1>1, TaskStands, AnsweringStands

\* The signal is raised.
LEMMA AbortsKeeps ==
  ASSUME RouteInv, NEW r \in Run, Aborts(r)
  PROVE  RouteInv'
<1>1. UNCHANGED <<call, task>>
  BY DEF Aborts
<1>2. CASE route[r].stage = "posting" /\ Answers(r, "unnamed")
  BY <1>1, <1>2, TaskStands, AnsweringStands
<1>3. CASE route[r].stage = "polling" /\ route' = [route EXCEPT ![r].stage = "cancelling"]
  BY <1>1, <1>3, MovingStands
<1> QED
  BY <1>2, <1>3 DEF Aborts

\* The cancellation is answered, or fails and says so.
LEMMA CancelEndsKeeps ==
  ASSUME RouteInv, NEW r \in Run, CancelEnds(r)
  PROVE  RouteInv'
<1>1. route[r].stage = "cancelling" /\ UNCHANGED call
  BY DEF CancelEnds
<1>2. RunsTyped /\ RunShape(r) /\ task[r].state # "sent"
  BY <1>1 DEF RouteInv, RunsTyped, RunAccounts
<1>3. CASE /\ task' = [task EXCEPT ![r].state = IF @ = "live" THEN "cancelled" ELSE @]
           /\ Answers(r, "error")
  <2> DEFINE state == IF task[r].state = "live" THEN "cancelled" ELSE task[r].state
  <2>1. task' = [task EXCEPT ![r].state = state]
    BY <1>2, <1>3 DEF RunsTyped
  <2>2. state \notin {"sent", "live"}
    BY <1>2
  <2> HIDE DEF state
  <2>3. task' = [task EXCEPT ![r] = task'[r]] /\ task'[r] = [state |-> state, reply |-> task[r].reply]
    BY <2>1, TaskMoving
  <2>4. /\ task'[r] = [state |-> task'[r].state, reply |-> task'[r].reply]
        /\ task'[r].state \notin {"sent", "live"}
    BY <2>2, <2>3
  <2> QED
    BY <1>1, <1>3, <2>3, <2>4, AnsweringStands
<1>4. CASE Answers(r, "uncancelled") /\ UNCHANGED task
  BY <1>1, <1>4, TaskStands, AnsweringStands
<1> QED
  BY <1>3, <1>4 DEF CancelEnds

\* The Runtime takes a task or refuses it, or the task ends: nobody's answer is
\* belied.
LEMMA RuntimeKeeps ==
  ASSUME RouteInv, NEW r \in Run, RuntimeAccepts(r) \/ TaskEnds(r)
  PROVE  RouteInv'
<1>1. UNCHANGED <<call, route>> /\ task[r].state \in {"sent", "live"}
  BY DEF RuntimeAccepts, TaskEnds
<1>2. RunsTyped /\ RunShape(r) /\ RunAccounts(r)
  BY DEF RouteInv, RunsTyped
<1>3. /\ task' = [task EXCEPT ![r] = task'[r]]
      /\ task'[r] = [state |-> task'[r].state, reply |-> task'[r].reply]
      /\ task'[r].state \in {"live", "refused", "completed", "failed"}
      /\ task'[r].state = "refused" => task[r].state = "sent"
  <2>1. CASE RuntimeAccepts(r)
    <3>1. PICK state \in {"live", "refused"} : task' = [task EXCEPT ![r].state = state]
      BY <2>1 DEF RuntimeAccepts
    <3>2. task' = [task EXCEPT ![r] = task'[r]] /\ task'[r] = [state |-> state, reply |-> task[r].reply]
      BY <3>1, TaskMoving
    <3>3. task[r].state = "sent"
      BY <2>1 DEF RuntimeAccepts
    <3> QED
      BY <3>1, <3>2, <3>3
  <2>2. CASE \E reply : task' = [task EXCEPT ![r] = [state |-> "completed", reply |-> reply]]
    <3>1. PICK reply : task' = [task EXCEPT ![r] = [state |-> "completed", reply |-> reply]]
      BY <2>2
    <3>2. task'[r] = [state |-> "completed", reply |-> reply]
      BY <1>2, <3>1 DEF RunsTyped
    <3>3. task' = [task EXCEPT ![r] = task'[r]]
      BY <3>1, <3>2
    <3> QED
      BY <3>2, <3>3
  <2>3. CASE task' = [task EXCEPT ![r].state = "failed"]
    <3>1. task' = [task EXCEPT ![r] = task'[r]] /\ task'[r] = [state |-> "failed", reply |-> task[r].reply]
      BY <2>3, TaskMoving
    <3> QED
      BY <3>1
  <2> QED
    BY <2>1, <2>2, <2>3 DEF TaskEnds
<1>4. Moves(r)
  BY <1>1, <1>2, <1>3 DEF Moves, RunsTyped
<1>5. RunShape(r)' /\ RunAccounts(r)'
  BY <1>1, <1>2, <1>3 DEF RunShape, RunAccounts
<1> QED
  BY <1>4, <1>5, OthersStand

\* Initially no run has begun.
LEMMA RouteInitInv == Init => RouteInv
BY SessionAssumption DEF Init, RouteInv, RunsTyped, RunShape, RunAccounts

\* Every step keeps the account of every run.
LEMMA RouteStep ==
  ASSUME RouteInv, [Next]_vars
  PROVE  RouteInv'
<1>1. ASSUME UNCHANGED <<call, route, task>> PROVE RouteInv'
  BY <1>1 DEF RouteInv, RunsTyped, RunShape, RunAccounts
<1>2. CASE PageNext
  <2>1. CancelAuxo \/ UNCHANGED <<call, route, task>>
    BY <1>2 DEF PageNext, OpenAuxo, GenerateRefused, DiscardAuxoPreview, ConfirmDrifted,
                ConfirmAuxoPlan, Render, Edit, AskAtRoot, UndoAtRoot, ToggleNutrient, RemoveNutrient,
                NutrientArrives
  <2> QED
    BY <1>1, <2>1, CancelAuxoKeeps
<1>3. ASSUME NEW r \in Run, RunNext(r) PROVE RouteInv'
  <2>1. CASE PollFails(r)
    BY <2>1, MovingStands DEF PollFails
  <2> QED
    BY <1>3, <2>1, GenerateKeeps, ClientTimesOutKeeps, ResponseKeeps, RouteReceivesKeeps, PostKeeps,
       PostFailsKeeps, PollSeesEndKeeps, AbortsKeeps, CancelEndsKeeps, RuntimeKeeps
       DEF RunNext, ClientGone, RouteTimesOut
<1>4. ASSUME NEW c \in Client, OtherRequest(c) PROVE RouteInv'
  BY <1>1, <1>4 DEF OtherRequest, sessionVars
<1>5. CASE TimePasses
  BY <1>1, <1>5 DEF TimePasses, sessionVars
<1>6. CASE UNCHANGED vars
  BY <1>1, <1>6 DEF vars, sessionVars
<1> QED
  BY <1>2, <1>3, <1>4, <1>5, <1>6 DEF Next

\* The invariant of the route: no run polls or cancels a task the Runtime has
\* not taken, none posts more than MaxAttempts times, and none answers over a
\* living task unless its submission failed before the task had a name, or its
\* cancellation failed.
THEOREM RouteInvariant == AuxoSpec => []RouteInv
<1>1. Init => RouteInv
  BY RouteInitInv
<1>2. RouteInv /\ [Next]_vars => RouteInv'
  BY RouteStep
<1> QED
  BY <1>1, <1>2, PTL DEF AuxoSpec

\* What NoTaskAbandoned asks of a step and a run.
LetsGo(r) ==
  TaskNamed(r) /\ ~TaskNamed(r)' =>
    \/ task[r].state # "live" \/ task'[r].state = "cancelled"
    \/ route'[r].answer = "uncancelled"

\* A step of run q lets go of its own task only, and of no living one.
LEMMA RunLetsGo ==
  ASSUME RouteInv, NEW q \in Run, RunNext(q), NEW r \in Run
  PROVE  LetsGo(r)
<1>1. /\ route = [p \in Run |-> route[p]] /\ task = [p \in Run |-> task[p]]
      /\ \A p \in Run : RunShape(p)
  BY DEF RouteInv, RunsTyped
<1>2. ASSUME route'[r] = route[r] PROVE LetsGo(r)
  BY <1>2 DEF LetsGo, TaskNamed
<1>3. ASSUME NEW stage \in {"polling", "cancelling"}, route' = [route EXCEPT ![q].stage = stage]
      PROVE  LetsGo(r)
  <2>1. CASE q = r
    BY <1>3, <2>1, Moving DEF LetsGo, TaskNamed
  <2>2. CASE q # r
    BY <1>1, <1>2, <1>3, <2>2
  <2> QED
    BY <2>1, <2>2
<1>4. CASE Generate(q) \/ ResponseArrives(q) \/ RouteReceives(q)
  <2>1. ASSUME q # r PROVE route'[r] = route[r]
    BY <1>1, <1>4, <2>1 DEF Generate, ResponseArrives, RouteReceives, Answers, PostsTask
  <2>2. ASSUME q = r, Generate(q) PROVE LetsGo(r)
    <3>1. call[r].stage = "idle"
      <4>1. r \in Nat /\ (call[r].stage = "idle" <=> r >= r)
        BY <2>2, SessionAssumption DEF Generate
      <4> QED
        BY <4>1
    <3> QED
      BY <3>1 DEF LetsGo, TaskNamed, RouteInv, RunAccounts
  <2>3. ASSUME q = r, ResponseArrives(q) \/ RouteReceives(q) PROVE LetsGo(r)
    BY <2>3 DEF LetsGo, TaskNamed, ResponseArrives, RouteReceives
  <2> QED
    BY <1>2, <1>4, <2>1, <2>2, <2>3
<1>5. CASE PostReturns(q) \/ PollFails(q)
  BY <1>3, <1>5 DEF PostReturns, PollFails
<1>6. CASE PostFails(q) \/ ClientGone(q) \/ RouteTimesOut(q)
  <2>1. \/ route[q].stage = "posting" /\ Answers(q, "unnamed")
        \/ route' = [route EXCEPT ![q].stage = "cancelling"]
    BY <1>6 DEF PostFails, ClientGone, RouteTimesOut, Aborts
  <2>2. CASE route[q].stage = "posting" /\ Answers(q, "unnamed")
    <3>1. CASE q = r
      BY <2>2, <3>1 DEF LetsGo, TaskNamed
    <3>2. CASE q # r
      BY <1>1, <1>2, <2>2, <3>2 DEF Answers
    <3> QED
      BY <3>1, <3>2
  <2> QED
    BY <1>3, <2>1, <2>2
<1>7. CASE PollSeesEnd(q)
  <2>1. task[q].state # "live"
    BY <1>7 DEF PollSeesEnd
  <2>2. ASSUME q # r PROVE route'[r] = route[r]
    BY <1>1, <1>7, <2>2 DEF PollSeesEnd, Answers, PostsTask
  <2> QED
    BY <1>2, <2>1, <2>2 DEF LetsGo
<1>8. CASE CancelEnds(q)
  <2>1. ASSUME q # r PROVE route'[r] = route[r]
    BY <1>1, <1>8, <2>1 DEF CancelEnds, Answers
  <2>2. ASSUME q = r, task[r].state = "live",
               task' = [task EXCEPT ![q].state = IF @ = "live" THEN "cancelled" ELSE @]
        PROVE  task'[r].state = "cancelled"
    <3>1. task[r] = [state |-> task[r].state, reply |-> task[r].reply]
      BY <1>1 DEF RunShape
    <3>2. task' = [task EXCEPT ![r].state = "cancelled"]
      BY <1>1, <2>2
    <3>3. task'[r] = [state |-> "cancelled", reply |-> task[r].reply]
      BY <3>2, TaskMoving
    <3> QED
      BY <3>3
  <2>3. ASSUME q = r, Answers(q, "uncancelled") PROVE route'[r].answer = "uncancelled"
    <3>1. route'[r] = [stage |-> "answered", attempt |-> route[r].attempt,
                       answer |-> "uncancelled", plan |-> route[r].plan]
      BY <2>3, Answering
    <3> QED
      BY <3>1
  <2> QED
    BY <1>2, <1>8, <2>1, <2>2, <2>3 DEF CancelEnds, LetsGo
<1>9. CASE ClientTimesOut(q) \/ RuntimeAccepts(q) \/ TaskEnds(q)
  BY <1>2, <1>9 DEF ClientTimesOut, RuntimeAccepts, TaskEnds
<1> QED
  BY <1>4, <1>5, <1>6, <1>7, <1>8, <1>9 DEF RunNext

\* NoTaskAbandoned: runRuntimeTask lets go of no task whose name it has learned
\* before that task is over, unless the cancellation itself failed.
THEOREM TasksAreNotAbandoned == AuxoSpec => NoTaskAbandoned
<1>1. RouteInv /\ [Next]_vars => [\A r \in Run : LetsGo(r)]_vars
  <2> SUFFICES ASSUME RouteInv, Next PROVE \A r \in Run : LetsGo(r)
    OBVIOUS
  <2>1. ASSUME UNCHANGED route PROVE \A r \in Run : LetsGo(r)
    BY <2>1 DEF LetsGo, TaskNamed
  <2>2. CASE PageNext
    BY <2>1, <2>2 DEF PageNext, OpenAuxo, GenerateRefused, CancelAuxo, DiscardAuxoPreview,
       ConfirmDrifted, ConfirmAuxoPlan, Render, Edit, AskAtRoot, UndoAtRoot, ToggleNutrient,
       RemoveNutrient, NutrientArrives
  <2>3. CASE (\E c \in Client : OtherRequest(c)) \/ TimePasses
    BY <2>1, <2>3 DEF OtherRequest, TimePasses, sessionVars
  <2> QED
    BY <2>2, <2>3, RunLetsGo DEF Next
<1>2. [\A r \in Run : LetsGo(r)]_vars =>
        [\A r \in Run : TaskNamed(r) /\ ~TaskNamed(r)' =>
           \/ task[r].state # "live" \/ task'[r].state = "cancelled"
           \/ route'[r].answer = "uncancelled"]_vars
  BY DEF LetsGo
<1> QED
  BY <1>1, <1>2, RouteInvariant, PTL DEF AuxoSpec, NoTaskAbandoned
=============================================================================
