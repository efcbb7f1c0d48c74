---------------------------- MODULE RouterProofs ----------------------------
(***************************************************************************)
(* Proofs about Router and the workers behind it, for every set of tasks,  *)
(* every list of workers, every threshold and every way a Router may be    *)
(* built.                                                                  *)
(*                                                                         *)
(* RouterInv makes the run's invariants inductive: it adds who is in the   *)
(* line for the health lock, which executions have a lease, how far a      *)
(* passed-over worker is from its turn, and how a tracker's counters       *)
(* follow from the last probes that agree.                                 *)
(***************************************************************************)
EXTENDS Router, SequenceTheorems, FiniteSetTheorems, TLAPS

-----------------------------------------------------------------------------
(* The gateway, for every set of requests and workers, real or mock, and    *)
(* every number of permits.                                                 *)

(* Lines: what the operators on a line without repetition do.               *)

\* Leaving a line keeps the order of the others: whoever leaves is out, the rest
\* stays in, and nobody is in it twice.
LEMMA LeavingALine ==
  ASSUME NEW T, NEW s \in Seq(T), IsInjective(s), NEW e
  PROVE  /\ RemoveFirst(s, e) \in Seq(T)
         /\ Range(RemoveFirst(s, e)) = Range(s) \ {e}
         /\ IsInjective(RemoveFirst(s, e))
         /\ s # <<>> /\ Head(s) # e => RemoveFirst(s, e) # <<>> /\ Head(RemoveFirst(s, e)) = Head(s)
<1>1. Len(s) \in Nat /\ DOMAIN s = 1..Len(s) /\ Range(s) = {s[i] : i \in 1..Len(s)}
  BY LenProperties, RangeEquality
<1>2. CASE ~\E i \in 1..Len(s) : s[i] = e
  <2>1. RemoveFirst(s, e) = s
    BY <1>2 DEF RemoveFirst
  <2> QED
    BY <1>1, <1>2, <2>1
<1>3. CASE \E i \in 1..Len(s) : s[i] = e
  <2>1. PICK k \in 1..Len(s) : s[k] = e
    BY <1>3
  <2>2. {i \in 1..Len(s) : s[i] = e} = {k}
    BY <1>1, <2>1 DEF IsInjective
  <2>first. SelectInSeq(s, LAMBDA v : v = e) = k
    <3>1. Min({k}) = k
      BY <2>1 DEF Min
    <3> QED
      BY <2>2, <3>1 DEF SelectInSeq
  <2>4. RemoveFirst(s, e) = SubSeq(s, 1, k - 1) \o SubSeq(s, k + 1, Len(s))
    BY <1>3, <2>first DEF RemoveFirst, RemoveAt
  <2> DEFINE a == SubSeq(s, 1, k - 1)
             b == SubSeq(s, k + 1, Len(s))
             r == a \o b
  <2>5. \A i \in 1..Len(s) : s[i] \in T
    BY <1>1
  <2>6. /\ a \in Seq(T) /\ Len(a) = k - 1
        /\ \A i \in 1..(k - 1) : a[i] = s[i]
    <3>1. k - 1 \in Int /\ 1 \in Int /\ \A i \in 1..(k - 1) : s[i] \in T
      BY <1>1, <2>1, <2>5
    <3>2. /\ a \in Seq(T)
          /\ Len(a) = IF 1 <= k - 1 THEN k - 1 - 1 + 1 ELSE 0
          /\ \A i \in 1..(k - 1 - 1 + 1) : a[i] = s[1 + i - 1]
      BY <3>1, SubSeqProperties
    <3> HIDE DEF a
    <3> QED
      BY <3>2, <1>1, <2>1
  <2>7. /\ b \in Seq(T) /\ Len(b) = Len(s) - k
        /\ \A i \in 1..(Len(s) - k) : b[i] = s[k + i]
    <3>1. k + 1 \in Int /\ Len(s) \in Int /\ \A i \in (k + 1)..Len(s) : s[i] \in T
      BY <1>1, <2>1, <2>5
    <3>2. /\ b \in Seq(T)
          /\ Len(b) = IF k + 1 <= Len(s) THEN Len(s) - (k + 1) + 1 ELSE 0
          /\ \A i \in 1..(Len(s) - (k + 1) + 1) : b[i] = s[k + 1 + i - 1]
      BY <3>1, SubSeqProperties
    <3> HIDE DEF b
    <3>3. Len(b) = Len(s) - k
      <4>1. PICK m \in Nat : m = Len(s)
        BY <1>1
      <4>2. k \in 1..m /\ Len(b) = IF k + 1 <= m THEN m - (k + 1) + 1 ELSE 0
        BY <2>1, <3>2, <4>1
      <4>3. Len(b) = m - k
        BY <4>2
      <4> QED
        BY <4>1, <4>3
    <3>4. ASSUME NEW i \in 1..(Len(s) - k) PROVE b[i] = s[k + i]
      <4>1. i \in 1..(Len(s) - (k + 1) + 1) /\ k + 1 + i - 1 = k + i
        BY <1>1, <2>1
      <4> QED
        BY <3>2, <4>1
    <3> QED
      BY <3>2, <3>3, <3>4
  <2> HIDE DEF a, b
  <2>8. /\ r \in Seq(T) /\ Len(r) = Len(s) - 1
        /\ \A i \in 1..(Len(s) - 1) : r[i] = IF i < k THEN s[i] ELSE s[i + 1]
    <3>1. /\ r \in Seq(T) /\ Len(r) = Len(a) + Len(b)
          /\ \A i \in 1..(Len(a) + Len(b)) :
               r[i] = IF i <= Len(a) THEN a[i] ELSE b[i - Len(a)]
      BY <2>6, <2>7, ConcatProperties
    <3> HIDE DEF r
    <3>2. Len(r) = Len(s) - 1
      BY <3>1, <1>1, <2>1, <2>6, <2>7
    <3>3. ASSUME NEW i \in 1..(Len(s) - 1)
          PROVE  r[i] = IF i < k THEN s[i] ELSE s[i + 1]
      <4>1. r[i] = IF i <= k - 1 THEN a[i] ELSE b[i - (k - 1)]
        BY <3>1, <1>1, <2>1, <2>6, <2>7
      <4>2. CASE i < k
        BY <4>1, <4>2, <1>1, <2>1, <2>6
      <4>3. CASE i >= k
        <5>1. i - (k - 1) \in 1..(Len(s) - k) /\ k + (i - (k - 1)) = i + 1 /\ ~(i <= k - 1)
          BY <4>3, <1>1, <2>1
        <5> QED
          BY <4>1, <4>3, <5>1, <1>1, <2>1, <2>7
      <4> QED
        BY <4>2, <4>3, <1>1, <2>1
    <3> QED
      BY <3>1, <3>2, <3>3
  <2>9. DOMAIN r = 1..(Len(s) - 1) /\ Range(r) = {r[i] : i \in 1..(Len(s) - 1)}
    BY <2>8, LenProperties, RangeEquality
  <2> HIDE DEF r
  <2>10. Range(r) = Range(s) \ {e}
    <3>1. ASSUME NEW i \in 1..(Len(s) - 1) PROVE r[i] \in Range(s) \ {e}
      <4>1. CASE i < k
        <5>1. r[i] = s[i] /\ i \in 1..Len(s) /\ i # k
          BY <1>1, <2>1, <2>8, <4>1
        <5> QED
          BY <1>1, <2>2, <5>1
      <4>2. CASE i >= k
        <5>1. r[i] = s[i + 1] /\ i + 1 \in 1..Len(s) /\ i + 1 # k
          BY <1>1, <2>1, <2>8, <4>2
        <5> QED
          BY <1>1, <2>2, <5>1
      <4> QED
        BY <4>1, <4>2, <2>1
    <3>2. ASSUME NEW j \in 1..Len(s), s[j] # e PROVE s[j] \in Range(r)
      <4>1. CASE j < k
        <5>1. j \in 1..(Len(s) - 1) /\ r[j] = s[j]
          BY <1>1, <2>1, <2>8, <4>1
        <5> QED
          BY <2>9, <5>1
      <4>2. CASE j > k
        <5>1. j - 1 \in 1..(Len(s) - 1) /\ r[j - 1] = s[j]
          BY <1>1, <2>1, <2>8, <4>2
        <5> QED
          BY <2>9, <5>1
      <4> QED
        BY <2>1, <3>2, <4>1, <4>2
    <3> QED
      BY <1>1, <2>9, <3>1, <3>2
  <2>3. IsInjective(r)
    <3> SUFFICES ASSUME NEW i \in 1..(Len(s) - 1), NEW j \in 1..(Len(s) - 1), r[i] = r[j]
                 PROVE  i = j
      BY <2>9 DEF IsInjective
    <3>1. \A m, n \in 1..Len(s) : s[m] = s[n] => m = n
      BY <1>1 DEF IsInjective
    <3> QED
      BY <1>1, <2>1, <2>8, <3>1
  <2>12. s # <<>> /\ Head(s) # e => r # <<>> /\ Head(r) = Head(s)
    <3> SUFFICES ASSUME s # <<>>, Head(s) # e PROVE r # <<>> /\ Head(r) = Head(s)
      OBVIOUS
    <3>1. Head(s) = s[1] /\ k # 1 /\ Len(s) - 1 >= 1
      BY <1>1, <2>1
    <3>2. r # <<>> /\ r[1] = s[1]
      BY <1>1, <2>1, <2>8, <3>1
    <3> QED
      BY <3>1, <3>2, <2>8
  <2> QED
    BY <2>4, <2>8, <2>10, <2>3, <2>12 DEF r, a, b
<1> QED
  BY <1>2, <1>3

\* Joining a line at its end.
LEMMA JoiningALine ==
  ASSUME NEW T, NEW s \in Seq(T), IsInjective(s), NEW e \in T, e \notin Range(s)
  PROVE  /\ Append(s, e) \in Seq(T) /\ Append(s, e) # <<>>
         /\ Range(Append(s, e)) = Range(s) \cup {e}
         /\ IsInjective(Append(s, e))
<1>1. Len(s) \in Nat /\ DOMAIN s = 1..Len(s) /\ Range(s) = {s[i] : i \in 1..Len(s)}
  BY LenProperties, RangeEquality
<1> DEFINE r == Append(s, e)
<1>2. /\ r \in Seq(T) /\ r # <<>> /\ Len(r) = Len(s) + 1
      /\ \A i \in 1..Len(s) : r[i] = s[i]
      /\ r[Len(s) + 1] = e
  BY AppendProperties
<1>3. DOMAIN r = 1..(Len(s) + 1) /\ Range(r) = {r[i] : i \in 1..(Len(s) + 1)}
  BY <1>2, LenProperties, RangeEquality
<1> HIDE DEF r
<1>4. Range(r) = Range(s) \cup {e}
  <2>1. ASSUME NEW i \in 1..(Len(s) + 1) PROVE r[i] \in Range(s) \cup {e}
    BY <1>1, <1>2
  <2>2. ASSUME NEW i \in 1..Len(s) PROVE s[i] \in Range(r)
    BY <1>1, <1>2, <1>3
  <2>3. e \in Range(r)
    BY <1>1, <1>2, <1>3
  <2> QED
    BY <1>1, <1>3, <2>1, <2>2, <2>3
<1>5. IsInjective(r)
  BY <1>1, <1>2, <1>3 DEF IsInjective
<1> QED
  BY <1>2, <1>4, <1>5 DEF r

FirstOf(s, n) == {s[i] : i \in 1..n}

\* The first n of a line and the rest of it part it in two, and the first n are
\* n in number.
LEMMA PartingALine ==
  ASSUME NEW T, NEW s \in Seq(T), IsInjective(s), NEW n \in 0..Len(s)
  PROVE  /\ SubSeq(s, n + 1, Len(s)) \in Seq(T)
         /\ IsInjective(SubSeq(s, n + 1, Len(s)))
         /\ Range(SubSeq(s, n + 1, Len(s))) = Range(s) \ FirstOf(s, n)
         /\ SubSeq(s, n + 1, Len(s)) = <<>> <=> n = Len(s)
         /\ FirstOf(s, n) \subseteq Range(s)
         /\ IsFiniteSet(FirstOf(s, n))
         /\ Cardinality(FirstOf(s, n)) = n
<1>1. Len(s) \in Nat /\ DOMAIN s = 1..Len(s) /\ Range(s) = {s[i] : i \in 1..Len(s)}
  BY LenProperties, RangeEquality
<1> DEFINE r == SubSeq(s, n + 1, Len(s))
           first == {s[i] : i \in 1..n}
<1>2. /\ r \in Seq(T) /\ Len(r) = Len(s) - n
      /\ \A i \in 1..(Len(s) - n) : r[i] = s[n + i]
  <2>1. n + 1 \in Int /\ Len(s) \in Int /\ \A i \in (n + 1)..Len(s) : s[i] \in T
    BY <1>1
  <2>2. /\ r \in Seq(T)
        /\ Len(r) = IF n + 1 <= Len(s) THEN Len(s) - (n + 1) + 1 ELSE 0
        /\ \A i \in 1..(Len(s) - (n + 1) + 1) : r[i] = s[n + 1 + i - 1]
    BY <2>1, SubSeqProperties
  <2> HIDE DEF r
  <2>3. Len(r) = Len(s) - n
    <3> DEFINE l == Len(s)
    <3>0. l \in Nat /\ n \in Nat /\ n <= l
      BY <1>1
    <3> HIDE DEF l
    <3>1. (IF n + 1 <= l THEN l - (n + 1) + 1 ELSE 0) = l - n
      BY <3>0
    <3> USE DEF l
    <3> QED
      BY <2>2, <3>1
  <2>4. ASSUME NEW i \in 1..(Len(s) - n) PROVE r[i] = s[n + i]
    <3>1. i \in 1..(Len(s) - (n + 1) + 1) /\ n + 1 + i - 1 = n + i
      BY <1>1
    <3> QED
      BY <2>2, <3>1
  <2> QED
    BY <2>2, <2>3, <2>4
<1>3. DOMAIN r = 1..(Len(s) - n) /\ Range(r) = {r[i] : i \in 1..(Len(s) - n)}
  BY <1>2, LenProperties, RangeEquality
<1> HIDE DEF r
<1>4. IsInjective(r)
  <2> SUFFICES ASSUME NEW i \in 1..(Len(s) - n), NEW j \in 1..(Len(s) - n), r[i] = r[j]
               PROVE  i = j
    BY <1>3 DEF IsInjective
  <2>1. \A a, b \in 1..Len(s) : s[a] = s[b] => a = b
    BY <1>1 DEF IsInjective
  <2> QED
    BY <1>1, <1>2, <2>1
<1>5. Range(r) = Range(s) \ first
  <2>1. ASSUME NEW i \in 1..(Len(s) - n) PROVE r[i] \in Range(s) \ first
    <3>1. \A a, b \in 1..Len(s) : s[a] = s[b] => a = b
      BY <1>1 DEF IsInjective
    <3>2. n + i \in 1..Len(s) /\ n + i \notin 1..n /\ r[i] = s[n + i] /\ 1..n \subseteq 1..Len(s)
      BY <1>1, <1>2
    <3> QED
      BY <1>1, <3>1, <3>2
  <2>2. ASSUME NEW j \in 1..Len(s), s[j] \notin first PROVE s[j] \in Range(r)
    <3>1. j - n \in 1..(Len(s) - n) /\ r[j - n] = s[j]
      BY <1>1, <1>2, <2>2
    <3> QED
      BY <1>3, <3>1
  <2> QED
    BY <1>1, <1>3, <2>1, <2>2
<1>6. r = <<>> <=> n = Len(s)
  <2>1. \A v \in Seq(T) : v = <<>> <=> Len(v) = 0
    BY EmptySeq
  <2>2. Len(r) = 0 <=> n = Len(s)
    BY <1>1, <1>2
  <2> QED
    BY <1>2, <2>1, <2>2
<1>7. first \subseteq Range(s)
  BY <1>1
<1>8. IsFiniteSet(first) /\ Cardinality(first) = n
  <2> DEFINE f == [i \in 1..n |-> s[i]]
  <2>1. f \in Bijection(1..n, first)
    BY <1>1 DEF Bijection, Injection, Surjection, IsInjective
  <2>2. ExistsBijection(1..n, first)
    BY <2>1 DEF ExistsBijection
  <2>3. IsFiniteSet(1..n)
    BY FS_Interval
  <2> QED
    BY <2>2, <2>3, FS_Bijection, FS_CountingElements
<1> QED
  BY <1>2, <1>4, <1>5, <1>6, <1>7, <1>8 DEF r, FirstOf

\* The head of a line leaves it.
LEMMA LeavingAhead ==
  ASSUME NEW T, NEW s \in Seq(T), IsInjective(s), s # <<>>
  PROVE  /\ Tail(s) \in Seq(T) /\ IsInjective(Tail(s))
         /\ Head(s) \in Range(s) /\ Range(Tail(s)) = Range(s) \ {Head(s)}
<1>1. Len(s) \in Nat \ {0} /\ Range(s) = {s[i] : i \in 1..Len(s)} /\ Head(s) = s[1]
  BY EmptySeq, LenProperties, RangeEquality
<1>2. PICK n \in 0..Len(s) : n = 1
  BY <1>1
<1>3. FirstOf(s, n) = {Head(s)} /\ n + 1 = 2
  BY <1>1, <1>2 DEF FirstOf
<1>4. Tail(s) = SubSeq(s, n + 1, Len(s))
  BY <1>3, TailIsSubSeq
<1>5. /\ SubSeq(s, n + 1, Len(s)) \in Seq(T) /\ IsInjective(SubSeq(s, n + 1, Len(s)))
      /\ Range(SubSeq(s, n + 1, Len(s))) = Range(s) \ FirstOf(s, n)
  BY <1>2, PartingALine
<1>6. Head(s) \in Range(s)
  BY <1>1
<1> QED
  BY <1>3, <1>4, <1>5, <1>6

-----------------------------------------------------------------------------
(* The inductive invariant.                                                 *)

\* The requests of w that wait in its line, that were given a permit and have
\* yet to resume, and that hold one.
WaitingAt(w) == {t \in Task : request[t].at = w /\ request[t].stage = "waiting"}
GrantedAt(w) == {t \in Task : request[t].at = w /\ request[t].stage = "granted"}
HoldersAt(w) ==
  {t \in Task : /\ request[t].at = w
                /\ \/ request[t].stage \in {"setup", "streaming"}
                   \/ request[t].stage = "ready" /\ w \in Real}

\* Only a real gateway prepares a request upstream.
WorkerTypeOK ==
  /\ request \in [Task -> [stage : Stage, at : Worker \cup {None}]]
  /\ \A t \in Task : /\ request[t].stage = "none" <=> request[t].at = None
                     /\ request[t].stage = "setup" => request[t].at \in Real
  /\ line \in [Worker -> Seq(Task)]
  /\ permits \in [Worker -> Nat]
  /\ running \in [Worker -> Int] /\ waiting \in [Worker -> Int] /\ lost \in [Worker -> Nat]

Begun == {t \in Task : request[t].stage # "none"}

\* PermitsAccounted for one worker, the waiters and the woken counted apart.
Accounts(w) ==
  /\ permits[w] + running[w] + Cardinality(GrantedAt(w)) = MaxConcurrency[w]
  /\ running[w] = Cardinality(HoldersAt(w)) + lost[w]
  /\ waiting[w] = Cardinality(WaitingAt(w)) + Cardinality(GrantedAt(w))
  /\ Range(line[w]) = WaitingAt(w) /\ IsInjective(line[w])
  /\ line[w] # <<>> => permits[w] = 0 \/ GrantedAt(w) # {}

WorkerInv ==
  /\ WorkerTypeOK
  /\ IsFiniteSet(Begun)
  /\ \A w \in Worker : Accounts(w)

\* The sets the invariant counts are finite, and a waiter was not given a permit.
LEMMA CountedSets ==
  ASSUME WorkerInv, NEW w \in Worker
  PROVE  /\ IsFiniteSet(WaitingAt(w)) /\ Cardinality(WaitingAt(w)) \in Nat
         /\ IsFiniteSet(GrantedAt(w)) /\ Cardinality(GrantedAt(w)) \in Nat
         /\ IsFiniteSet(HoldersAt(w)) /\ Cardinality(HoldersAt(w)) \in Nat
         /\ WaitingAt(w) \cap GrantedAt(w) = {}
<1>1. IsFiniteSet(Begun)
  BY DEF WorkerInv
<1>2. WaitingAt(w) \subseteq Begun /\ GrantedAt(w) \subseteq Begun /\ HoldersAt(w) \subseteq Begun
  BY DEF WaitingAt, GrantedAt, HoldersAt, Begun
<1>3. WaitingAt(w) \cap GrantedAt(w) = {}
  BY DEF WaitingAt, GrantedAt
<1> QED
  BY <1>1, <1>2, <1>3, FS_Subset, FS_CardinalityType

\* The invariant says what the runs check.
LEMMA AccountsSuffice == WorkerInv => PermitsAccounted
<1> SUFFICES ASSUME WorkerInv, NEW w \in Worker
             PROVE  /\ permits[w] + running[w] + Cardinality(At(w, {"granted"})) = MaxConcurrency[w]
                    /\ running[w] = Cardinality(Holders(w)) + lost[w]
                    /\ waiting[w] = Cardinality(At(w, {"waiting", "granted"}))
                    /\ Range(line[w]) = At(w, {"waiting"}) /\ IsInjective(line[w])
                    /\ line[w] # <<>> => permits[w] = 0 \/ At(w, {"granted"}) # {}
  BY DEF PermitsAccounted
<1>1. At(w, {"granted"}) = GrantedAt(w) /\ At(w, {"waiting"}) = WaitingAt(w)
  BY DEF At, Served, GrantedAt, WaitingAt
<1>2. Holders(w) = HoldersAt(w)
  BY DEF Holders, At, Served, IsReal, HoldersAt
<1>3. At(w, {"waiting", "granted"}) = WaitingAt(w) \cup GrantedAt(w)
  BY DEF At, Served, GrantedAt, WaitingAt
<1>4. Cardinality(WaitingAt(w) \cup GrantedAt(w))
        = Cardinality(WaitingAt(w)) + Cardinality(GrantedAt(w))
  <2>1. Cardinality(WaitingAt(w) \cup GrantedAt(w))
          = Cardinality(WaitingAt(w)) + Cardinality(GrantedAt(w)) - Cardinality({})
    BY CountedSets, FS_Union
  <2> QED
    BY <2>1, CountedSets, FS_EmptySet
<1>5. Accounts(w)
  BY DEF WorkerInv
<1> QED
  BY <1>1, <1>2, <1>3, <1>4, <1>5 DEF Accounts

-----------------------------------------------------------------------------
(* What a step of one request does to the other requests and workers.       *)

\* A step on worker w that changes no request of another worker accounts for
\* every permit if it does so at w.
LEMMA OneWorkerSteps ==
  ASSUME WorkerInv, NEW t \in Task, NEW w \in Worker, WorkerTypeOK',
         request[t].at \in {w, None}, request'[t].at \in {w, None},
         \A u \in Task \ {t} : /\ request'[u].at = request[u].at
                               /\ request[u].at # w => request'[u] = request[u],
         \A v \in Worker \ {w} :
           /\ line'[v] = line[v] /\ permits'[v] = permits[v]
           /\ running'[v] = running[v] /\ waiting'[v] = waiting[v] /\ lost'[v] = lost[v],
         Accounts(w)'
  PROVE  WorkerInv'
<1>1. IsFiniteSet(Begun')
  <2>1. ASSUME NEW u \in Task \ {t}, request'[u].stage # "none" PROVE request[u].stage # "none"
    <3>1. request'[u].at # None
      BY <2>1 DEF WorkerTypeOK
    <3>2. request[u].at # None
      BY <3>1
    <3> QED
      BY <3>2 DEF WorkerInv, WorkerTypeOK
  <2>3. Begun' \subseteq Begun \cup {t}
    BY <2>1 DEF Begun
  <2>2. IsFiniteSet(Begun \cup {t})
    BY FS_AddElement DEF WorkerInv
  <2> QED
    BY <2>3, <2>2, FS_Subset
<1>2. ASSUME NEW v \in Worker \ {w} PROVE Accounts(v)'
  <2>1. v # None
    BY WorkerAssumption
  <2>2. \A u \in Task : request'[u].at = v \/ request[u].at = v => request'[u] = request[u]
    <3>1. request[t].at # v /\ request'[t].at # v
      BY <2>1
    <3>2. \A u \in Task \ {t} : request'[u].at = v \/ request[u].at = v => request'[u] = request[u]
      BY <2>1
    <3> QED
      BY <3>1, <3>2
  <2>3. WaitingAt(v)' = WaitingAt(v) /\ GrantedAt(v)' = GrantedAt(v) /\ HoldersAt(v)' = HoldersAt(v)
    BY <2>2 DEF WaitingAt, GrantedAt, HoldersAt
  <2>4. Accounts(v)
    BY DEF WorkerInv
  <2> QED
    BY <2>3, <2>4 DEF Accounts
<1> QED
  BY <1>1, <1>2 DEF WorkerInv

\* Nobody but t starts or stops holding a permit of w.
LEMMA HoldersRecounted ==
  ASSUME WorkerInv, NEW t \in Task, NEW w \in Worker,
         \A u \in Task \ {t} : u \in HoldersAt(w)' <=> u \in HoldersAt(w)
  PROVE  Cardinality(HoldersAt(w)')
           = Cardinality(HoldersAt(w)) + (IF t \in HoldersAt(w)' THEN 1 ELSE 0)
                                       - (IF t \in HoldersAt(w) THEN 1 ELSE 0)
<1>1. IsFiniteSet(HoldersAt(w)) /\ Cardinality(HoldersAt(w)) \in Nat
  BY CountedSets
<1>2. HoldersAt(w) \subseteq Task /\ HoldersAt(w)' \subseteq Task
  BY DEF HoldersAt
<1>3. CASE t \in HoldersAt(w)'
  <2>1. HoldersAt(w)' = HoldersAt(w) \cup {t}
    BY <1>2, <1>3
  <2> QED
    BY <1>1, <1>3, <2>1, FS_AddElement
<1>4. CASE t \notin HoldersAt(w)'
  <2>1. HoldersAt(w)' = HoldersAt(w) \ {t}
    BY <1>2, <1>4
  <2> QED
    <3>1. Cardinality(HoldersAt(w) \ {t})
            = IF t \in HoldersAt(w) THEN Cardinality(HoldersAt(w)) - 1 ELSE Cardinality(HoldersAt(w))
      BY <1>1, FS_RemoveElement
    <3> QED
      BY <1>1, <1>4, <2>1, <3>1
<1> QED
  BY <1>3, <1>4

\* The semaphore of w with permits[w] + back to give wakes some of the waiters,
\* and t is none of them any more.
WokenUp(t, w, back) ==
  \E queue \in Seq(Task), n \in Nat :
    /\ IsInjective(queue) /\ Range(queue) = WaitingAt(w) \ {t}
    /\ n <= Len(queue) /\ n <= permits[w] + back
    /\ n = Len(queue) \/ n = permits[w] + back \/ n = 1
    /\ line' = [line EXCEPT ![w] = SubSeq(queue, n + 1, Len(queue))]
    /\ permits' = [permits EXCEPT ![w] = permits[w] + back - n]
    /\ \A u \in Task \ {t} :
         request'[u] = IF \E i \in 1..n : queue[i] = u
                         THEN [request[u] EXCEPT !.stage = "granted"] ELSE request[u]

\* The same, by the set of those it wakes.
WakesSome(t, w, back) ==
  \E first \in SUBSET (WaitingAt(w) \ {t}) :
    /\ IsFiniteSet(first)
    /\ permits'[w] + Cardinality(first) = permits[w] + back
    /\ Range(line'[w]) = (WaitingAt(w) \ {t}) \ first /\ IsInjective(line'[w])
    /\ line'[w] # <<>> => permits'[w] = 0 \/ first # {}
    /\ \A u \in Task \ {t} :
         request'[u] = IF u \in first
           THEN [request[u] EXCEPT !.stage = "granted"] ELSE request[u]

\* A semaphore that wakes the first of its line does that.
LEMMA WokenSet ==
  ASSUME WorkerInv, NEW t \in Task, NEW w \in Worker, NEW back \in {0, 1},
         WokenUp(t, w, back)
  PROVE  /\ line' \in [Worker -> Seq(Task)] /\ permits' \in [Worker -> Nat]
         /\ \A v \in Worker \ {w} : line'[v] = line[v] /\ permits'[v] = permits[v]
         /\ WakesSome(t, w, back)
<1>1. line \in [Worker -> Seq(Task)] /\ permits \in [Worker -> Nat]
  BY DEF WorkerInv, WorkerTypeOK
<1>2. PICK queue \in Seq(Task), n \in Nat :
    /\ IsInjective(queue) /\ Range(queue) = WaitingAt(w) \ {t}
    /\ n <= Len(queue) /\ n <= permits[w] + back
    /\ n = Len(queue) \/ n = permits[w] + back \/ n = 1
    /\ line' = [line EXCEPT ![w] = SubSeq(queue, n + 1, Len(queue))]
    /\ permits' = [permits EXCEPT ![w] = permits[w] + back - n]
    /\ \A u \in Task \ {t} :
         request'[u] = IF \E i \in 1..n : queue[i] = u
                         THEN [request[u] EXCEPT !.stage = "granted"] ELSE request[u]
  BY DEF WokenUp
<1> DEFINE first == FirstOf(queue, n)
           rest == SubSeq(queue, n + 1, Len(queue))
<1>3. Len(queue) \in Nat /\ n \in 0..Len(queue)
  BY <1>2, LenProperties
<1>4. /\ rest \in Seq(Task) /\ IsInjective(rest) /\ Range(rest) = Range(queue) \ first
      /\ rest = <<>> <=> n = Len(queue)
      /\ first \subseteq Range(queue) /\ IsFiniteSet(first) /\ Cardinality(first) = n
  BY <1>2, <1>3, PartingALine
<1>5. line'[w] = rest /\ permits'[w] = permits[w] + back - n /\ permits[w] + back - n \in Nat
  <2>1. permits[w] \in Nat /\ back \in Nat
    BY <1>1
  <2>2. permits[w] + back - n \in Nat
    BY <1>2, <2>1
  <2>3. permits'[w] = permits[w] + back - n
    BY <1>1, <1>2
  <2>4. line' = [line EXCEPT ![w] = rest]
    BY <1>2
  <2> HIDE DEF rest
  <2>5. line'[w] = rest
    BY <1>1, <2>4
  <2> QED
    BY <2>2, <2>3, <2>5
<1>6. line' \in [Worker -> Seq(Task)] /\ permits' \in [Worker -> Nat]
  <2>1. rest \in Seq(Task)
    BY <1>4
  <2> HIDE DEF rest
  <2>2. line' = [line EXCEPT ![w] = rest]
    BY <1>2 DEF rest
  <2> QED
    BY <1>1, <1>2, <1>5, <2>1, <2>2
<1>7. \A v \in Worker \ {w} : line'[v] = line[v] /\ permits'[v] = permits[v]
  BY <1>1, <1>2
<1>8. first # {} \/ n # 1
  BY <1>3 DEF FirstOf
<1>9. \A u \in Task : (\E i \in 1..n : queue[i] = u) <=> u \in first
  BY DEF FirstOf
<1> HIDE DEF first, rest
<1>10. first \in SUBSET (WaitingAt(w) \ {t})
  BY <1>2, <1>4
<1>11. permits'[w] + Cardinality(first) = permits[w] + back
  BY <1>1, <1>4, <1>5
<1>12. line'[w] # <<>> => permits'[w] = 0 \/ first # {}
  BY <1>1, <1>2, <1>4, <1>5, <1>8
<1>13. \A u \in Task \ {t} :
         request'[u] = IF u \in first
           THEN [request[u] EXCEPT !.stage = "granted"] ELSE request[u]
  BY <1>2, <1>9
<1>14. WakesSome(t, w, back)
  <2>1. Range(line'[w]) = (WaitingAt(w) \ {t}) \ first /\ IsInjective(line'[w])
    BY <1>2, <1>4, <1>5
  <2>2. IsFiniteSet(first)
    BY <1>4
  <2> QED
    BY <1>10, <1>11, <1>12, <1>13, <2>1, <2>2 DEF WakesSome
<1> QED
  BY <1>6, <1>7, <1>14

\* The counts of w when t leaves its semaphore and others are woken.
LEMMA WokenCounts ==
  ASSUME WorkerInv, NEW t \in Task, NEW w \in Worker, NEW back \in {0, 1},
         request[t].at = w, request'[t].stage \notin {"waiting", "granted"},
         WokenUp(t, w, back)
  PROVE  /\ line' \in [Worker -> Seq(Task)] /\ permits' \in [Worker -> Nat]
         /\ \A v \in Worker \ {w} : line'[v] = line[v] /\ permits'[v] = permits[v]
         /\ permits'[w] + Cardinality(GrantedAt(w)')
              = permits[w] + back + Cardinality(GrantedAt(w))
                  - (IF request[t].stage = "granted" THEN 1 ELSE 0)
         /\ Cardinality(WaitingAt(w)') + Cardinality(GrantedAt(w)')
              = Cardinality(WaitingAt(w)) + Cardinality(GrantedAt(w))
                  - (IF request[t].stage \in {"waiting", "granted"} THEN 1 ELSE 0)
         /\ Cardinality(WaitingAt(w)') \in Nat /\ Cardinality(GrantedAt(w)') \in Nat
         /\ Range(line'[w]) = WaitingAt(w)' /\ IsInjective(line'[w])
         /\ line'[w] # <<>> => permits'[w] = 0 \/ GrantedAt(w)' # {}
         /\ \A u \in Task \ {t} :
              /\ request'[u] = request[u]
                   \/ /\ request[u].at = w /\ request[u].stage = "waiting"
                      /\ request'[u] = [request[u] EXCEPT !.stage = "granted"]
              /\ u \in HoldersAt(w)' <=> u \in HoldersAt(w)
<1>1. permits'[w] \in Nat /\ permits[w] \in Nat
  BY WokenSet DEF WorkerInv, WorkerTypeOK
<1>2. PICK first \in SUBSET (WaitingAt(w) \ {t}) :
        /\ IsFiniteSet(first)
        /\ permits'[w] + Cardinality(first) = permits[w] + back
        /\ Range(line'[w]) = (WaitingAt(w) \ {t}) \ first /\ IsInjective(line'[w])
        /\ line'[w] # <<>> => permits'[w] = 0 \/ first # {}
        /\ \A u \in Task \ {t} :
             request'[u] = IF u \in first
               THEN [request[u] EXCEPT !.stage = "granted"] ELSE request[u]
  <2>1. WakesSome(t, w, back)
    BY WokenSet
  <2> QED
    BY <2>1 DEF WakesSome
<1>3. \A u \in Task \ {t} :
        /\ request'[u].at = request[u].at
        /\ request'[u].stage = IF u \in first THEN "granted" ELSE request[u].stage
  BY <1>2 DEF WorkerInv, WorkerTypeOK
<1>4. \A u \in first : request[u].at = w /\ request[u].stage = "waiting" /\ u \in Task \ {t}
  BY <1>2 DEF WaitingAt
<1>5. WaitingAt(w)' = (WaitingAt(w) \ {t}) \ first
  BY <1>3, <1>4 DEF WaitingAt
<1>6. GrantedAt(w)' = (GrantedAt(w) \ {t}) \cup first
  BY <1>3, <1>4 DEF GrantedAt
<1>7. \A u \in Task \ {t} : u \in HoldersAt(w)' <=> u \in HoldersAt(w)
  BY <1>3, <1>4 DEF HoldersAt
<1> DEFINE W == WaitingAt(w) \ {t}
           G == GrantedAt(w) \ {t}
<1>8. /\ IsFiniteSet(W) /\ IsFiniteSet(G)
      /\ Cardinality(W) = Cardinality(WaitingAt(w)) - (IF request[t].stage = "waiting" THEN 1 ELSE 0)
      /\ Cardinality(G) = Cardinality(GrantedAt(w)) - (IF request[t].stage = "granted" THEN 1 ELSE 0)
  <2>1. t \in WaitingAt(w) <=> request[t].stage = "waiting"
    BY DEF WaitingAt
  <2>2. t \in GrantedAt(w) <=> request[t].stage = "granted"
    BY DEF GrantedAt
  <2> QED
    BY <2>1, <2>2, CountedSets, FS_RemoveElement
<1>9. /\ IsFiniteSet(W \ first) /\ Cardinality(W \ first) = Cardinality(W) - Cardinality(first)
      /\ Cardinality(W) \in Nat /\ Cardinality(G) \in Nat /\ Cardinality(first) \in Nat
      /\ Cardinality(W \ first) \in Nat
  <2>1. IsFiniteSet(W \ first)
    BY <1>8, FS_Subset
  <2>2. W = (W \ first) \cup first /\ (W \ first) \cap first = {}
    BY <1>2
  <2>3. Cardinality((W \ first) \cup first)
          = Cardinality(W \ first) + Cardinality(first) - Cardinality((W \ first) \cap first)
    BY <1>2, <2>1, FS_Union
  <2>4. Cardinality((W \ first) \cap first) = 0
    BY <2>2, FS_EmptySet
  <2>5. Cardinality(W) = Cardinality(W \ first) + Cardinality(first) - 0
    BY <2>2, <2>3, <2>4
  <2>6. Cardinality(W) \in Nat /\ Cardinality(G) \in Nat /\ Cardinality(first) \in Nat
        /\ Cardinality(W \ first) \in Nat
    BY <1>2, <1>8, <2>1, FS_CardinalityType
  <2> QED
    BY <2>1, <2>5, <2>6
<1>10. Cardinality(G \cup first) = Cardinality(G) + Cardinality(first)
  <2>1. G \cap first = {}
    BY <1>4 DEF GrantedAt
  <2>2. Cardinality(G \cup first) = Cardinality(G) + Cardinality(first) - Cardinality(G \cap first)
    BY <1>2, <1>8, FS_Union
  <2>3. Cardinality(G \cap first) = 0
    BY <2>1, FS_EmptySet
  <2> QED
    BY <1>9, <2>2, <2>3
<1>11. Cardinality(WaitingAt(w)') = Cardinality(W) - Cardinality(first)
  BY <1>5, <1>9
<1>12. Cardinality(GrantedAt(w)') = Cardinality(G) + Cardinality(first)
  BY <1>6, <1>10
<1>13. Cardinality(WaitingAt(w)) \in Nat /\ Cardinality(GrantedAt(w)) \in Nat
       /\ Cardinality(WaitingAt(w)') \in Nat
  BY CountedSets, <1>5, <1>9
<1> HIDE DEF W, G
<1>14. permits'[w] + Cardinality(GrantedAt(w)')
         = permits[w] + back + Cardinality(GrantedAt(w))
             - (IF request[t].stage = "granted" THEN 1 ELSE 0)
  BY <1>1, <1>2, <1>8, <1>9, <1>12, <1>13
<1>15. Cardinality(WaitingAt(w)') + Cardinality(GrantedAt(w)')
         = Cardinality(WaitingAt(w)) + Cardinality(GrantedAt(w))
             - (IF request[t].stage \in {"waiting", "granted"} THEN 1 ELSE 0)
  BY <1>8, <1>9, <1>11, <1>12, <1>13
<1>16. line'[w] # <<>> => permits'[w] = 0 \/ GrantedAt(w)' # {}
  BY <1>2, <1>6
<1>17. \A u \in Task \ {t} :
         request'[u] = request[u]
           \/ /\ request[u].at = w /\ request[u].stage = "waiting"
              /\ request'[u] = [request[u] EXCEPT !.stage = "granted"]
  BY <1>2, <1>4
<1>18. Cardinality(GrantedAt(w)') \in Nat
  BY <1>9, <1>12
<1> QED
  BY <1>2, <1>5, <1>7, <1>13, <1>14, <1>15, <1>16, <1>17, <1>18, WokenSet

-----------------------------------------------------------------------------
(* The three kinds of steps.                                                *)

\* What a request may become, on worker w.
Fits(t, w) ==
  /\ request'[t] \in [stage : Stage, at : {w, None}]
  /\ request'[t].stage = "none" <=> request'[t].at = None
  /\ request'[t].stage = "setup" => w \in Real

\* The state stays typed if only t changes, but for waiters that are woken.
LEMMA TypesKept ==
  ASSUME WorkerInv, NEW t \in Task, NEW w \in Worker, Fits(t, w),
         request' = [u \in Task |-> request'[u]],
         \A u \in Task \ {t} :
           request'[u] = request[u]
             \/ /\ request[u].at = w /\ request[u].stage = "waiting"
                /\ request'[u] = [request[u] EXCEPT !.stage = "granted"],
         line' \in [Worker -> Seq(Task)], permits' \in [Worker -> Nat],
         running' \in [Worker -> Int], waiting' \in [Worker -> Int], lost' \in [Worker -> Nat]
  PROVE  WorkerTypeOK'
<1> DEFINE Requests == [stage : Stage, at : Worker \cup {None}]
<1>1. request \in [Task -> Requests]
  BY DEF WorkerInv, WorkerTypeOK
<1>2. \A u \in Task : /\ request[u].stage = "none" <=> request[u].at = None
                      /\ request[u].stage = "setup" => request[u].at \in Real
  BY DEF WorkerInv, WorkerTypeOK
<1>3. w # None
  BY WorkerAssumption
<1>4. ASSUME NEW u \in Task
      PROVE  /\ request'[u] \in Requests
             /\ request'[u].stage = "none" <=> request'[u].at = None
             /\ request'[u].stage = "setup" => request'[u].at \in Real
  <2>1. CASE u = t
    <3>1. request'[t].stage = "setup" => request'[t].at = w
      BY <1>3 DEF Fits
    <3> QED
      BY <2>1, <3>1 DEF Fits
  <2>2. CASE u # t /\ request'[u] = request[u]
    BY <1>1, <1>2, <2>2
  <2>3. CASE /\ request[u].at = w
             /\ request'[u] = [request[u] EXCEPT !.stage = "granted"]
    <3>1. request[u] \in Requests
      BY <1>1
    <3>2. request'[u] \in Requests /\ request'[u].stage = "granted" /\ request'[u].at = w
      BY <2>3, <3>1 DEF Stage
    <3> QED
      BY <1>3, <3>2
  <2> QED
    BY <2>1, <2>2, <2>3
<1> HIDE DEF Requests
<1>5. request' \in [Task -> Requests]
  <2>1. \A u \in Task : request'[u] \in Requests
    BY <1>4
  <2> QED
    BY <2>1
<1> QED
  BY <1>4, <1>5 DEF WorkerTypeOK, Requests

\* A step of t alone that neither joins nor leaves the line of w: it takes r
\* permits and loses l.
LEMMA MovingKeeps ==
  ASSUME WorkerInv, NEW t \in Task, NEW w \in Worker, NEW r \in {0, 1}, NEW l \in {0, 1},
         Fits(t, w), request' = [request EXCEPT ![t] = request'[t]],
         request[t].at \in {w, None},
         request[t].stage \notin {"waiting", "granted"},
         request'[t].stage \notin {"waiting", "granted"},
         line' = line, waiting' = waiting,
         permits' = [permits EXCEPT ![w] = permits[w] - r], permits[w] >= r,
         running' = [running EXCEPT ![w] = running[w] + r],
         lost' = [lost EXCEPT ![w] = lost[w] + l],
         (IF t \in HoldersAt(w)' THEN 1 ELSE 0) - (IF t \in HoldersAt(w) THEN 1 ELSE 0) = r - l
  PROVE  WorkerInv'
<1>1. /\ line \in [Worker -> Seq(Task)] /\ permits \in [Worker -> Nat]
      /\ running \in [Worker -> Int] /\ waiting \in [Worker -> Int] /\ lost \in [Worker -> Nat]
      /\ DOMAIN request = Task
  BY DEF WorkerInv, WorkerTypeOK
<1>2. /\ line' \in [Worker -> Seq(Task)] /\ permits' \in [Worker -> Nat]
      /\ running' \in [Worker -> Int] /\ waiting' \in [Worker -> Int] /\ lost' \in [Worker -> Nat]
  <2>1. permits[w] - r \in Nat /\ running[w] + r \in Int /\ lost[w] + l \in Nat
    BY <1>1
  <2> QED
    BY <1>1, <2>1
<1>3. \A u \in Task \ {t} : request'[u] = request[u]
  BY <1>1
<1>4. request' = [u \in Task |-> request'[u]]
  BY <1>1
<1>5. WorkerTypeOK'
  BY <1>2, <1>3, <1>4, TypesKept
<1>6. \A v \in Worker \ {w} :
        /\ line'[v] = line[v] /\ permits'[v] = permits[v]
        /\ running'[v] = running[v] /\ waiting'[v] = waiting[v] /\ lost'[v] = lost[v]
  BY <1>1
<1>7. /\ line'[w] = line[w] /\ permits'[w] = permits[w] - r
      /\ running'[w] = running[w] + r /\ waiting'[w] = waiting[w] /\ lost'[w] = lost[w] + l
  BY <1>1
<1>8. WaitingAt(w)' = WaitingAt(w) /\ GrantedAt(w)' = GrantedAt(w)
  BY <1>3 DEF WaitingAt, GrantedAt
<1>9. Cardinality(HoldersAt(w)') = Cardinality(HoldersAt(w)) + r - l
  <2>1. \A u \in Task \ {t} : u \in HoldersAt(w)' <=> u \in HoldersAt(w)
    BY <1>3 DEF HoldersAt
  <2>2. Cardinality(HoldersAt(w)')
           = Cardinality(HoldersAt(w)) + (IF t \in HoldersAt(w)' THEN 1 ELSE 0)
                                       - (IF t \in HoldersAt(w) THEN 1 ELSE 0)
    BY <2>1, HoldersRecounted
  <2>3. Cardinality(HoldersAt(w)) \in Nat
    BY CountedSets
  <2> QED
    BY <2>2, <2>3
<1>10. Accounts(w)'
  <2>1. Accounts(w)
    BY DEF WorkerInv
  <2>2. /\ Cardinality(HoldersAt(w)) \in Nat /\ Cardinality(GrantedAt(w)) \in Nat
        /\ permits[w] \in Nat /\ running[w] \in Int /\ lost[w] \in Int
        /\ MaxConcurrency[w] \in Nat
    BY <1>1, CountedSets, WorkerAssumption
  <2>3. permits'[w] + running'[w] + Cardinality(GrantedAt(w)') = MaxConcurrency[w]
    <3>1. permits[w] + running[w] + Cardinality(GrantedAt(w)) = MaxConcurrency[w]
      BY <2>1 DEF Accounts
    <3>2. permits'[w] = permits[w] - r /\ running'[w] = running[w] + r
      BY <1>7
    <3>3. (permits[w] - r) + (running[w] + r) + Cardinality(GrantedAt(w)) = MaxConcurrency[w]
      BY <2>2, <3>1
    <3> QED
      BY <1>8, <3>2, <3>3
  <2>4. running'[w] = Cardinality(HoldersAt(w)') + lost'[w]
    <3>1. running[w] = Cardinality(HoldersAt(w)) + lost[w]
      BY <2>1 DEF Accounts
    <3>2. running'[w] = running[w] + r /\ lost'[w] = lost[w] + l
      BY <1>7
    <3> QED
      BY <1>9, <2>2, <3>1, <3>2
  <2>5. line'[w] # <<>> => permits'[w] = 0 \/ GrantedAt(w)' # {}
    BY <1>7, <1>8, <2>1, <2>2 DEF Accounts
  <2> QED
    BY <1>7, <1>8, <2>1, <2>3, <2>4, <2>5 DEF Accounts
<1>11. request'[t].at \in {w, None}
  BY DEF Fits
<1> QED
  BY <1>3, <1>5, <1>6, <1>10, <1>11, OneWorkerSteps

\* A step in which t leaves the semaphore of w, or gives its permit back: r says
\* whether it starts (1) or ends (-1) running, q whether it was counted as waiting.
LEMMA WakingKeeps ==
  ASSUME WorkerInv, NEW t \in Task, NEW w \in Worker, NEW back \in {0, 1},
         NEW r \in {-1, 0, 1}, NEW q \in {0, 1},
         Fits(t, w), request' = [u \in Task |-> request'[u]],
         request[t].at = w, request'[t].stage \notin {"waiting", "granted"},
         WokenUp(t, w, back),
         running' = [running EXCEPT ![w] = running[w] + r],
         waiting' = [waiting EXCEPT ![w] = waiting[w] - q], lost' = lost,
         q = IF request[t].stage \in {"waiting", "granted"} THEN 1 ELSE 0,
         r = (IF t \in HoldersAt(w)' THEN 1 ELSE 0) - (IF t \in HoldersAt(w) THEN 1 ELSE 0),
         back + r = IF request[t].stage = "granted" THEN 1 ELSE 0
  PROVE  WorkerInv'
<1>1. /\ running \in [Worker -> Int] /\ waiting \in [Worker -> Int] /\ lost \in [Worker -> Nat]
      /\ permits \in [Worker -> Nat] /\ DOMAIN request = Task
  BY DEF WorkerInv, WorkerTypeOK
<1>2. /\ line' \in [Worker -> Seq(Task)] /\ permits' \in [Worker -> Nat]
      /\ \A v \in Worker \ {w} : line'[v] = line[v] /\ permits'[v] = permits[v]
      /\ permits'[w] + Cardinality(GrantedAt(w)')
           = permits[w] + back + Cardinality(GrantedAt(w))
               - (IF request[t].stage = "granted" THEN 1 ELSE 0)
      /\ Cardinality(WaitingAt(w)') + Cardinality(GrantedAt(w)')
           = Cardinality(WaitingAt(w)) + Cardinality(GrantedAt(w))
               - (IF request[t].stage \in {"waiting", "granted"} THEN 1 ELSE 0)
      /\ Cardinality(WaitingAt(w)') \in Nat /\ Cardinality(GrantedAt(w)') \in Nat
      /\ Range(line'[w]) = WaitingAt(w)' /\ IsInjective(line'[w])
      /\ line'[w] # <<>> => permits'[w] = 0 \/ GrantedAt(w)' # {}
      /\ \A u \in Task \ {t} :
           /\ request'[u] = request[u]
                \/ /\ request[u].at = w /\ request[u].stage = "waiting"
                   /\ request'[u] = [request[u] EXCEPT !.stage = "granted"]
           /\ u \in HoldersAt(w)' <=> u \in HoldersAt(w)
  BY WokenCounts
<1>3. /\ running' \in [Worker -> Int] /\ waiting' \in [Worker -> Int] /\ lost' \in [Worker -> Nat]
  <2>1. running[w] + r \in Int /\ waiting[w] - q \in Int
    BY <1>1
  <2> QED
    BY <1>1, <2>1
<1>4. WorkerTypeOK'
  BY <1>2, <1>3, TypesKept
<1>5. \A v \in Worker \ {w} :
        running'[v] = running[v] /\ waiting'[v] = waiting[v] /\ lost'[v] = lost[v]
  BY <1>1
<1>6. running'[w] = running[w] + r /\ waiting'[w] = waiting[w] - q /\ lost'[w] = lost[w]
  BY <1>1
<1>7. Cardinality(HoldersAt(w)') = Cardinality(HoldersAt(w)) + r
  <2>1. Cardinality(HoldersAt(w)')
           = Cardinality(HoldersAt(w)) + (IF t \in HoldersAt(w)' THEN 1 ELSE 0)
                                       - (IF t \in HoldersAt(w) THEN 1 ELSE 0)
    BY <1>2, HoldersRecounted
  <2>2. Cardinality(HoldersAt(w)) \in Nat
    BY CountedSets
  <2> QED
    BY <2>1, <2>2
<1>8. Accounts(w)'
  <2>1. Accounts(w)
    BY DEF WorkerInv
  <2>2. /\ Cardinality(HoldersAt(w)) \in Nat /\ Cardinality(GrantedAt(w)) \in Nat
        /\ Cardinality(WaitingAt(w)) \in Nat
        /\ permits[w] \in Nat /\ permits'[w] \in Nat /\ running[w] \in Int /\ lost[w] \in Int
        /\ waiting[w] \in Int /\ MaxConcurrency[w] \in Nat
    BY <1>1, <1>2, CountedSets, WorkerAssumption
  <2>3. permits'[w] + running'[w] + Cardinality(GrantedAt(w)') = MaxConcurrency[w]
    <3>1. permits[w] + running[w] + Cardinality(GrantedAt(w)) = MaxConcurrency[w]
      BY <2>1 DEF Accounts
    <3>2. permits'[w] + Cardinality(GrantedAt(w)')
            = permits[w] + back + Cardinality(GrantedAt(w)) - (back + r)
      BY <1>2
    <3>3. Cardinality(GrantedAt(w)') \in Nat /\ running'[w] = running[w] + r
      BY <1>2, <1>6
    <3> QED
      BY <2>2, <3>1, <3>2, <3>3
  <2>4. running'[w] = Cardinality(HoldersAt(w)') + lost'[w]
    BY <1>6, <1>7, <2>1, <2>2 DEF Accounts
  <2>5. waiting'[w] = Cardinality(WaitingAt(w)') + Cardinality(GrantedAt(w)')
    <3>1. waiting[w] = Cardinality(WaitingAt(w)) + Cardinality(GrantedAt(w))
      BY <2>1 DEF Accounts
    <3>2. Cardinality(WaitingAt(w)') + Cardinality(GrantedAt(w)')
            = Cardinality(WaitingAt(w)) + Cardinality(GrantedAt(w)) - q
      BY <1>2
    <3> QED
      BY <1>6, <2>2, <3>1, <3>2
  <2> QED
    BY <1>2, <2>3, <2>4, <2>5 DEF Accounts
<1>9. \A u \in Task \ {t} : /\ request'[u].at = request[u].at
                            /\ request[u].at # w => request'[u] = request[u]
  <2> SUFFICES ASSUME NEW u \in Task \ {t}
               PROVE  /\ request'[u].at = request[u].at
                      /\ request[u].at # w => request'[u] = request[u]
    OBVIOUS
  <2>1. request[u] \in [stage : Stage, at : Worker \cup {None}]
    BY DEF WorkerInv, WorkerTypeOK
  <2> QED
    BY <1>2, <2>1
<1>10. request'[t].at \in {w, None}
  BY DEF Fits
<1>11. \A v \in Worker \ {w} :
         /\ line'[v] = line[v] /\ permits'[v] = permits[v]
         /\ running'[v] = running[v] /\ waiting'[v] = waiting[v] /\ lost'[v] = lost[v]
  BY <1>2, <1>5
<1>12. request[t].at \in {w, None}
  OBVIOUS
<1> QED
  BY <1>4, <1>8, <1>9, <1>10, <1>11, <1>12, OneWorkerSteps

-----------------------------------------------------------------------------
(* Every action keeps the invariant.                                        *)

\* A request that has begun is at a worker, of which no other value is None.
LEMMA ServedAt ==
  ASSUME WorkerInv, NEW t \in Task, request[t].stage # "none"
  PROVE  /\ Served(t) \in Worker /\ Served(t) = request[t].at /\ Served(t) # None
         /\ request[t] \in [stage : Stage, at : Worker \cup {None}]
         /\ DOMAIN request = Task
  BY WorkerAssumption DEF WorkerInv, WorkerTypeOK, Served

\* Taking a free permit, or joining the line.
LEMMA BeginKeeps ==
  ASSUME WorkerInv, NEW t \in Task, Begin(t),
         request[t].stage = "sent" \/ (request[t].stage = "ready" /\ ~IsReal(t))
  PROVE  WorkerInv'
<1>1. PICK w \in Worker : request[t].at = w /\ Served(t) = w
  BY ServedAt
<1>2. /\ line \in [Worker -> Seq(Task)] /\ permits \in [Worker -> Nat]
      /\ running \in [Worker -> Int] /\ waiting \in [Worker -> Int] /\ lost \in [Worker -> Nat]
      /\ request \in [Task -> [stage : Stage, at : Worker \cup {None}]]
  BY DEF WorkerInv, WorkerTypeOK
<1>3. t \notin HoldersAt(w) /\ t \notin WaitingAt(w) /\ t \notin GrantedAt(w)
  BY <1>1 DEF HoldersAt, WaitingAt, GrantedAt, IsReal
<1>4. At(w, {"granted"}) = GrantedAt(w)
  BY DEF At, Served, GrantedAt
<1>5. CASE permits[w] > 0 /\ At(w, {"granted"}) = {}
  <2>1. /\ permits' = [permits EXCEPT ![w] = permits[w] - 1]
        /\ running' = [running EXCEPT ![w] = running[w] + 1]
        /\ request' = [request EXCEPT ![t] = Staged(t, AfterPermit(t))]
        /\ line' = line /\ waiting' = waiting /\ lost' = lost
    BY <1>1, <1>5 DEF Begin, Moves
  <2>2. /\ request'[t] = [stage |-> AfterPermit(t), at |-> w]
        /\ AfterPermit(t) \in {"setup", "streaming"}
        /\ AfterPermit(t) = "setup" => w \in Real
    BY <1>1, <1>2, <2>1 DEF Staged, AfterPermit, IsReal
  <2>3. Fits(t, w)
    BY <2>2, WorkerAssumption DEF Fits, Stage
  <2>4. t \in HoldersAt(w)'
    BY <2>2 DEF HoldersAt
  <2>5. lost' = [lost EXCEPT ![w] = lost[w] + 0] /\ permits[w] >= 1
    BY <1>2, <1>5, <2>1
  <2>6. request' = [request EXCEPT ![t] = request'[t]]
    BY <1>2, <2>1
  <2>7. request'[t].stage \notin {"waiting", "granted"}
    BY <2>2
  <2> QED
    BY <1>1, <1>3, <2>1, <2>3, <2>4, <2>5, <2>6, <2>7, MovingKeeps
<1>6. CASE ~(permits[w] > 0 /\ At(w, {"granted"}) = {})
  <2>1. /\ line' = [line EXCEPT ![w] = Append(line[w], t)]
        /\ waiting' = [waiting EXCEPT ![w] = waiting[w] + 1]
        /\ request' = [request EXCEPT ![t] = Staged(t, "waiting")]
        /\ permits' = permits /\ running' = running /\ lost' = lost
    BY <1>1, <1>6 DEF Begin, Moves
  <2>2. request'[t] = [stage |-> "waiting", at |-> w]
    BY <1>1, <1>2, <2>1 DEF Staged
  <2>3. Fits(t, w)
    BY <2>2, WorkerAssumption DEF Fits, Stage
  <2>4. \A u \in Task \ {t} : request'[u] = request[u]
    BY <1>2, <2>1
  <2>5. Accounts(w)
    BY DEF WorkerInv
  <2>6. /\ Append(line[w], t) \in Seq(Task)
        /\ Range(Append(line[w], t)) = WaitingAt(w) \cup {t}
        /\ IsInjective(Append(line[w], t))
    <3>1. line[w] \in Seq(Task) /\ Range(line[w]) = WaitingAt(w) /\ IsInjective(line[w])
      BY <1>2, <2>5 DEF Accounts
    <3> QED
      BY <1>3, <3>1, JoiningALine
  <2>7. /\ WaitingAt(w)' = WaitingAt(w) \cup {t} /\ GrantedAt(w)' = GrantedAt(w)
        /\ HoldersAt(w)' = HoldersAt(w)
    BY <1>3, <2>2, <2>4 DEF WaitingAt, GrantedAt, HoldersAt
  <2>8. Cardinality(WaitingAt(w)') = Cardinality(WaitingAt(w)) + 1
    BY <1>3, <2>7, CountedSets, FS_AddElement
  <2>9. /\ line'[w] = Append(line[w], t) /\ waiting'[w] = waiting[w] + 1
        /\ line' \in [Worker -> Seq(Task)] /\ waiting' \in [Worker -> Int]
        /\ \A v \in Worker \ {w} : line'[v] = line[v] /\ waiting'[v] = waiting[v]
    BY <1>2, <2>1, <2>6
  <2>10. WorkerTypeOK'
    <3>1. request' = [u \in Task |-> request'[u]]
      BY <1>2, <2>1
    <3> QED
      BY <1>2, <2>1, <2>3, <2>4, <2>9, <3>1, TypesKept
  <2>11. permits[w] = 0 \/ GrantedAt(w) # {}
    BY <1>2, <1>4, <1>6
  <2>12. Accounts(w)'
    <3>1. /\ waiting[w] \in Int /\ Cardinality(WaitingAt(w)) \in Nat
          /\ Cardinality(GrantedAt(w)) \in Nat
      BY <1>2, CountedSets
    <3>2. waiting'[w] = Cardinality(WaitingAt(w)') + Cardinality(GrantedAt(w)')
      BY <2>5, <2>7, <2>8, <2>9, <3>1 DEF Accounts
    <3>3. Range(line'[w]) = WaitingAt(w)' /\ IsInjective(line'[w])
      BY <2>6, <2>7, <2>9
    <3> QED
      BY <2>1, <2>5, <2>7, <2>11, <3>2, <3>3 DEF Accounts
  <2>13. request'[t].at = w
    BY <2>2
  <2> QED
    BY <1>1, <2>1, <2>4, <2>9, <2>10, <2>12, <2>13, OneWorkerSteps
<1> QED
  BY <1>5, <1>6

\* A request that moves on by itself, holding the permit it held or losing it.
LEMMA MovesKeep ==
  ASSUME WorkerInv, NEW t \in Task, NEW w \in Worker, NEW stage \in Stage, NEW l \in {0, 1},
         request[t].at \in {w, None}, request[t].stage \notin {"waiting", "granted"},
         request' = [request EXCEPT ![t] = request'[t]],
         \/ request'[t] = NoRequest
         \/ /\ request'[t] = [stage |-> stage, at |-> w]
            /\ stage \notin {"none", "waiting", "granted", "setup"},
         line' = line, permits' = permits, running' = running, waiting' = waiting,
         lost' = [lost EXCEPT ![w] = lost[w] + l],
         (IF t \in HoldersAt(w)' THEN 1 ELSE 0) = (IF t \in HoldersAt(w) THEN 1 ELSE 0) - l
  PROVE  WorkerInv'
<1>1. permits \in [Worker -> Nat] /\ running \in [Worker -> Int]
  BY DEF WorkerInv, WorkerTypeOK
<1>2. w # None
  BY WorkerAssumption
<1>3. Fits(t, w)
  BY <1>2 DEF Fits, NoRequest, Stage
<1>4. request'[t].stage \notin {"waiting", "granted"}
  BY DEF NoRequest
<1>5. /\ permits' = [permits EXCEPT ![w] = permits[w] - 0] /\ permits[w] >= 0
      /\ running' = [running EXCEPT ![w] = running[w] + 0]
  BY <1>1
<1>6. (IF t \in HoldersAt(w)' THEN 1 ELSE 0) - (IF t \in HoldersAt(w) THEN 1 ELSE 0) = 0 - l
  OBVIOUS
<1> QED
  BY <1>3, <1>4, <1>5, <1>6, MovingKeeps

\* A step that changes no worker keeps the invariant.
LEMMA WorkerUnchanged ==
  ASSUME WorkerInv, UNCHANGED <<request, line, permits, running, waiting, lost>>
  PROVE  WorkerInv'
<1>1. WorkerTypeOK'
  BY DEF WorkerInv, WorkerTypeOK
<1>2. Begun' = Begun
  BY DEF Begun
<1>3. ASSUME NEW w \in Worker PROVE Accounts(w)'
  <2>1. /\ WaitingAt(w)' = WaitingAt(w) /\ GrantedAt(w)' = GrantedAt(w)
        /\ HoldersAt(w)' = HoldersAt(w) /\ Accounts(w)
    BY DEF WaitingAt, GrantedAt, HoldersAt, WorkerInv
  <2> QED
    BY <2>1 DEF Accounts
<1> QED
  BY <1>1, <1>2, <1>3 DEF WorkerInv

\* The router opens a request.
LEMMA SendKeeps ==
  ASSUME WorkerInv, NEW t \in Task, NEW w \in Worker, Send(t, w)
  PROVE  WorkerInv'
<1>1. /\ request \in [Task -> [stage : Stage, at : Worker \cup {None}]]
      /\ lost \in [Worker -> Nat] /\ request[t].at = None /\ w # None
  BY WorkerAssumption DEF WorkerInv, WorkerTypeOK, Send
<1>2. request'[t] = [stage |-> "sent", at |-> w] /\ request' = [request EXCEPT ![t] = request'[t]]
  BY <1>1 DEF Send
<1>3. t \notin HoldersAt(w) /\ t \notin HoldersAt(w)'
  BY <1>1, <1>2 DEF HoldersAt
<1>4. lost' = [lost EXCEPT ![w] = lost[w] + 0]
  BY <1>1 DEF Send
<1>5. request[t].stage \notin {"waiting", "granted"} /\ "sent" \in Stage
  BY DEF Send, Stage
<1>6. line' = line /\ permits' = permits /\ running' = running /\ waiting' = waiting
  BY DEF Send
<1>7. (IF t \in HoldersAt(w)' THEN 1 ELSE 0) = (IF t \in HoldersAt(w) THEN 1 ELSE 0) - 0
  BY <1>3
<1> QED
  BY <1>1, <1>2, <1>4, <1>5, <1>6, <1>7, MovesKeep

\* The client leaves.
LEMMA DisconnectKeeps ==
  ASSUME WorkerInv, NEW t \in Task, Disconnects(t)
  PROVE  WorkerInv'
<1>1. CASE request[t].stage = "over"
  <2>1. PICK w \in Worker : request[t].at = w
    BY <1>1, ServedAt
  <2>2. request \in [Task -> [stage : Stage, at : Worker \cup {None}]] /\ lost \in [Worker -> Nat]
    BY DEF WorkerInv, WorkerTypeOK
  <2>3. request'[t] = NoRequest /\ request' = [request EXCEPT ![t] = request'[t]]
    BY <1>1, <2>2 DEF Disconnects
  <2>4. t \notin HoldersAt(w) /\ t \notin HoldersAt(w)'
    BY <1>1, <2>3 DEF HoldersAt, NoRequest
  <2>5. lost' = [lost EXCEPT ![w] = lost[w] + 0]
    BY <2>2 DEF Disconnects
  <2>6. "over" \in Stage
    BY DEF Stage
  <2>7. line' = line /\ permits' = permits /\ running' = running /\ waiting' = waiting
    BY DEF Disconnects
  <2>8. (IF t \in HoldersAt(w)' THEN 1 ELSE 0) = (IF t \in HoldersAt(w) THEN 1 ELSE 0) - 0
    BY <2>4
  <2>9. request[t].at \in {w, None} /\ request[t].stage \notin {"waiting", "granted"}
    BY <1>1, <2>1
  <2> QED
    BY <2>3, <2>5, <2>6, <2>7, <2>8, <2>9, MovesKeep
<1>2. CASE request[t].stage # "over"
  <2>1. UNCHANGED <<request, line, permits, running, waiting, lost>>
    BY <1>2 DEF Disconnects
  <2> QED
    BY <2>1, WorkerUnchanged
<1> QED
  BY <1>1, <1>2

\* A request of w moves to a stage without a semaphore of w being touched.
LEMMA MovesAt ==
  ASSUME WorkerInv, NEW t \in Task,
         \/ /\ request[t].stage = "sent"
            /\ (PermitInStream(t) /\ Moves(t, "ready")) \/ (~IsReal(t) /\ Moves(t, "over"))
            /\ lost' = lost
         \/ /\ request[t].stage = "setup" /\ Moves(t, "ready") /\ lost' = lost
         \/ /\ request[t].stage = "ready" /\ IsReal(t) /\ Moves(t, "streaming") /\ lost' = lost
         \/ /\ request[t].stage = "ready" /\ Moves(t, "over")
            /\ lost' = IF IsReal(t) THEN [lost EXCEPT ![Served(t)] = @ + 1] ELSE lost,
         UNCHANGED <<line, permits, running, waiting>>
  PROVE  WorkerInv'
<1>1. PICK w \in Worker : request[t].at = w /\ Served(t) = w
  BY ServedAt
<1>2. /\ request \in [Task -> [stage : Stage, at : Worker \cup {None}]]
      /\ lost \in [Worker -> Nat]
      /\ request[t].stage = "setup" => w \in Real
  BY <1>1 DEF WorkerInv, WorkerTypeOK
<1>3. IsReal(t) <=> w \in Real
  BY <1>1 DEF IsReal
<1>4. \A stage \in Stage : Moves(t, stage) =>
        /\ request' = [request EXCEPT ![t] = request'[t]]
        /\ request'[t] = Staged(t, stage)
  BY <1>2 DEF Moves
<1>5. \A stage \in Stage :
        \/ Staged(t, stage) = [stage |-> stage, at |-> w]
        \/ Staged(t, stage) = NoRequest /\ stage = "over"
  BY <1>1 DEF Staged
<1>6. {"ready", "over", "streaming"} \subseteq Stage
  BY DEF Stage
<1>7. lost' = lost => lost' = [lost EXCEPT ![w] = lost[w] + 0]
  <2>1. lost[w] + 0 = lost[w]
    BY <1>2
  <2>2. lost = [lost EXCEPT ![w] = lost[w]]
    BY <1>2
  <2> QED
    BY <2>1, <2>2
<1>8. CASE /\ request[t].stage = "sent"
           /\ (PermitInStream(t) /\ Moves(t, "ready")) \/ (~IsReal(t) /\ Moves(t, "over"))
           /\ lost' = lost
  <2>1. w \notin Real
    BY <1>3, <1>8 DEF PermitInStream
  <2>2. CASE Moves(t, "ready")
    <3>1. request'[t] = [stage |-> "ready", at |-> w] /\ request' = [request EXCEPT ![t] = request'[t]]
      BY <1>4, <1>5, <1>6, <2>2
    <3>2. t \notin HoldersAt(w) /\ t \notin HoldersAt(w)'
      BY <1>8, <2>1, <3>1 DEF HoldersAt
    <3> QED
      BY <1>1, <1>6, <1>7, <1>8, <3>1, <3>2, MovesKeep
  <2>3. CASE Moves(t, "over")
    <3>1. /\ request'[t] = [stage |-> "over", at |-> w] \/ request'[t] = NoRequest
          /\ request' = [request EXCEPT ![t] = request'[t]]
      BY <1>4, <1>5, <1>6, <2>3
    <3>2. t \notin HoldersAt(w) /\ t \notin HoldersAt(w)'
      BY <1>8, <2>1, <3>1 DEF HoldersAt, NoRequest
    <3> QED
      BY <1>1, <1>6, <1>7, <1>8, <3>1, <3>2, MovesKeep
  <2> QED
    BY <1>8, <2>2, <2>3
<1>9. CASE request[t].stage = "setup" /\ Moves(t, "ready") /\ lost' = lost
  <2>1. request'[t] = [stage |-> "ready", at |-> w] /\ request' = [request EXCEPT ![t] = request'[t]]
    BY <1>4, <1>5, <1>6, <1>9
  <2>2. t \in HoldersAt(w) /\ t \in HoldersAt(w)'
    <3>1. w \in Real /\ request'[t].stage = "ready" /\ request'[t].at = w
      BY <1>2, <1>9, <2>1
    <3> QED
      BY <1>1, <1>9, <3>1 DEF HoldersAt
  <2> QED
    BY <1>1, <1>6, <1>7, <1>9, <2>1, <2>2, MovesKeep
<1>10. CASE request[t].stage = "ready" /\ IsReal(t) /\ Moves(t, "streaming") /\ lost' = lost
  <2>1. request'[t] = [stage |-> "streaming", at |-> w]
        /\ request' = [request EXCEPT ![t] = request'[t]]
    BY <1>4, <1>5, <1>6, <1>10
  <2>2. t \in HoldersAt(w) /\ t \in HoldersAt(w)'
    BY <1>1, <1>3, <1>10, <2>1 DEF HoldersAt
  <2> QED
    BY <1>1, <1>6, <1>7, <1>10, <2>1, <2>2, MovesKeep
<1>11. CASE /\ request[t].stage = "ready" /\ Moves(t, "over")
            /\ lost' = IF IsReal(t) THEN [lost EXCEPT ![Served(t)] = @ + 1] ELSE lost
  <2>1. /\ request'[t] = [stage |-> "over", at |-> w] \/ request'[t] = NoRequest
        /\ request' = [request EXCEPT ![t] = request'[t]]
    BY <1>4, <1>5, <1>6, <1>11
  <2>2. t \notin HoldersAt(w)'
    BY <2>1 DEF HoldersAt, NoRequest
  <2>3. CASE w \in Real
    <3>1. lost' = [lost EXCEPT ![w] = lost[w] + 1] /\ t \in HoldersAt(w)
      BY <1>1, <1>3, <1>11, <2>3 DEF HoldersAt
    <3>2. (IF t \in HoldersAt(w)' THEN 1 ELSE 0) = (IF t \in HoldersAt(w) THEN 1 ELSE 0) - 1
      BY <2>2, <3>1
    <3>3. request[t].stage \notin {"waiting", "granted"} /\ request[t].at \in {w, None}
      BY <1>1, <1>11
    <3> QED
      BY <1>6, <2>1, <3>1, <3>2, <3>3, MovesKeep
  <2>4. CASE w \notin Real
    <3>1. lost' = lost /\ t \notin HoldersAt(w)
      BY <1>1, <1>3, <1>11, <2>4 DEF HoldersAt
    <3>2. (IF t \in HoldersAt(w)' THEN 1 ELSE 0) = (IF t \in HoldersAt(w) THEN 1 ELSE 0) - 0
      BY <2>2, <3>1
    <3>3. request[t].stage \notin {"waiting", "granted"} /\ request[t].at \in {w, None}
      BY <1>1, <1>11
    <3> QED
      BY <1>6, <1>7, <2>1, <3>1, <3>2, <3>3, MovesKeep
  <2> QED
    BY <2>3, <2>4
<1> QED
  BY <1>8, <1>9, <1>10, <1>11

\* Wakes, when t leaves w for stage and permits[w] + back can be given: one
\* waiter is woken when a permit is given back, or all there are permits for.
WakesAt(t, w, stage, back) ==
  \E queue \in Seq(Task), n \in Nat :
    /\ IsInjective(queue) /\ Range(queue) = WaitingAt(w) \ {t}
    /\ n = Smaller(permits[w] + back, Len(queue))
         \/ (n = Smaller(1, Len(queue)) /\ back = 1)
    /\ line' = [line EXCEPT ![w] = SubSeq(queue, n + 1, Len(queue))]
    /\ permits' = [permits EXCEPT ![w] = permits[w] + back - n]
    /\ request' = [u \in Task |->
         IF u = t THEN Staged(t, stage)
         ELSE IF \E i \in 1..n : queue[i] = u
           THEN [request[u] EXCEPT !.stage = "granted"] ELSE request[u]]

\* What it does to the requests.
LEMMA WakesEffect ==
  ASSUME WorkerInv, NEW t \in Task, NEW w \in Worker, NEW stage \in Stage, NEW back \in {0, 1},
         request[t].at = w, stage \notin {"none", "waiting", "granted"},
         stage = "setup" => w \in Real,
         WakesAt(t, w, stage, back)
  PROVE  /\ WokenUp(t, w, back) /\ Fits(t, w)
         /\ request' = [u \in Task |-> request'[u]]
         /\ request'[t].stage \notin {"waiting", "granted"}
         /\ request'[t] = [stage |-> stage, at |-> w] \/ (stage = "over" /\ request'[t] = NoRequest)
<1>1. PICK queue \in Seq(Task), n \in Nat :
           /\ IsInjective(queue) /\ Range(queue) = WaitingAt(w) \ {t}
           /\ n = Smaller(permits[w] + back, Len(queue))
                \/ (n = Smaller(1, Len(queue)) /\ back = 1)
           /\ line' = [line EXCEPT ![w] = SubSeq(queue, n + 1, Len(queue))]
           /\ permits' = [permits EXCEPT ![w] = permits[w] + back - n]
           /\ request' = [u \in Task |->
                IF u = t THEN Staged(t, stage)
                ELSE IF \E i \in 1..n : queue[i] = u
                  THEN [request[u] EXCEPT !.stage = "granted"] ELSE request[u]]
  BY DEF WakesAt
<1>2. permits[w] \in Nat /\ Len(queue) \in Nat /\ w # None
  BY LenProperties, WorkerAssumption DEF WorkerInv, WorkerTypeOK
<1>3. n <= Len(queue) /\ n <= permits[w] + back
  BY <1>1, <1>2 DEF Smaller
<1>4. n = Len(queue) \/ n = permits[w] + back \/ n = 1
  BY <1>1, <1>2 DEF Smaller
<1>5. \A u \in Task \ {t} :
         request'[u] = IF \E i \in 1..n : queue[i] = u
                         THEN [request[u] EXCEPT !.stage = "granted"] ELSE request[u]
  BY <1>1
<1>6. WokenUp(t, w, back)
  BY <1>1, <1>3, <1>4, <1>5 DEF WokenUp
<1>7. request'[t] = Staged(t, stage)
  BY <1>1
<1>8. request'[t] = [stage |-> stage, at |-> w] \/ (stage = "over" /\ request'[t] = NoRequest)
  BY <1>7 DEF Staged, Served
<1>9. Fits(t, w)
  BY <1>2, <1>8 DEF Fits, NoRequest, Stage
<1>10. request' = [u \in Task |-> request'[u]]
  BY <1>1
<1> QED
  BY <1>6, <1>8, <1>9, <1>10 DEF NoRequest

\* A waiter resumes.
LEMMA ResumeKeeps ==
  ASSUME WorkerInv, NEW t \in Task, Resume(t)
  PROVE  WorkerInv'
<1>1. PICK w \in Worker : request[t].at = w /\ Served(t) = w
  BY ServedAt DEF Resume
<1>2. /\ line \in [Worker -> Seq(Task)] /\ permits \in [Worker -> Nat]
      /\ request[t].stage = "granted"
  BY DEF WorkerInv, WorkerTypeOK, Resume
<1>3. /\ AfterPermit(t) \in {"setup", "streaming"}
      /\ AfterPermit(t) = "setup" => w \in Real
  BY <1>1 DEF AfterPermit, IsReal
<1>4. IsInjective(line[w]) /\ Range(line[w]) = WaitingAt(w) \ {t} /\ line[w] \in Seq(Task)
  BY <1>1, <1>2 DEF WorkerInv, Accounts, WaitingAt
<1>5. WakesAt(t, w, AfterPermit(t), 0)
  <2>1. Len(line[w]) \in Nat /\ permits[w] \in Nat
    BY <1>2, <1>4, LenProperties
  <2> DEFINE n == Smaller(permits[w], Len(line[w]))
  <2>2. n \in Nat
    BY <2>1 DEF Smaller
  <2>3. /\ line' = [line EXCEPT ![w] = SubSeq(line[w], n + 1, Len(line[w]))]
        /\ permits' = [permits EXCEPT ![w] = permits[w] - n]
        /\ request' = [u \in Task |->
             IF u = t THEN Staged(t, AfterPermit(t))
             ELSE IF \E i \in 1..n : line[w][i] = u
               THEN [request[u] EXCEPT !.stage = "granted"] ELSE request[u]]
    BY <1>1 DEF Resume, WakesAll, Wakes
  <2>4. permits[w] + 0 = permits[w]
    BY <2>1
  <2> HIDE DEF n
  <2>5. n = Smaller(permits[w] + 0, Len(line[w]))
    BY <2>4 DEF n
  <2>6. permits' = [permits EXCEPT ![w] = permits[w] + 0 - n]
    <3>1. permits[w] + 0 - n = permits[w] - n
      BY <2>1, <2>2
    <3>2. permits' = [permits EXCEPT ![w] = permits[w] - n]
      BY <2>3
    <3> QED
      BY <3>1, <3>2
  <2> QED
    BY <1>4, <2>2, <2>3, <2>5, <2>6 DEF WakesAt
<1>6. /\ WokenUp(t, w, 0) /\ Fits(t, w)
      /\ request' = [u \in Task |-> request'[u]]
      /\ request'[t].stage \notin {"waiting", "granted"}
      /\ request'[t] = [stage |-> AfterPermit(t), at |-> w]
  <2>1. \E stage \in Stage :
           /\ stage = AfterPermit(t) /\ stage \in {"setup", "streaming"}
           /\ stage = "setup" => w \in Real
    BY <1>3 DEF Stage
  <2>2. PICK stage \in Stage :
           /\ stage = AfterPermit(t) /\ stage \in {"setup", "streaming"}
           /\ stage = "setup" => w \in Real
    BY <2>1
  <2>3. stage \notin {"none", "waiting", "granted", "over"}
    BY <2>2
  <2> QED
    BY <1>1, <1>5, <2>2, <2>3, WakesEffect
<1>7. t \notin HoldersAt(w) /\ t \in HoldersAt(w)'
  BY <1>2, <1>3, <1>6 DEF HoldersAt
<1>8. /\ running' = [running EXCEPT ![w] = running[w] + 1]
      /\ waiting' = [waiting EXCEPT ![w] = waiting[w] - 1] /\ lost' = lost
  BY <1>1 DEF Resume
<1>9. /\ 1 = IF request[t].stage \in {"waiting", "granted"} THEN 1 ELSE 0
      /\ 1 = (IF t \in HoldersAt(w)' THEN 1 ELSE 0) - (IF t \in HoldersAt(w) THEN 1 ELSE 0)
      /\ 0 + 1 = IF request[t].stage = "granted" THEN 1 ELSE 0
  BY <1>2, <1>7
<1> QED
  BY <1>1, <1>6, <1>8, <1>9, WakingKeeps

\* A request that ran is over.
LEMMA FinishKeeps ==
  ASSUME WorkerInv, NEW t \in Task, Finish(t), request[t].stage \in {"setup", "streaming"}
  PROVE  WorkerInv'
<1>1. PICK w \in Worker : request[t].at = w /\ Served(t) = w
  BY ServedAt
<1>2. line \in [Worker -> Seq(Task)] /\ permits \in [Worker -> Nat]
  BY DEF WorkerInv, WorkerTypeOK
<1>3. IsInjective(line[w]) /\ Range(line[w]) = WaitingAt(w) \ {t} /\ line[w] \in Seq(Task)
  BY <1>1, <1>2 DEF WorkerInv, Accounts, WaitingAt
<1>4. WakesAt(t, w, "over", 1)
  <2>1. Len(line[w]) \in Nat
    BY <1>3, LenProperties
  <2> DEFINE n == Smaller(1, Len(line[w]))
  <2>2. n \in Nat
    BY <2>1 DEF Smaller
  <2>3. /\ line' = [line EXCEPT ![w] = SubSeq(line[w], n + 1, Len(line[w]))]
        /\ permits' = [permits EXCEPT ![w] = permits[w] + 1 - n]
        /\ request' = [u \in Task |->
             IF u = t THEN Staged(t, "over")
             ELSE IF \E i \in 1..n : line[w][i] = u
               THEN [request[u] EXCEPT !.stage = "granted"] ELSE request[u]]
    <3>1. /\ line' = [line EXCEPT ![w] = SubSeq(line[w], n + 1, Len(line[w]))]
          /\ request' = [u \in Task |->
               IF u = t THEN Staged(t, "over")
               ELSE IF \E i \in 1..n : line[w][i] = u
                 THEN [request[u] EXCEPT !.stage = "granted"] ELSE request[u]]
      BY <1>1 DEF Finish, Wakes
    <3>2. permits' = [permits EXCEPT ![w] = permits[w] + 1 - n]
      <4>1. permits' = [permits EXCEPT ![w] = (permits[w] + 1) - n]
        BY <1>1 DEF Finish, Wakes
      <4>2. permits[w] \in Nat
        BY <1>2
      <4> HIDE DEF n
      <4>3. (permits[w] + 1) - n = permits[w] + 1 - n
        BY <2>2, <4>2
      <4> QED
        BY <4>1, <4>3
    <3> QED
      BY <3>1, <3>2
  <2>4. n = Smaller(1, Len(line[w]))
    OBVIOUS
  <2> HIDE DEF n
  <2> QED
    BY <1>3, <2>2, <2>3, <2>4 DEF WakesAt
<1>5. /\ WokenUp(t, w, 1) /\ Fits(t, w)
      /\ request' = [u \in Task |-> request'[u]]
      /\ request'[t].stage \notin {"waiting", "granted"}
      /\ request'[t] = [stage |-> "over", at |-> w] \/ request'[t] = NoRequest
  <2>1. "over" \in Stage
    BY DEF Stage
  <2> QED
    BY <1>1, <1>4, <2>1, WakesEffect
<1>6. t \in HoldersAt(w) /\ t \notin HoldersAt(w)'
  BY <1>1, <1>5 DEF HoldersAt, NoRequest
<1>7. /\ running' = [running EXCEPT ![w] = running[w] + (-1)]
      /\ waiting' = [waiting EXCEPT ![w] = waiting[w] - 0] /\ lost' = lost
  <2>1. running[w] \in Int /\ waiting \in [Worker -> Int]
    BY DEF WorkerInv, WorkerTypeOK
  <2>2. running[w] - 1 = running[w] + (-1) /\ waiting[w] - 0 = waiting[w]
    BY <2>1
  <2>3. running' = [running EXCEPT ![w] = running[w] - 1] /\ waiting' = waiting /\ lost' = lost
    BY <1>1 DEF Finish
  <2>4. waiting = [waiting EXCEPT ![w] = waiting[w]]
    BY <2>1
  <2> QED
    BY <2>2, <2>3, <2>4
<1>8. /\ 0 = IF request[t].stage \in {"waiting", "granted"} THEN 1 ELSE 0
      /\ -1 = (IF t \in HoldersAt(w)' THEN 1 ELSE 0) - (IF t \in HoldersAt(w) THEN 1 ELSE 0)
      /\ 1 + (-1) = IF request[t].stage = "granted" THEN 1 ELSE 0
  BY <1>6
<1> QED
  BY <1>1, <1>5, <1>7, <1>8, WakingKeeps

\* A wait of the mock is cancelled.
LEMMA CancelWaitKeeps ==
  ASSUME WorkerInv, NEW t \in Task, CancelWait(t)
  PROVE  WorkerInv'
<1>1. PICK w \in Worker : request[t].at = w /\ Served(t) = w
  BY ServedAt DEF CancelWait
<1>2. line \in [Worker -> Seq(Task)] /\ permits \in [Worker -> Nat] /\ running \in [Worker -> Int]
  BY DEF WorkerInv, WorkerTypeOK
<1>3. IsInjective(line[w]) /\ Range(line[w]) = WaitingAt(w) /\ line[w] \in Seq(Task)
  BY <1>2 DEF WorkerInv, Accounts
<1>4. permits[w] \in Nat /\ "over" \in Stage
  BY <1>2 DEF Stage
<1>5. /\ running' = [running EXCEPT ![w] = running[w] + 0]
      /\ waiting' = [waiting EXCEPT ![w] = waiting[w] - 1] /\ lost' = lost
  <2>1. running' = running /\ lost' = lost /\ waiting' = [waiting EXCEPT ![w] = waiting[w] - 1]
    BY <1>1 DEF CancelWait
  <2>2. running = [running EXCEPT ![w] = running[w]] /\ running[w] + 0 = running[w]
    BY <1>2
  <2> QED
    BY <2>1, <2>2
<1>6. t \notin HoldersAt(w)
  BY DEF CancelWait, HoldersAt
<1>7. CASE request[t].stage = "waiting"
  <2> DEFINE rest == RemoveFirst(line[w], t)
             n == Smaller(permits[w], Len(rest))
  <2>1. rest \in Seq(Task) /\ Range(rest) = WaitingAt(w) \ {t} /\ IsInjective(rest)
    BY <1>3, LeavingALine
  <2> HIDE DEF rest
  <2>2. n \in Nat
    BY <1>4, <2>1, LenProperties DEF Smaller
  <2>3. /\ line' = [line EXCEPT ![w] = SubSeq(rest, n + 1, Len(rest))]
        /\ request' = [u \in Task |->
             IF u = t THEN Staged(t, "over")
             ELSE IF \E i \in 1..n : rest[i] = u
               THEN [request[u] EXCEPT !.stage = "granted"] ELSE request[u]]
        /\ permits' = [permits EXCEPT ![w] = permits[w] - n]
    BY <1>1, <1>7 DEF CancelWait, WakesAll, Wakes, rest
  <2>4. n = Smaller(permits[w] + 0, Len(rest))
    BY <1>4
  <2> HIDE DEF n
  <2>5. permits' = [permits EXCEPT ![w] = permits[w] + 0 - n]
    <3>1. permits[w] + 0 - n = permits[w] - n
      BY <1>4, <2>2
    <3> QED
      BY <2>3, <3>1
  <2>6. WakesAt(t, w, "over", 0)
    BY <2>1, <2>2, <2>3, <2>4, <2>5 DEF WakesAt
  <2>7. /\ WokenUp(t, w, 0) /\ Fits(t, w)
        /\ request' = [u \in Task |-> request'[u]]
        /\ request'[t].stage \notin {"waiting", "granted"}
        /\ request'[t] = [stage |-> "over", at |-> w] \/ request'[t] = NoRequest
    BY <1>1, <1>4, <2>6, WakesEffect
  <2>8. t \notin HoldersAt(w)'
    BY <2>7 DEF HoldersAt, NoRequest
  <2>9. /\ 1 = IF request[t].stage \in {"waiting", "granted"} THEN 1 ELSE 0
        /\ 0 = (IF t \in HoldersAt(w)' THEN 1 ELSE 0) - (IF t \in HoldersAt(w) THEN 1 ELSE 0)
        /\ 0 + 0 = IF request[t].stage = "granted" THEN 1 ELSE 0
    BY <1>6, <1>7, <2>8
  <2> QED
    BY <1>1, <1>5, <2>7, <2>9, WakingKeeps
<1>8. CASE request[t].stage = "granted"
  <2> DEFINE n == Smaller(permits[w] + 1, Len(line[w]))
  <2>1. Range(line[w]) = WaitingAt(w) \ {t}
    BY <1>3, <1>8 DEF WaitingAt
  <2>2. n \in Nat
    BY <1>3, <1>4, LenProperties DEF Smaller
  <2>3. /\ line' = [line EXCEPT ![w] = SubSeq(line[w], n + 1, Len(line[w]))]
        /\ request' = [u \in Task |->
             IF u = t THEN Staged(t, "over")
             ELSE IF \E i \in 1..n : line[w][i] = u
               THEN [request[u] EXCEPT !.stage = "granted"] ELSE request[u]]
        /\ permits' = [permits EXCEPT ![w] = (permits[w] + 1) - n]
    BY <1>1, <1>8 DEF CancelWait, WakesAll, Wakes
  <2>4. n = Smaller(permits[w] + 1, Len(line[w]))
    OBVIOUS
  <2> HIDE DEF n
  <2>5. permits' = [permits EXCEPT ![w] = permits[w] + 1 - n]
    <3>1. permits[w] + 1 - n = (permits[w] + 1) - n
      BY <1>4, <2>2
    <3> QED
      BY <2>3, <3>1
  <2>6. WakesAt(t, w, "over", 1)
    BY <1>3, <2>1, <2>2, <2>3, <2>4, <2>5 DEF WakesAt
  <2>7. /\ WokenUp(t, w, 1) /\ Fits(t, w)
        /\ request' = [u \in Task |-> request'[u]]
        /\ request'[t].stage \notin {"waiting", "granted"}
        /\ request'[t] = [stage |-> "over", at |-> w] \/ request'[t] = NoRequest
    BY <1>1, <1>4, <2>6, WakesEffect
  <2>8. t \notin HoldersAt(w)'
    BY <2>7 DEF HoldersAt, NoRequest
  <2>9. /\ 1 = IF request[t].stage \in {"waiting", "granted"} THEN 1 ELSE 0
        /\ 0 = (IF t \in HoldersAt(w)' THEN 1 ELSE 0) - (IF t \in HoldersAt(w) THEN 1 ELSE 0)
        /\ 1 + 0 = IF request[t].stage = "granted" THEN 1 ELSE 0
    BY <1>6, <1>8, <2>8
  <2> QED
    BY <1>1, <1>5, <2>7, <2>9, WakingKeeps
<1> QED
  BY <1>7, <1>8 DEF CancelWait

\* Every step of a worker keeps the invariant.
LEMMA WorkerStepKeeps ==
  ASSUME WorkerInv, NEW t \in Task, WorkerStep(t)
  PROVE  WorkerInv'
<1>1. CASE Receive(t)
  <2>1. CASE Begin(t)
    BY <1>1, <2>1, BeginKeeps DEF Receive
  <2>2. CASE ~Begin(t)
    <3>1. /\ request[t].stage = "sent"
          /\ (PermitInStream(t) /\ Moves(t, "ready")) \/ (~IsReal(t) /\ Moves(t, "over"))
          /\ lost' = lost /\ UNCHANGED <<line, permits, running, waiting>>
      BY <1>1, <2>2 DEF Receive
    <3> QED
      BY <3>1, MovesAt
  <2> QED
    BY <2>1, <2>2
<1>2. CASE Resume(t)
  BY <1>2, ResumeKeeps
<1>3. CASE ChatAnswers(t)
  <2>1. CASE Finish(t)
    BY <1>3, <2>1, FinishKeeps DEF ChatAnswers
  <2>2. CASE ~Finish(t)
    <3>1. /\ request[t].stage = "setup" /\ Moves(t, "ready")
          /\ lost' = lost /\ UNCHANGED <<line, permits, running, waiting>>
      BY <1>3, <2>2 DEF ChatAnswers
    <3> QED
      BY <3>1, MovesAt
  <2> QED
    BY <2>1, <2>2
<1>4. CASE StructureAnswers(t)
  BY <1>4, FinishKeeps DEF StructureAnswers
<1>5. CASE StartStream(t)
  <2>1. CASE IsReal(t)
    <3>1. /\ request[t].stage = "ready" /\ IsReal(t) /\ Moves(t, "streaming")
          /\ lost' = lost /\ UNCHANGED <<line, permits, running, waiting>>
      BY <1>5, <2>1 DEF StartStream
    <3> QED
      BY <3>1, MovesAt
  <2>2. CASE ~IsReal(t)
    BY <1>5, <2>2, BeginKeeps DEF StartStream
  <2> QED
    BY <2>1, <2>2
<1>6. CASE DropResponse(t)
  <2>1. /\ request[t].stage = "ready" /\ Moves(t, "over")
        /\ lost' = IF IsReal(t) THEN [lost EXCEPT ![Served(t)] = @ + 1] ELSE lost
        /\ UNCHANGED <<line, permits, running, waiting>>
    BY <1>6 DEF DropResponse
  <2> QED
    BY <2>1, MovesAt
<1>7. CASE EndStream(t)
  BY <1>7, FinishKeeps DEF EndStream
<1>8. CASE CancelWait(t)
  BY <1>8, CancelWaitKeeps
<1> QED
  BY <1>1, <1>2, <1>3, <1>4, <1>5, <1>6, <1>7, <1>8 DEF WorkerStep

\* No request has begun at first.
LEMMA WorkerInitInv == WorkerInit => WorkerInv
<1> SUFFICES ASSUME WorkerInit PROVE WorkerInv
  OBVIOUS
<1>1. Begun = {}
  BY DEF WorkerInit, NoRequest, Begun
<1>2. WorkerTypeOK
  <2>1. <<>> \in Seq(Task)
    OBVIOUS
  <2> QED
    BY <2>1, WorkerAssumption DEF WorkerInit, NoRequest, WorkerTypeOK, Stage
<1>3. ASSUME NEW w \in Worker PROVE Accounts(w)
  <2>1. WaitingAt(w) = {} /\ GrantedAt(w) = {} /\ HoldersAt(w) = {}
    BY DEF WorkerInit, NoRequest, WaitingAt, GrantedAt, HoldersAt
  <2>2. Range(<<>>) = {} /\ IsInjective(<<>>)
    BY DEF Range, IsInjective
  <2>3. line[w] = <<>> /\ permits[w] = MaxConcurrency[w] /\ running[w] = 0
        /\ waiting[w] = 0 /\ lost[w] = 0 /\ MaxConcurrency[w] \in Nat
    BY WorkerAssumption DEF WorkerInit
  <2> QED
    BY <2>1, <2>2, <2>3, FS_EmptySet DEF Accounts
<1> QED
  BY <1>1, <1>2, <1>3, FS_EmptySet DEF WorkerInv

\* The load /health reports is a number of requests.
LEMMA ReportedLoadIsNat ==
  ASSUME WorkerInv, NEW w \in Worker
  PROVE  ReportedLoad(w) \in Nat
<1>1. lost[w] \in Nat /\ running[w] \in Int /\ waiting[w] \in Int
  BY DEF WorkerInv, WorkerTypeOK
<1>2. /\ Cardinality(HoldersAt(w)) \in Nat /\ Cardinality(WaitingAt(w)) \in Nat
      /\ Cardinality(GrantedAt(w)) \in Nat
  BY CountedSets
<1>3. /\ running[w] = Cardinality(HoldersAt(w)) + lost[w]
      /\ waiting[w] = Cardinality(WaitingAt(w)) + Cardinality(GrantedAt(w))
  BY DEF WorkerInv, Accounts
<1> QED
  BY <1>1, <1>2, <1>3 DEF ReportedLoad


\* The types the proofs need; an answer under the lock is None or a probe's.
RouterTyped ==
  /\ RouterTypeOK
  /\ answer \in [Worker -> {None} \cup [ok : BOOLEAN, load : Nat]]
  /\ phase \in [Task -> {"idle", "refreshing", "calling"}]
  /\ lock \in Seq(Task \cup {Monitor})
  /\ streak \in [Worker -> [ok : BOOLEAN, length : 0..S!MaxStreak]]
  /\ passedOver \in [Worker -> Nat]

\* The routes that refresh and the probing monitor are those at the health lock,
\* each once.
LockAgrees ==
  /\ IsInjective(lock)
  /\ \A t \in Task : t \in Range(lock) <=> phase[t] = "refreshing"
  /\ Monitor \in Range(lock) <=> monitor \in {"starting", "probing"}

LoadsAgree == \A w \in Worker : assigned[w] = Cardinality(LeasesOn(w))

\* The executions with a lease are those that call a worker.
LeasesAgree ==
  /\ \A t \in Task : phase[t] = "calling" <=> lease[t] # None
  /\ IsFiniteSet({t \in Task : lease[t] # None})
  /\ LoadsAgree
  /\ HomeLeasesFit

\* The turns a worker was passed over and those it still waits make a round.
TurnsAgree == \A w \in Worker : passedOver[w] + Offset(w) < Len(Order)

\* What the last probes of a worker that agree say of its tracker.
StreaksAgree ==
  \A w \in Worker :
    /\ tracker[w].state = "healthy" =>
         tracker[w].failures = IF streak[w].ok THEN 0 ELSE streak[w].length
    /\ tracker[w].state = "healthy" /\ ~streak[w].ok => streak[w].length < FailureThreshold
    /\ tracker[w].state = "unhealthy" => ~streak[w].ok
    /\ tracker[w].state = "recovering" =>
         /\ streak[w].ok /\ tracker[w].successes = streak[w].length
         /\ streak[w].length < RecoveryThreshold

RouterInv ==
  /\ WorkerInv
  /\ RouterTyped
  /\ LockAgrees
  /\ LeasesAgree
  /\ TurnsAgree
  /\ StreaksAgree

-----------------------------------------------------------------------------
(* The thresholds.                                                          *)

\* What recording a probe does to one worker's tracker and streak.
LEMMA RecordingKeeps ==
  ASSUME RouterTyped, StreaksAgree, Refreshes
  PROVE  /\ tracker' \in [Worker -> Tracker] /\ answer' = [w \in Worker |-> None]
         /\ streak' \in [Worker -> [ok : BOOLEAN, length : 0..S!MaxStreak]]
         /\ StreaksAgree'
         /\ \A w \in Worker :
              tracker'[w].state = "healthy" <=>
                IF answer[w] = None THEN tracker[w].state = "healthy"
                ELSE IF tracker[w].state = "healthy"
                       THEN streak'[w].ok \/ streak'[w].length < FailureThreshold
                       ELSE streak'[w].ok /\ streak'[w].length >= RecoveryThreshold
<1> DEFINE M == S!MaxStreak
           St == [ok : BOOLEAN, length : 0..M]
<1>1. /\ FailureThreshold \in Nat \ {0} /\ RecoveryThreshold \in Nat \ {0}
      /\ M \in Nat /\ M >= FailureThreshold /\ M >= RecoveryThreshold
  BY RouterAssumption DEF S!MaxStreak
<1>2. /\ tracker \in [Worker -> Tracker] /\ streak \in [Worker -> St]
      /\ answer \in [Worker -> {None} \cup [ok : BOOLEAN, load : Nat]]
  BY DEF RouterTyped, RouterTypeOK
<1> HIDE DEF M, St
<1>3. ASSUME NEW w \in Worker
      PROVE  /\ tracker'[w] \in Tracker /\ streak'[w] \in St
             /\ tracker'[w].state = "healthy" =>
                  tracker'[w].failures = IF streak'[w].ok THEN 0 ELSE streak'[w].length
             /\ tracker'[w].state = "healthy" /\ ~streak'[w].ok => streak'[w].length < FailureThreshold
             /\ tracker'[w].state = "unhealthy" => ~streak'[w].ok
             /\ tracker'[w].state = "recovering" =>
                  /\ streak'[w].ok /\ tracker'[w].successes = streak'[w].length
                  /\ streak'[w].length < RecoveryThreshold
             /\ tracker'[w].state = "healthy" <=>
                  IF answer[w] = None THEN tracker[w].state = "healthy"
                  ELSE IF tracker[w].state = "healthy"
                         THEN streak'[w].ok \/ streak'[w].length < FailureThreshold
                         ELSE streak'[w].ok /\ streak'[w].length >= RecoveryThreshold
  <2> DEFINE old == tracker[w]
             s == streak[w]
  <2>1. /\ old.state = "healthy" => old.failures = IF s.ok THEN 0 ELSE s.length
        /\ old.state = "healthy" /\ ~s.ok => s.length < FailureThreshold
        /\ old.state = "unhealthy" => ~s.ok
        /\ old.state = "recovering" =>
             /\ s.ok /\ old.successes = s.length
             /\ s.length < RecoveryThreshold
    BY DEF StreaksAgree
  <2>2. /\ old.state \in {"healthy", "unhealthy", "recovering"}
        /\ old.failures \in 0..FailureThreshold /\ old.successes \in 0..RecoveryThreshold
        /\ old \in Tracker /\ s \in St /\ s.ok \in BOOLEAN /\ s.length \in 0..M
    BY <1>2 DEF Tracker, Count, St
  <2>3. /\ tracker'[w] = IF answer[w] = None THEN old
                         ELSE IF answer[w].ok THEN AfterSuccess(old, answer[w].load)
                         ELSE AfterFailure(old)
        /\ streak'[w] = IF answer[w] = None THEN s ELSE S!Extended(s, answer[w].ok)
    BY DEF Refreshes, Recorded
  <2> HIDE DEF old, s
  <2>4. CASE answer[w] = None
    <3>1. tracker'[w] = old /\ streak'[w] = s
      BY <2>3, <2>4
    <3> QED
      BY <2>1, <2>2, <2>4, <3>1 DEF old
  <2>5. CASE answer[w] # None /\ answer[w].ok = TRUE
    <3>1. answer[w].load \in Nat
      BY <1>2, <2>5
    <3> DEFINE succ == IF old.state = "unhealthy" THEN 1
                       ELSE Capped(old.successes, RecoveryThreshold)
               back == old.state = "healthy" \/ succ >= RecoveryThreshold
    <3>2. /\ tracker'[w] = [state |-> IF back THEN "healthy" ELSE "recovering", ok |-> TRUE,
                            failures |-> 0, successes |-> succ, load |-> answer[w].load]
      BY <2>3, <2>5 DEF AfterSuccess
    <3>3. streak'[w] = IF s.ok = TRUE
                         THEN [s EXCEPT !.length = IF @ < M THEN @ + 1 ELSE @]
                         ELSE [ok |-> TRUE, length |-> 1]
      BY <2>3, <2>5 DEF S!Extended, M
    <3>4. /\ streak'[w].ok = TRUE
          /\ streak'[w].length = IF s.ok THEN (IF s.length < M THEN s.length + 1 ELSE s.length) ELSE 1
          /\ streak'[w] \in St
      BY <1>1, <2>2, <3>3 DEF St
    <3>5. succ \in 0..RecoveryThreshold
      BY <1>1, <2>2 DEF Capped, Smaller
    <3>6. /\ old.state = "unhealthy" => succ = 1 /\ streak'[w].length = 1
          /\ old.state = "recovering" => succ = s.length + 1 /\ streak'[w].length = s.length + 1
      BY <1>1, <2>1, <2>2, <3>4 DEF Capped, Smaller
    <3> HIDE DEF succ
    <3>7. /\ tracker'[w] \in Tracker /\ tracker'[w].failures = 0 /\ tracker'[w].successes = succ
          /\ tracker'[w].state = IF back THEN "healthy" ELSE "recovering"
      BY <1>1, <3>1, <3>2, <3>5 DEF Tracker, Count
    <3> QED
      BY <1>1, <2>2, <2>5, <3>4, <3>5, <3>6, <3>7 DEF old
  <2>6. CASE answer[w] # None /\ answer[w].ok = FALSE
    <3> DEFINE fails == Capped(old.failures, FailureThreshold)
               stays == old.state = "healthy" /\ fails < FailureThreshold
    <3>1. tracker'[w] = [state |-> IF stays THEN "healthy" ELSE "unhealthy", ok |-> FALSE,
                         failures |-> fails, successes |-> 0, load |-> 0]
      BY <2>3, <2>6 DEF AfterFailure
    <3>2. streak'[w] = IF s.ok = FALSE
                         THEN [s EXCEPT !.length = IF @ < M THEN @ + 1 ELSE @]
                         ELSE [ok |-> FALSE, length |-> 1]
      BY <2>3, <2>6 DEF S!Extended, M
    <3>3. /\ streak'[w].ok = FALSE
          /\ streak'[w].length = IF s.ok THEN 1 ELSE (IF s.length < M THEN s.length + 1 ELSE s.length)
          /\ streak'[w] \in St
      BY <1>1, <2>2, <3>2 DEF St
    <3>4. fails \in 0..FailureThreshold
      BY <1>1, <2>2 DEF Capped, Smaller
    <3>5. old.state = "healthy" => fails = streak'[w].length
      BY <1>1, <2>1, <2>2, <3>3 DEF Capped, Smaller
    <3> HIDE DEF fails
    <3>6. /\ tracker'[w] \in Tracker /\ tracker'[w].failures = fails
          /\ tracker'[w].state = IF stays THEN "healthy" ELSE "unhealthy"
      BY <1>1, <3>1, <3>4 DEF Tracker, Count
    <3> QED
      BY <1>1, <2>2, <2>6, <3>3, <3>4, <3>5, <3>6 DEF old
  <2>7. answer[w] # None => answer[w].ok \in BOOLEAN
    BY <1>2
  <2> QED
    BY <2>4, <2>5, <2>6, <2>7
<1>4. tracker' \in [Worker -> Tracker] /\ streak' \in [Worker -> St]
  <2>1. tracker' = [w \in Worker |-> tracker'[w]] /\ streak' = [w \in Worker |-> streak'[w]]
    BY DEF Refreshes, Recorded
  <2>2. \A w \in Worker : tracker'[w] \in Tracker /\ streak'[w] \in St
    BY <1>3
  <2> QED
    BY <2>1, <2>2
<1>5. answer' = [w \in Worker |-> None]
  BY DEF Refreshes
<1>6. StreaksAgree'
  BY <1>3 DEF StreaksAgree
<1> QED
  BY <1>3, <1>4, <1>5, <1>6 DEF St, M

\* The trackers and streaks implement the abstract status: the first probes of a
\* worker find it in service with an empty streak.
LEMMA InServiceAtFirst == RouterInit => S!StatusInit
  BY DEF RouterInit, Unprobed, S!StatusInit

\* Recording the probes of a refresh is one step of the abstract status.
LEMMA RefreshImplements ==
  ASSUME RouterTyped, StreaksAgree, Refreshes
  PROVE  S!Probed
<1> DEFINE outcome == [w \in Worker |->
             IF answer[w] = None THEN "none" ELSE IF answer[w].ok THEN "ok" ELSE "failed"]
           up == {w \in Worker : tracker[w].state = "healthy"}
<1>1. outcome \in [Worker -> {"none", "ok", "failed"}]
  OBVIOUS
<1>2. \A w \in Worker : answer[w] # None => answer[w].ok \in BOOLEAN
  BY DEF RouterTyped
<1>3. \A w \in Worker : /\ outcome[w] = "none" <=> answer[w] = None
                        /\ answer[w] # None => ((outcome[w] = "ok") = answer[w].ok)
  BY <1>2
<1>4. streak' = [w \in Worker |-> IF answer[w] = None THEN streak[w]
                                  ELSE S!Extended(streak[w], answer[w].ok)]
  BY DEF Refreshes
<1> HIDE DEF outcome
<1>5. streak' = [w \in Worker |-> IF outcome[w] = "none" THEN streak[w]
                                  ELSE S!Extended(streak[w], outcome[w] = "ok")]
  <2>1. \A w \in Worker :
          (IF answer[w] = None THEN streak[w] ELSE S!Extended(streak[w], answer[w].ok))
            = (IF outcome[w] = "none" THEN streak[w] ELSE S!Extended(streak[w], outcome[w] = "ok"))
    BY <1>3
  <2> QED
    BY <1>4, <2>1
<1>6. \A w \in Worker : w \in up' <=>
        IF outcome[w] = "none" THEN w \in up
        ELSE IF w \in up THEN streak'[w].ok \/ streak'[w].length < FailureThreshold
             ELSE streak'[w].ok /\ streak'[w].length >= RecoveryThreshold
  <2>1. \A w \in Worker :
          tracker'[w].state = "healthy" <=>
                IF answer[w] = None THEN tracker[w].state = "healthy"
                ELSE IF tracker[w].state = "healthy"
                       THEN streak'[w].ok \/ streak'[w].length < FailureThreshold
                       ELSE streak'[w].ok /\ streak'[w].length >= RecoveryThreshold
    BY RecordingKeeps
  <2> QED
    BY <1>3, <2>1
<1>7. up' = {w \in Worker :
        IF outcome[w] = "none" THEN w \in up
        ELSE IF w \in up THEN streak'[w].ok \/ streak'[w].length < FailureThreshold
             ELSE streak'[w].ok /\ streak'[w].length >= RecoveryThreshold}
  BY <1>6
<1> QED
  BY <1>1, <1>5, <1>7 DEF S!Probed, S!Serves

-----------------------------------------------------------------------------
(* The round robin.                                                         *)

\* Every worker has one position of its own.
LEMMA Positions ==
  /\ Len(Order) \in Nat \ {0} /\ DOMAIN Order = 1..Len(Order)
  /\ \A w \in Worker : Position(w) \in 1..Len(Order) /\ Order[Position(w)] = w
<1>1. Order \in Seq(Worker) /\ Order # <<>> /\ Range(Order) = Worker
  BY RouterAssumption
<1>2. Len(Order) \in Nat \ {0} /\ DOMAIN Order = 1..Len(Order)
  BY <1>1, EmptySeq, LenProperties
<1>3. ASSUME NEW w \in Worker PROVE Position(w) \in 1..Len(Order) /\ Order[Position(w)] = w
  <2>1. \E i \in DOMAIN Order : Order[i] = w
    BY <1>1 DEF Range
  <2> QED
    BY <1>2, <2>1 DEF Position
<1> QED
  BY <1>2, <1>3

\* How many turns before the one of position p come, for the turn of position q.
Ahead(p, q) == IF p >= q THEN p - q ELSE p - q + Len(Order)

\* The remainder in Offset only wraps around once.
LEMMA OffsetIsAhead ==
  ASSUME NEW p \in 1..Len(Order), NEW q \in 1..Len(Order)
  PROVE  (p - q + Len(Order)) % Len(Order) = Ahead(p, q) /\ Ahead(p, q) \in 0..(Len(Order) - 1)
<1> DEFINE N == Len(Order)
<1>1. N \in Nat \ {0}
  BY Positions
<1> HIDE DEF N
<1>2. p \in 1..N /\ q \in 1..N
  BY DEF N
<1>3. CASE p >= q
  <2>1. p - q + N \in N..(2 * N - 1) /\ (p - q + N) - N = p - q
    BY <1>1, <1>2, <1>3
  <2>2. \A a \in N..(2 * N - 1) : a % N = a - N
    BY <1>1
  <2>3. (p - q + N) % N = p - q
    BY <2>1, <2>2
  <2>4. Ahead(p, q) = p - q /\ p - q \in 0..(N - 1)
    BY <1>1, <1>2, <1>3 DEF Ahead
  <2> QED
    BY <2>3, <2>4 DEF N
<1>4. CASE p < q
  <2>1. p - q + N \in 0..(N - 1)
    BY <1>1, <1>2, <1>4
  <2>2. \A a \in 0..(N - 1) : a % N = a
    BY <1>1
  <2>3. (p - q + N) % N = p - q + N
    BY <2>1, <2>2
  <2>4. Ahead(p, q) = p - q + N
    BY <1>2, <1>4 DEF Ahead, N
  <2> QED
    BY <2>1, <2>3, <2>4 DEF N
<1> QED
  BY <1>2, <1>3, <1>4

\* The worker after position p is the one whose turn is next.
LEMMA TurnAfter ==
  ASSUME NEW p \in 1..Len(Order)
  PROVE  (p % Len(Order)) + 1 = IF p = Len(Order) THEN 1 ELSE p + 1
<1> DEFINE N == Len(Order)
<1>1. N \in Nat \ {0}
  BY Positions
<1> HIDE DEF N
<1>2. p \in 1..N
  BY DEF N
<1>3. \A a \in 0..(N - 1) : a % N = a
  BY <1>1
<1>4. \A a \in N..(2 * N - 1) : a % N = a - N
  BY <1>1
<1> QED
  BY <1>1, <1>2, <1>3, <1>4 DEF N

\* Taking the next in turn, of a set of workers, brings the others of the set one
\* turn nearer at least.
LEMMA TurnsComeNearer ==
  ASSUME RouterTyped, NEW w \in Worker, NEW v \in Worker, v # w,
         Offset(w) <= Offset(v), turn' = (Position(w) % Len(Order)) + 1
  PROVE  Offset(v)' + 1 <= Offset(v)
<1> DEFINE N == Len(Order)
<1>1. N \in Nat \ {0} /\ turn \in 1..N
  BY Positions DEF RouterTyped, RouterTypeOK
<1>2. Position(w) \in 1..N /\ Position(v) \in 1..N /\ Position(w) # Position(v)
  BY Positions
<1>3. turn' \in 1..N /\ turn' = IF Position(w) = N THEN 1 ELSE Position(w) + 1
  <2>1. turn' = IF Position(w) = N THEN 1 ELSE Position(w) + 1
    BY <1>2, TurnAfter
  <2> QED
    BY <1>1, <1>2, <2>1
<1>4. Offset(w) = Ahead(Position(w), turn) /\ Offset(v) = Ahead(Position(v), turn)
  BY <1>1, <1>2, OffsetIsAhead DEF Offset
<1>5. Offset(v)' = Ahead(Position(v), turn')
  BY <1>2, <1>3, OffsetIsAhead DEF Offset
<1> HIDE DEF N
<1>6. \A p, q \in 1..N : Ahead(p, q) = IF p >= q THEN p - q ELSE p - q + N
  BY DEF Ahead, N
<1>7. /\ Offset(w) = IF Position(w) >= turn THEN Position(w) - turn ELSE Position(w) - turn + N
      /\ Offset(v) = IF Position(v) >= turn THEN Position(v) - turn ELSE Position(v) - turn + N
      /\ Offset(v)' = IF Position(v) >= turn' THEN Position(v) - turn' ELSE Position(v) - turn' + N
  BY <1>1, <1>2, <1>3, <1>4, <1>5, <1>6
<1> DEFINE p == Position(w)
           q == Position(v)
<1> HIDE DEF p, q
<1>8. p \in 1..N /\ q \in 1..N /\ p # q
  BY <1>2 DEF p, q
<1>9. /\ Offset(w) = IF p >= turn THEN p - turn ELSE p - turn + N
      /\ Offset(v) = IF q >= turn THEN q - turn ELSE q - turn + N
      /\ Offset(v)' = IF q >= turn' THEN q - turn' ELSE q - turn' + N
      /\ turn' = IF p = N THEN 1 ELSE p + 1
  BY <1>3, <1>7 DEF p, q
<1> QED
  BY <1>1, <1>8, <1>9

\* Any offset is within the round.
LEMMA OffsetInRound ==
  ASSUME NEW w \in Worker, turn \in DOMAIN Order
  PROVE  Offset(w) \in 0..(Len(Order) - 1)
<1>1. Position(w) \in 1..Len(Order) /\ turn \in 1..Len(Order)
  BY Positions
<1> QED
  BY <1>1, OffsetIsAhead DEF Offset

-----------------------------------------------------------------------------
(* What a step leaves alone.                                                *)

\* A step that touches no lease.
LEMMA LeasesUntouched ==
  ASSUME LeasesAgree, UNCHANGED <<lease, assigned, setting>>,
         \A t \in Task : phase'[t] = "calling" <=> phase[t] = "calling"
  PROVE  LeasesAgree'
<1>1. \A w \in Worker : LeasesOn(w)' = LeasesOn(w)
  BY DEF LeasesOn
<1>2. LoadsAgree'
  BY <1>1 DEF LeasesAgree, LoadsAgree
<1>3. HomeLeasesFit'
  BY <1>1 DEF LeasesAgree, HomeLeasesFit
<1> QED
  BY <1>2, <1>3 DEF LeasesAgree

\* A step that takes no turn.
LEMMA TurnsUntouched ==
  ASSUME TurnsAgree, UNCHANGED <<turn, passedOver>>
  PROVE  TurnsAgree'
<1>1. \A w \in Worker : Offset(w)' = Offset(w)
  BY DEF Offset
<1> QED
  BY <1>1 DEF TurnsAgree

\* A step that records no probe.
LEMMA StreaksUntouched ==
  ASSUME StreaksAgree, UNCHANGED <<tracker, streak>>
  PROVE  StreaksAgree'
  BY DEF StreaksAgree

-----------------------------------------------------------------------------
(* The health lock.                                                         *)

\* The holder passes the lock on.
LEMMA LockPasses ==
  ASSUME RouterTyped, LockAgrees, lock # <<>>, lock' = Tail(lock)
  PROVE  /\ lock' \in Seq(Task \cup {Monitor}) /\ IsInjective(lock')
         /\ Head(lock) \in Range(lock) /\ Range(lock') = Range(lock) \ {Head(lock)}
<1>1. lock \in Seq(Task \cup {Monitor}) /\ IsInjective(lock)
  BY DEF RouterTyped, LockAgrees
<1>2. /\ Tail(lock) \in Seq(Task \cup {Monitor}) /\ IsInjective(Tail(lock))
      /\ Head(lock) \in Range(lock) /\ Range(Tail(lock)) = Range(lock) \ {Head(lock)}
  BY <1>1, LeavingAhead
<1> QED
  BY <1>2

\* Somebody joins its line.
LEMMA LockJoined ==
  ASSUME RouterTyped, LockAgrees, NEW actor \in Task \cup {Monitor}, actor \notin Range(lock),
         lock' = Append(lock, actor)
  PROVE  /\ lock' \in Seq(Task \cup {Monitor}) /\ IsInjective(lock')
         /\ Range(lock') = Range(lock) \cup {actor}
<1>1. lock \in Seq(Task \cup {Monitor}) /\ IsInjective(lock)
  BY DEF RouterTyped, LockAgrees
<1>2. /\ Append(lock, actor) \in Seq(Task \cup {Monitor}) /\ IsInjective(Append(lock, actor))
      /\ Range(Append(lock, actor)) = Range(lock) \cup {actor}
  BY <1>1, JoiningALine
<1> QED
  BY <1>2

\* Somebody leaves it.
LEMMA LockLeft ==
  ASSUME RouterTyped, LockAgrees, NEW actor \in Task \cup {Monitor}, LeavesLock(actor)
  PROVE  /\ lock' \in Seq(Task \cup {Monitor}) /\ IsInjective(lock')
         /\ Range(lock') = Range(lock) \ {actor}
         /\ answer' \in [Worker -> {None} \cup [ok : BOOLEAN, load : Nat]]
<1>1. /\ lock \in Seq(Task \cup {Monitor}) /\ IsInjective(lock)
      /\ answer \in [Worker -> {None} \cup [ok : BOOLEAN, load : Nat]]
  BY DEF RouterTyped, LockAgrees
<1>2. /\ RemoveFirst(lock, actor) \in Seq(Task \cup {Monitor})
      /\ IsInjective(RemoveFirst(lock, actor))
      /\ Range(RemoveFirst(lock, actor)) = Range(lock) \ {actor}
  BY <1>1, LeavingALine
<1>3. answer' = [w \in Worker |-> None] \/ answer' = answer
  BY DEF LeavesLock
<1>4. lock' = RemoveFirst(lock, actor)
  BY DEF LeavesLock
<1> QED
  BY <1>1, <1>2, <1>3, <1>4

-----------------------------------------------------------------------------
(* Every action keeps the invariant.                                        *)

\* A route waits for its turn at the lock.
LEMMA RouteBeginsKeeps ==
  ASSUME RouterInv, NEW t \in Task, RouteBegins(t)
  PROVE  RouterInv'
<1>1. /\ RouterTyped /\ LockAgrees /\ LeasesAgree /\ TurnsAgree /\ StreaksAgree /\ WorkerInv
  BY DEF RouterInv
<1>2. /\ phase[t] = "idle" /\ phase' = [phase EXCEPT ![t] = "refreshing"]
      /\ lock' = Append(lock, t)
      /\ UNCHANGED <<setting, tracker, answer, monitor, lease, assigned, turn, streak, passedOver>>
      /\ UNCHANGED <<request, connected, line, permits, running, waiting, lost>>
  BY DEF RouteBegins, Free, workerVars
<1>3. phase \in [Task -> {"idle", "refreshing", "calling"}]
  BY <1>1 DEF RouterTyped
<1>4. phase'[t] = "refreshing" /\ \A u \in Task \ {t} : phase'[u] = phase[u]
  BY <1>2, <1>3
<1>5. /\ lock' \in Seq(Task \cup {Monitor}) /\ IsInjective(lock')
      /\ Range(lock') = Range(lock) \cup {t}
  <2>1. t \notin Range(lock)
    BY <1>1, <1>2 DEF LockAgrees
  <2> QED
    BY <1>1, <1>2, <2>1, LockJoined
<1>6. RouterTyped'
  BY <1>1, <1>2, <1>3, <1>5 DEF RouterTyped, RouterTypeOK
<1>7. LockAgrees'
  <2>1. Monitor # t
    BY RouterAssumption
  <2> QED
    BY <1>1, <1>2, <1>4, <1>5, <2>1 DEF LockAgrees
<1>8. LeasesAgree'
  BY <1>1, <1>2, <1>4, LeasesUntouched
<1>9. TurnsAgree' /\ StreaksAgree' /\ WorkerInv'
  BY <1>1, <1>2, TurnsUntouched, StreaksUntouched, WorkerUnchanged
<1> QED
  BY <1>6, <1>7, <1>8, <1>9 DEF RouterInv

\* A probe returns.
LEMMA ProbeAnswersKeeps ==
  ASSUME RouterInv, NEW w \in Worker, ProbeAnswers(w)
  PROVE  RouterInv'
<1>1. /\ RouterTyped /\ LockAgrees /\ LeasesAgree /\ TurnsAgree /\ StreaksAgree /\ WorkerInv
  BY DEF RouterInv
<1>2. /\ UNCHANGED <<setting, tracker, lock, monitor, phase, lease, assigned, turn, streak,
                     passedOver>>
      /\ UNCHANGED <<request, connected, line, permits, running, waiting, lost>>
  BY DEF ProbeAnswers, workerVars
<1>3. answer' \in [Worker -> {None} \cup [ok : BOOLEAN, load : Nat]]
  <2>1. PICK result \in (IF w \in setting.flaky THEN {Failed} ELSE {}) \cup
                          {[ok |-> TRUE, load |-> IF ReadsLoad THEN ReportedLoad(w) ELSE 0]} :
          answer' = [answer EXCEPT ![w] = result]
    BY DEF ProbeAnswers
  <2>2. ReportedLoad(w) \in Nat
    BY <1>1, ReportedLoadIsNat
  <2>3. result \in [ok : BOOLEAN, load : Nat]
    <3>1. Failed \in [ok : BOOLEAN, load : Nat]
      BY DEF Failed
    <3>2. [ok |-> TRUE, load |-> IF ReadsLoad THEN ReportedLoad(w) ELSE 0] \in [ok : BOOLEAN, load : Nat]
      BY <2>2
    <3> QED
      BY <2>1, <3>1, <3>2
  <2>4. answer \in [Worker -> {None} \cup [ok : BOOLEAN, load : Nat]]
    BY <1>1 DEF RouterTyped
  <2> QED
    BY <2>1, <2>3, <2>4
<1>4. RouterTyped'
  BY <1>1, <1>2, <1>3 DEF RouterTyped, RouterTypeOK
<1>5. LockAgrees'
  BY <1>1, <1>2 DEF LockAgrees
<1>6. LeasesAgree' /\ TurnsAgree' /\ StreaksAgree' /\ WorkerInv'
  BY <1>1, <1>2, LeasesUntouched, TurnsUntouched, StreaksUntouched, WorkerUnchanged
<1> QED
  BY <1>4, <1>5, <1>6 DEF RouterInv

\* A refresh that ends without a decision.
LEMMA RefreshKeeps ==
  ASSUME RouterInv, Refreshes,
         UNCHANGED <<setting, lease, assigned, turn, passedOver>>,
         UNCHANGED <<request, connected, line, permits, running, waiting, lost>>,
         phase' \in [Task -> {"idle", "refreshing", "calling"}],
         \A t \in Task : phase'[t] = "refreshing" <=> phase[t] = "refreshing" /\ t # Head(lock),
         \A t \in Task : phase'[t] = "calling" <=> phase[t] = "calling",
         monitor' \in {"starting", "probing"}
           <=> monitor \in {"starting", "probing"} /\ Monitor # Head(lock)
  PROVE  RouterInv'
<1>1. /\ RouterTyped /\ LockAgrees /\ LeasesAgree /\ TurnsAgree /\ StreaksAgree /\ WorkerInv
  BY DEF RouterInv
<1>2. lock # <<>> /\ lock' = Tail(lock)
  BY DEF Refreshes
<1>3. /\ tracker' \in [Worker -> Tracker] /\ answer' = [w \in Worker |-> None]
      /\ streak' \in [Worker -> [ok : BOOLEAN, length : 0..S!MaxStreak]]
      /\ StreaksAgree'
  BY <1>1, RecordingKeeps
<1>4. /\ lock' \in Seq(Task \cup {Monitor}) /\ IsInjective(lock')
      /\ Head(lock) \in Range(lock) /\ Range(lock') = Range(lock) \ {Head(lock)}
  BY <1>1, <1>2, LockPasses
<1>5. RouterTyped'
  BY <1>1, <1>3, <1>4 DEF RouterTyped, RouterTypeOK
<1>6. LockAgrees'
  BY <1>1, <1>4 DEF LockAgrees
<1>7. LeasesAgree' /\ TurnsAgree' /\ WorkerInv'
  BY <1>1, LeasesUntouched, TurnsUntouched, WorkerUnchanged
<1> QED
  BY <1>3, <1>5, <1>6, <1>7 DEF RouterInv

\* No worker can be selected for the route.
LEMMA RouteRefusedKeeps ==
  ASSUME RouterInv, NEW t \in Task, RouteRefused(t)
  PROVE  RouterInv'
<1>1. /\ Holds(t) /\ Refreshes /\ phase' = [phase EXCEPT ![t] = "idle"]
      /\ UNCHANGED <<setting, monitor, lease, assigned, turn, passedOver>>
      /\ UNCHANGED <<request, connected, line, permits, running, waiting, lost>>
  BY DEF RouteRefused, workerVars
<1>2. phase \in [Task -> {"idle", "refreshing", "calling"}]
  BY DEF RouterInv, RouterTyped
<1>3. Head(lock) = t /\ t # Monitor /\ phase[t] = "refreshing"
  <2>1. Head(lock) = t /\ lock # <<>>
    BY <1>1 DEF Holds
  <2>2. t \in Range(lock)
    <3>1. lock \in Seq(Task \cup {Monitor}) /\ IsInjective(lock)
      BY DEF RouterInv, RouterTyped, LockAgrees
    <3> QED
      BY <2>1, <3>1, LeavingAhead
  <2> QED
    BY <2>1, <2>2, RouterAssumption DEF RouterInv, LockAgrees
<1>4. /\ phase' \in [Task -> {"idle", "refreshing", "calling"}]
      /\ \A u \in Task : phase'[u] = "refreshing" <=> phase[u] = "refreshing" /\ u # Head(lock)
      /\ \A u \in Task : phase'[u] = "calling" <=> phase[u] = "calling"
  BY <1>1, <1>2, <1>3
<1>5. monitor' \in {"starting", "probing"}
        <=> monitor \in {"starting", "probing"} /\ Monitor # Head(lock)
  BY <1>1, <1>3
<1> QED
  BY <1>1, <1>4, <1>5, RefreshKeeps

\* The monitor's refresh ends.
LEMMA MonitorRefreshesKeeps ==
  ASSUME RouterInv, MonitorRefreshes
  PROVE  RouterInv'
<1>1. /\ Head(lock) = Monitor /\ Refreshes /\ monitor' = "sleeping"
      /\ UNCHANGED <<setting, phase, lease, assigned, turn, passedOver>>
      /\ UNCHANGED <<request, connected, line, permits, running, waiting, lost>>
  BY DEF MonitorRefreshes, Holds, workerVars
<1>2. phase \in [Task -> {"idle", "refreshing", "calling"}]
  BY DEF RouterInv, RouterTyped
<1>3. /\ phase' \in [Task -> {"idle", "refreshing", "calling"}]
      /\ \A u \in Task : phase'[u] = "refreshing" <=> phase[u] = "refreshing" /\ u # Head(lock)
      /\ \A u \in Task : phase'[u] = "calling" <=> phase[u] = "calling"
  BY <1>1, <1>2, RouterAssumption
<1>4. monitor' \in {"starting", "probing"}
        <=> monitor \in {"starting", "probing"} /\ Monitor # Head(lock)
  BY <1>1
<1> QED
  BY <1>1, <1>3, <1>4, RefreshKeeps

\* A route gives up its place.
LEMMA RouteCancelledKeeps ==
  ASSUME RouterInv, NEW t \in Task, RouteCancelled(t)
  PROVE  RouterInv'
<1>1. /\ RouterTyped /\ LockAgrees /\ LeasesAgree /\ TurnsAgree /\ StreaksAgree /\ WorkerInv
  BY DEF RouterInv
<1>2. /\ phase[t] = "refreshing" /\ LeavesLock(t) /\ phase' = [phase EXCEPT ![t] = "idle"]
      /\ UNCHANGED <<setting, tracker, monitor, lease, assigned, turn, streak, passedOver>>
      /\ UNCHANGED <<request, connected, line, permits, running, waiting, lost>>
  BY DEF RouteCancelled, workerVars
<1>3. phase \in [Task -> {"idle", "refreshing", "calling"}] /\ t # Monitor
  BY <1>1, RouterAssumption DEF RouterTyped
<1>4. phase'[t] = "idle" /\ \A u \in Task \ {t} : phase'[u] = phase[u]
  BY <1>2, <1>3
<1>5. /\ lock' \in Seq(Task \cup {Monitor}) /\ IsInjective(lock')
      /\ Range(lock') = Range(lock) \ {t}
      /\ answer' \in [Worker -> {None} \cup [ok : BOOLEAN, load : Nat]]
  BY <1>1, <1>2, LockLeft
<1>6. RouterTyped'
  BY <1>1, <1>2, <1>3, <1>5 DEF RouterTyped, RouterTypeOK
<1>7. LockAgrees'
  BY <1>1, <1>2, <1>3, <1>4, <1>5 DEF LockAgrees
<1>8. LeasesAgree'
  BY <1>1, <1>2, <1>4, LeasesUntouched
<1>9. TurnsAgree' /\ StreaksAgree' /\ WorkerInv'
  BY <1>1, <1>2, TurnsUntouched, StreaksUntouched, WorkerUnchanged
<1> QED
  BY <1>6, <1>7, <1>8, <1>9 DEF RouterInv

\* The monitor asks for the lock.
LEMMA MonitorWakesKeeps ==
  ASSUME RouterInv, MonitorWakes
  PROVE  RouterInv'
<1>1. /\ RouterTyped /\ LockAgrees /\ LeasesAgree /\ TurnsAgree /\ StreaksAgree /\ WorkerInv
  BY DEF RouterInv
<1>2. /\ monitor = "sleeping" /\ monitor' = "probing" /\ lock' = Append(lock, Monitor)
      /\ UNCHANGED <<setting, tracker, answer, phase, lease, assigned, turn, streak, passedOver>>
      /\ UNCHANGED <<request, connected, line, permits, running, waiting, lost>>
  BY DEF MonitorWakes, workerVars
<1>3. /\ lock' \in Seq(Task \cup {Monitor}) /\ IsInjective(lock')
      /\ Range(lock') = Range(lock) \cup {Monitor}
  <2>1. Monitor \notin Range(lock) /\ Monitor \in Task \cup {Monitor}
    BY <1>1, <1>2 DEF LockAgrees
  <2> QED
    BY <1>1, <1>2, <2>1, LockJoined
<1>4. RouterTyped'
  BY <1>1, <1>2, <1>3 DEF RouterTyped, RouterTypeOK
<1>5. LockAgrees'
  BY <1>1, <1>2, <1>3, RouterAssumption DEF LockAgrees
<1>6. LeasesAgree' /\ TurnsAgree' /\ StreaksAgree' /\ WorkerInv'
  BY <1>1, <1>2, LeasesUntouched, TurnsUntouched, StreaksUntouched, WorkerUnchanged
<1> QED
  BY <1>4, <1>5, <1>6 DEF RouterInv

\* The router is closed.
LEMMA CloseKeeps ==
  ASSUME RouterInv, Close
  PROVE  RouterInv'
<1>1. /\ RouterTyped /\ LockAgrees /\ LeasesAgree /\ TurnsAgree /\ StreaksAgree /\ WorkerInv
  BY DEF RouterInv
<1>2. /\ monitor' = "closed" /\ LeavesLock(Monitor)
      /\ UNCHANGED <<setting, tracker, phase, lease, assigned, turn, streak, passedOver>>
      /\ UNCHANGED <<request, connected, line, permits, running, waiting, lost>>
  BY DEF Close, workerVars
<1>3. /\ lock' \in Seq(Task \cup {Monitor}) /\ IsInjective(lock')
      /\ Range(lock') = Range(lock) \ {Monitor}
      /\ answer' \in [Worker -> {None} \cup [ok : BOOLEAN, load : Nat]]
  <2>1. Monitor \in Task \cup {Monitor}
    OBVIOUS
  <2> QED
    BY <1>1, <1>2, <2>1, LockLeft
<1>4. RouterTyped'
  BY <1>1, <1>2, <1>3 DEF RouterTyped, RouterTypeOK
<1>5. LockAgrees'
  BY <1>1, <1>2, <1>3, RouterAssumption DEF LockAgrees
<1>6. LeasesAgree' /\ TurnsAgree' /\ StreaksAgree' /\ WorkerInv'
  BY <1>1, <1>2, LeasesUntouched, TurnsUntouched, StreaksUntouched, WorkerUnchanged
<1> QED
  BY <1>4, <1>5, <1>6 DEF RouterInv

\* A worker serves.
LEMMA WorkerActsKeeps ==
  ASSUME RouterInv, NEW t \in Task, WorkerActs(t)
  PROVE  RouterInv'
<1>1. /\ RouterTyped /\ LockAgrees /\ LeasesAgree /\ TurnsAgree /\ StreaksAgree /\ WorkerInv
  BY DEF RouterInv
<1>2. WorkerInv'
  BY <1>1, WorkerStepKeeps DEF WorkerActs
<1>3. UNCHANGED <<setting, tracker, lock, answer, monitor, phase, lease, assigned, turn,
                  streak, passedOver>>
  BY DEF WorkerActs, routerVars
<1>4. RouterTyped' /\ LockAgrees'
  BY <1>1, <1>3 DEF RouterTyped, RouterTypeOK, LockAgrees
<1>5. LeasesAgree' /\ TurnsAgree' /\ StreaksAgree'
  BY <1>1, <1>3, LeasesUntouched, TurnsUntouched, StreaksUntouched
<1> QED
  BY <1>2, <1>4, <1>5 DEF RouterInv

\* The executions of their own branches that a worker serves.
AtHome(w) == {t \in LeasesOn(w) : Home[t] = w}

\* The leases on a worker are finitely many, and those of its own branches no more.
LEMMA LeasesCounted ==
  ASSUME LeasesAgree, NEW w \in Worker
  PROVE  /\ IsFiniteSet(LeasesOn(w)) /\ Cardinality(LeasesOn(w)) \in Nat
         /\ assigned[w] = Cardinality(LeasesOn(w))
         /\ IsFiniteSet(AtHome(w)) /\ Cardinality(AtHome(w)) \in Nat
         /\ Cardinality(AtHome(w)) <= Cardinality(LeasesOn(w))
         /\ setting.mode = "bounded" => Cardinality(AtHome(w)) <= MaxConcurrency[w]
<1>1. LeasesOn(w) \subseteq {t \in Task : lease[t] # None}
  BY WorkerAssumption DEF LeasesOn
<1>2. IsFiniteSet(LeasesOn(w))
  BY <1>1, FS_Subset DEF LeasesAgree
<1>3. AtHome(w) \subseteq LeasesOn(w)
  BY DEF AtHome
<1>4. IsFiniteSet(AtHome(w)) /\ Cardinality(AtHome(w)) <= Cardinality(LeasesOn(w))
  BY <1>2, <1>3, FS_Subset
<1>5. setting.mode = "bounded" => Cardinality(AtHome(w)) <= MaxConcurrency[w]
  BY DEF LeasesAgree, HomeLeasesFit, AtHome
<1> QED
  BY <1>2, <1>4, <1>5, FS_CardinalityType DEF LeasesAgree, LoadsAgree

\* A worker that is selected for a task of its own branches under the bounded
\* policy had room by the leases.
LEMMA HomeHadRoom ==
  ASSUME NEW t \in Task, NEW w \in Worker, assigned[w] \in Nat,
         tracker' \in [Worker -> Tracker],
         Selects(t, w, tracker'), setting.mode = "bounded", Home[t] = w
  PROVE  assigned[w] < MaxConcurrency[w]
<1>1. MaxConcurrency[w] \in Nat /\ tracker'[w].load \in Nat
  BY WorkerAssumption DEF Tracker
<1>2. EffectiveLoad(w, tracker') < MaxConcurrency[w]
  BY DEF Selects, LeastLoaded
<1>3. \/ EffectiveLoad(w, tracker') = assigned[w]
      \/ EffectiveLoad(w, tracker') = tracker'[w].load /\ tracker'[w].load > assigned[w]
  BY DEF EffectiveLoad
<1> QED
  BY <1>1, <1>2, <1>3

\* The lease of a route that was decided.
LEMMA LeaseTaken ==
  ASSUME LeasesAgree, RouterTyped, NEW t \in Task, NEW w \in Worker,
         lease[t] = None, lease' = [lease EXCEPT ![t] = w],
         assigned' = [assigned EXCEPT ![w] = @ + 1], setting' = setting,
         phase'[t] = "calling", \A u \in Task \ {t} : phase'[u] = phase[u],
         setting.mode = "bounded" /\ Home[t] = w => assigned[w] < MaxConcurrency[w]
  PROVE  /\ LeasesAgree' /\ lease' \in [Task -> Worker \cup {None}]
         /\ assigned' \in [Worker -> Nat]
<1>1. lease \in [Task -> Worker \cup {None}] /\ assigned \in [Worker -> Nat] /\ w # None
  BY WorkerAssumption DEF RouterTyped, RouterTypeOK
<1>2. lease'[t] = w /\ \A u \in Task \ {t} : lease'[u] = lease[u]
  BY <1>1
<1>3. assigned'[w] = assigned[w] + 1 /\ \A v \in Worker \ {w} : assigned'[v] = assigned[v]
  BY <1>1
<1>4. lease' \in [Task -> Worker \cup {None}] /\ assigned' \in [Worker -> Nat]
  BY <1>1
<1>5. LeasesOn(w)' = LeasesOn(w) \cup {t} /\ t \notin LeasesOn(w)
  BY <1>1, <1>2 DEF LeasesOn
<1>6. \A v \in Worker \ {w} : LeasesOn(v)' = LeasesOn(v)
  BY <1>1, <1>2, WorkerAssumption DEF LeasesOn
<1>7. LoadsAgree'
  <2>1. Cardinality(LeasesOn(w)') = assigned'[w]
    BY <1>3, <1>5, LeasesCounted, FS_AddElement
  <2>2. \A v \in Worker \ {w} : assigned'[v] = Cardinality(LeasesOn(v)')
    BY <1>3, <1>6 DEF LeasesAgree, LoadsAgree
  <2> QED
    BY <2>1, <2>2 DEF LoadsAgree
<1>8. HomeLeasesFit'
  <2> SUFFICES ASSUME setting.mode = "bounded", NEW v \in Worker
               PROVE  Cardinality(AtHome(v)') <= MaxConcurrency[v]
    BY DEF HomeLeasesFit, AtHome
  <2>1. CASE v # w \/ Home[t] # w
    <3>1. AtHome(v)' = AtHome(v)
      BY <1>5, <1>6, <2>1 DEF AtHome
    <3> QED
      BY <3>1, LeasesCounted
  <2>2. CASE v = w /\ Home[t] = w
    <3>1. AtHome(w)' = AtHome(w) \cup {t}
      BY <1>5, <2>2 DEF AtHome
    <3>2. Cardinality(AtHome(w) \cup {t}) <= Cardinality(AtHome(w)) + 1
      <4>1. IsFiniteSet(AtHome(w)) /\ Cardinality(AtHome(w)) \in Nat
        BY LeasesCounted
      <4>2. Cardinality(AtHome(w) \cup {t})
              = IF t \in AtHome(w) THEN Cardinality(AtHome(w)) ELSE Cardinality(AtHome(w)) + 1
        BY <4>1, FS_AddElement
      <4> QED
        BY <4>1, <4>2
    <3>3. Cardinality(AtHome(w)) <= assigned[w] /\ assigned[w] < MaxConcurrency[w]
      BY <2>2, LeasesCounted
    <3>4. /\ Cardinality(AtHome(w)) \in Nat /\ assigned[w] \in Nat /\ MaxConcurrency[w] \in Nat
          /\ Cardinality(AtHome(w) \cup {t}) \in Nat
      BY <1>1, WorkerAssumption, LeasesCounted, FS_AddElement, FS_CardinalityType
    <3> QED
      BY <2>2, <3>1, <3>2, <3>3, <3>4
  <2> QED
    BY <2>1, <2>2
<1>9. \A u \in Task : phase'[u] = "calling" <=> lease'[u] # None
  BY <1>1, <1>2 DEF LeasesAgree
<1>10. IsFiniteSet({u \in Task : lease'[u] # None})
  <2>1. {u \in Task : lease'[u] # None} = {u \in Task : lease[u] # None} \cup {t}
    BY <1>1, <1>2
  <2> QED
    BY <2>1, FS_AddElement DEF LeasesAgree
<1> QED
  BY <1>4, <1>7, <1>8, <1>9, <1>10 DEF LeasesAgree

\* The lease of a call that ends.
LEMMA LeaseReturned ==
  ASSUME LeasesAgree, RouterTyped, NEW t \in Task, phase[t] = "calling", Release(t),
         setting' = setting,
         phase'[t] = "idle", \A u \in Task \ {t} : phase'[u] = phase[u]
  PROVE  /\ LeasesAgree' /\ lease' \in [Task -> Worker \cup {None}]
         /\ assigned' \in [Worker -> Nat]
<1>1. lease \in [Task -> Worker \cup {None}] /\ assigned \in [Worker -> Nat]
  BY DEF RouterTyped, RouterTypeOK
<1>2. PICK w \in Worker : lease[t] = w /\ w # None
  BY <1>1 DEF LeasesAgree
<1>3. lease'[t] = None /\ \A u \in Task \ {t} : lease'[u] = lease[u]
  BY <1>1 DEF Release
<1>4. t \in LeasesOn(w)
  BY <1>2 DEF LeasesOn
<1>5. assigned[w] \in Nat /\ assigned[w] > 0
  <2>1. Cardinality(LeasesOn(w)) # 0
    BY <1>4, LeasesCounted, FS_EmptySet
  <2> QED
    BY <1>1, <2>1, LeasesCounted
<1>6. assigned'[w] = assigned[w] - 1 /\ \A v \in Worker \ {w} : assigned'[v] = assigned[v]
  BY <1>1, <1>2, <1>5 DEF Release
<1>7. lease' \in [Task -> Worker \cup {None}] /\ assigned' \in [Worker -> Nat]
  <2>1. assigned' = [assigned EXCEPT ![w] = IF assigned[w] > 0 THEN assigned[w] - 1 ELSE 0]
    BY <1>2 DEF Release
  <2>2. (IF assigned[w] > 0 THEN assigned[w] - 1 ELSE 0) \in Nat
    BY <1>5
  <2> QED
    BY <1>1, <2>1, <2>2 DEF Release
<1>8. LeasesOn(w)' = LeasesOn(w) \ {t} /\ \A v \in Worker \ {w} : LeasesOn(v)' = LeasesOn(v)
  BY <1>1, <1>2, <1>3, WorkerAssumption DEF LeasesOn
<1>9. LoadsAgree'
  <2>1. Cardinality(LeasesOn(w)') = assigned'[w]
    BY <1>4, <1>6, <1>8, LeasesCounted, FS_RemoveElement
  <2>2. \A v \in Worker \ {w} : assigned'[v] = Cardinality(LeasesOn(v)')
    BY <1>6, <1>8 DEF LeasesAgree, LoadsAgree
  <2> QED
    BY <2>1, <2>2 DEF LoadsAgree
<1>10. HomeLeasesFit'
  <2> SUFFICES ASSUME setting.mode = "bounded", NEW v \in Worker
               PROVE  Cardinality(AtHome(v)') <= MaxConcurrency[v]
    BY DEF HomeLeasesFit, AtHome
  <2>1. AtHome(v)' \subseteq AtHome(v)
    BY <1>8 DEF AtHome
  <2>2. /\ IsFiniteSet(AtHome(v)) /\ Cardinality(AtHome(v)) \in Nat
        /\ Cardinality(AtHome(v)) <= MaxConcurrency[v] /\ MaxConcurrency[v] \in Nat
    BY LeasesCounted, WorkerAssumption
  <2>3. Cardinality(AtHome(v)') <= Cardinality(AtHome(v)) /\ Cardinality(AtHome(v)') \in Nat
    BY <2>1, <2>2, FS_Subset, FS_CardinalityType
  <2> QED
    BY <2>2, <2>3
<1>11. \A u \in Task : phase'[u] = "calling" <=> lease'[u] # None
  BY <1>1, <1>3 DEF LeasesAgree
<1>12. IsFiniteSet({u \in Task : lease'[u] # None})
  <2>1. {u \in Task : lease'[u] # None} \subseteq {u \in Task : lease[u] # None}
    BY <1>3
  <2> QED
    BY <2>1, FS_Subset DEF LeasesAgree
<1> QED
  BY <1>7, <1>9, <1>10, <1>11, <1>12 DEF LeasesAgree

\* A worker is selected: the next in turn, under the round robin.
LEMMA TurnTaken ==
  ASSUME RouterTyped, TurnsAgree, NEW t \in Task, NEW w \in Worker,
         tracker' \in [Worker -> Tracker], Selects(t, w, tracker'),
         IF setting.mode = "round_robin"
           THEN /\ turn' = (Position(w) % Len(Order)) + 1
                /\ passedOver' = [v \in Worker |->
                     IF v = w \/ v \notin Selectable(tracker') THEN 0
                     ELSE passedOver[v] + 1]
           ELSE UNCHANGED <<turn, passedOver>>
  PROVE  TurnsAgree' /\ turn' \in DOMAIN Order /\ passedOver' \in [Worker -> Nat]
<1>1. turn \in DOMAIN Order /\ passedOver \in [Worker -> Nat]
  BY DEF RouterTyped, RouterTypeOK
<1>2. CASE setting.mode # "round_robin"
  BY <1>1, <1>2, TurnsUntouched
<1>3. CASE setting.mode = "round_robin"
  <2>1. /\ turn' = (Position(w) % Len(Order)) + 1
        /\ passedOver' = [v \in Worker |->
             IF v = w \/ v \notin Selectable(tracker') THEN 0 ELSE passedOver[v] + 1]
    BY <1>3
  <2>2. \A v \in Selectable(tracker') : Offset(w) <= Offset(v)
    BY <1>3 DEF Selects, NextInTurn
  <2>3. turn' \in DOMAIN Order
    <3>1. Position(w) \in 1..Len(Order)
      BY Positions
    <3>2. turn' = IF Position(w) = Len(Order) THEN 1 ELSE Position(w) + 1
      BY <2>1, <3>1, Positions, TurnAfter
    <3>3. Len(Order) \in Nat \ {0} /\ DOMAIN Order = 1..Len(Order)
      BY Positions
    <3> QED
      BY <3>1, <3>2, <3>3
  <2>4. passedOver' \in [Worker -> Nat]
    BY <1>1, <2>1
  <2>5. ASSUME NEW v \in Worker PROVE passedOver'[v] + Offset(v)' < Len(Order)
    <3>1. Offset(v)' \in 0..(Len(Order) - 1) /\ Offset(v) \in 0..(Len(Order) - 1)
      <4>1. Offset(v) \in 0..(Len(Order) - 1)
        BY <1>1, OffsetInRound
      <4>2. Position(v) \in 1..Len(Order) /\ turn' \in 1..Len(Order)
        BY <2>3, Positions
      <4>3. Offset(v)' \in 0..(Len(Order) - 1)
        BY <4>2, OffsetIsAhead DEF Offset
      <4> QED
        BY <4>1, <4>3
    <3>2. Len(Order) \in Nat /\ passedOver[v] \in Nat
      BY <1>1, Positions
    <3>3. CASE v = w \/ v \notin Selectable(tracker')
      <4>1. passedOver'[v] = 0
        BY <2>1, <3>3
      <4> QED
        BY <3>1, <3>2, <4>1
    <3>4. CASE v # w /\ v \in Selectable(tracker')
      <4>1. passedOver'[v] = passedOver[v] + 1
        BY <2>1, <3>4
      <4>2. Offset(v)' + 1 <= Offset(v)
        BY <2>1, <2>2, <3>4, TurnsComeNearer
      <4>3. passedOver[v] + Offset(v) < Len(Order)
        BY DEF TurnsAgree
      <4> QED
        BY <3>1, <3>2, <4>1, <4>2, <4>3
    <3> QED
      BY <3>3, <3>4
  <2> QED
    BY <2>3, <2>4, <2>5 DEF TurnsAgree
<1> QED
  BY <1>2, <1>3

\* The route is decided.
LEMMA RouteGrantedKeeps ==
  ASSUME RouterInv, NEW t \in Task, RouteGranted(t)
  PROVE  RouterInv'
<1>1. /\ RouterTyped /\ LockAgrees /\ LeasesAgree /\ TurnsAgree /\ StreaksAgree /\ WorkerInv
  BY DEF RouterInv
<1>2. /\ Holds(t) /\ Refreshes /\ phase' = [phase EXCEPT ![t] = "calling"]
      /\ UNCHANGED <<setting, monitor>>
  BY DEF RouteGranted
<1>3. PICK w \in Worker :
       /\ Selects(t, w, tracker')
       /\ lease' = [lease EXCEPT ![t] = w]
       /\ assigned' = [assigned EXCEPT ![w] = @ + 1]
       /\ IF setting.mode = "round_robin"
            THEN /\ turn' = (Position(w) % Len(Order)) + 1
                 /\ passedOver' = [v \in Worker |->
                      IF v = w \/ v \notin Selectable(tracker') THEN 0
                      ELSE passedOver[v] + 1]
            ELSE UNCHANGED <<turn, passedOver>>
       /\ Send(t, w)
  BY DEF RouteGranted
<1>4. /\ tracker' \in [Worker -> Tracker] /\ answer' = [v \in Worker |-> None]
      /\ streak' \in [Worker -> [ok : BOOLEAN, length : 0..S!MaxStreak]]
      /\ StreaksAgree'
  BY <1>1, <1>2, RecordingKeeps
<1>5. lock # <<>> /\ Head(lock) = t /\ lock' = Tail(lock)
  BY <1>2 DEF Holds, Refreshes
<1>6. /\ lock' \in Seq(Task \cup {Monitor}) /\ IsInjective(lock')
      /\ t \in Range(lock) /\ Range(lock') = Range(lock) \ {t}
  BY <1>1, <1>5, LockPasses
<1>7. /\ phase \in [Task -> {"idle", "refreshing", "calling"}] /\ t # Monitor
      /\ phase[t] = "refreshing" /\ lease[t] = None
  BY <1>1, <1>6, RouterAssumption DEF RouterTyped, LockAgrees, LeasesAgree
<1>8. phase'[t] = "calling" /\ \A u \in Task \ {t} : phase'[u] = phase[u]
  BY <1>2, <1>7
<1>9. assigned \in [Worker -> Nat]
  BY <1>1 DEF RouterTyped, RouterTypeOK
<1>10. LeasesAgree' /\ lease' \in [Task -> Worker \cup {None}] /\ assigned' \in [Worker -> Nat]
  <2>1. setting.mode = "bounded" /\ Home[t] = w => assigned[w] < MaxConcurrency[w]
    BY <1>3, <1>4, <1>9, HomeHadRoom
  <2> QED
    BY <1>1, <1>2, <1>3, <1>7, <1>8, <2>1, LeaseTaken
<1>11. TurnsAgree' /\ turn' \in DOMAIN Order /\ passedOver' \in [Worker -> Nat]
  BY <1>1, <1>3, <1>4, TurnTaken
<1>12. WorkerInv'
  BY <1>1, <1>3, SendKeeps
<1>13. RouterTyped'
  <2>1. phase' \in [Task -> {"idle", "refreshing", "calling"}]
    BY <1>2, <1>7
  <2>2. answer' \in [Worker -> {None} \cup [ok : BOOLEAN, load : Nat]]
    BY <1>4
  <2> QED
    BY <1>4, <1>6, <1>10, <1>11, <2>1, <2>2 DEF RouterTyped, RouterTypeOK
<1>14. LockAgrees'
  BY <1>1, <1>2, <1>6, <1>7, <1>8 DEF LockAgrees
<1> QED
  BY <1>4, <1>10, <1>11, <1>12, <1>13, <1>14 DEF RouterInv

\* The call ends.
LEMMA CallEndsKeeps ==
  ASSUME RouterInv, NEW t \in Task, CallEnds(t)
  PROVE  RouterInv'
<1>1. /\ RouterTyped /\ LockAgrees /\ LeasesAgree /\ TurnsAgree /\ StreaksAgree /\ WorkerInv
  BY DEF RouterInv
<1>2. /\ phase[t] = "calling" /\ phase' = [phase EXCEPT ![t] = "idle"]
      /\ Release(t) /\ Disconnects(t)
      /\ UNCHANGED <<setting, tracker, lock, answer, monitor, turn, streak, passedOver>>
  BY DEF CallEnds
<1>3. phase \in [Task -> {"idle", "refreshing", "calling"}]
  BY <1>1 DEF RouterTyped
<1>4. phase'[t] = "idle" /\ \A u \in Task \ {t} : phase'[u] = phase[u]
  BY <1>2, <1>3
<1>5. LeasesAgree' /\ lease' \in [Task -> Worker \cup {None}] /\ assigned' \in [Worker -> Nat]
  BY <1>1, <1>2, <1>4, LeaseReturned
<1>6. RouterTyped'
  BY <1>1, <1>2, <1>3, <1>5 DEF RouterTyped, RouterTypeOK
<1>7. LockAgrees'
  BY <1>1, <1>2, <1>4 DEF LockAgrees
<1>8. TurnsAgree' /\ StreaksAgree' /\ WorkerInv'
  BY <1>1, <1>2, TurnsUntouched, StreaksUntouched, DisconnectKeeps
<1> QED
  BY <1>5, <1>6, <1>7, <1>8 DEF RouterInv

\* A router is built, with no call in progress.
LEMMA RouterInitInv == RouterInit => RouterInv
<1> SUFFICES ASSUME RouterInit PROVE RouterInv
  OBVIOUS
<1>1. WorkerInv
  BY WorkerInitInv DEF RouterInit
<1>2. /\ FailureThreshold \in Nat \ {0} /\ RecoveryThreshold \in Nat \ {0}
      /\ S!MaxStreak \in Nat
  BY RouterAssumption DEF S!MaxStreak
<1>3. 1 \in DOMAIN Order
  BY Positions
<1>4. RouterTyped
  <2>1. <<Monitor>> \in Seq(Task \cup {Monitor})
    OBVIOUS
  <2>2. Unprobed \in Tracker
    BY <1>2 DEF Unprobed, Tracker, Count
  <2>3. [ok |-> TRUE, length |-> 0] \in [ok : BOOLEAN, length : 0..S!MaxStreak]
    BY <1>2
  <2>4. RouterTypeOK
    BY <1>3, <2>2 DEF RouterInit, RouterTypeOK
  <2> QED
    BY <2>1, <2>3, <2>4 DEF RouterInit, RouterTyped
<1>5. LockAgrees
  <2>1. IsInjective(<<Monitor>>) /\ Range(<<Monitor>>) = {Monitor}
    BY DEF IsInjective, Range
  <2> QED
    BY <2>1, RouterAssumption DEF RouterInit, LockAgrees
<1>6. LeasesAgree
  <2>1. \A w \in Worker : LeasesOn(w) = {} /\ AtHome(w) = {}
    BY WorkerAssumption DEF RouterInit, LeasesOn, AtHome
  <2>2. {t \in Task : lease[t] # None} = {}
    BY DEF RouterInit
  <2>3. LoadsAgree
    BY <2>1, FS_EmptySet DEF RouterInit, LoadsAgree
  <2>4. \A w \in Worker : MaxConcurrency[w] \in Nat
    BY WorkerAssumption
  <2>5. HomeLeasesFit
    BY <2>1, <2>4, FS_EmptySet DEF HomeLeasesFit, AtHome
  <2> QED
    BY <2>2, <2>3, <2>5, FS_EmptySet DEF RouterInit, LeasesAgree
<1>7. TurnsAgree
  <2>1. turn \in DOMAIN Order /\ \A w \in Worker : passedOver[w] = 0
    BY <1>3 DEF RouterInit
  <2>2. \A w \in Worker : Offset(w) \in 0..(Len(Order) - 1)
    BY <2>1, OffsetInRound
  <2> QED
    BY <2>1, <2>2, Positions DEF TurnsAgree
<1>8. StreaksAgree
  BY DEF RouterInit, Unprobed, StreaksAgree
<1> QED
  BY <1>1, <1>4, <1>5, <1>6, <1>7, <1>8 DEF RouterInv

\* Every step of the system keeps the invariant.
LEMMA RouterStep == RouterInv /\ [RouterNext]_allVars => RouterInv'
<1> SUFFICES ASSUME RouterInv, [RouterNext]_allVars PROVE RouterInv'
  OBVIOUS
<1>1. CASE UNCHANGED allVars
  <2>1. /\ RouterTyped /\ LockAgrees /\ LeasesAgree /\ TurnsAgree /\ StreaksAgree /\ WorkerInv
    BY DEF RouterInv
  <2>2. /\ UNCHANGED <<setting, tracker, lock, answer, monitor, phase, lease, assigned, turn,
                       streak, passedOver>>
        /\ UNCHANGED <<request, connected, line, permits, running, waiting, lost>>
    BY <1>1 DEF allVars, routerVars, workerVars
  <2>3. RouterTyped' /\ LockAgrees'
    BY <2>1, <2>2 DEF RouterTyped, RouterTypeOK, LockAgrees
  <2>4. LeasesAgree' /\ TurnsAgree' /\ StreaksAgree' /\ WorkerInv'
    BY <2>1, <2>2, LeasesUntouched, TurnsUntouched, StreaksUntouched, WorkerUnchanged
  <2> QED
    BY <2>3, <2>4 DEF RouterInv
<1>2. ASSUME NEW t \in Task,
             \/ RouteBegins(t) \/ RouteGranted(t) \/ RouteRefused(t)
             \/ RouteCancelled(t) \/ CallEnds(t) \/ WorkerActs(t)
      PROVE  RouterInv'
  BY <1>2, RouteBeginsKeeps, RouteGrantedKeeps, RouteRefusedKeeps, RouteCancelledKeeps,
     CallEndsKeeps, WorkerActsKeeps
<1>3. ASSUME NEW w \in Worker, ProbeAnswers(w) PROVE RouterInv'
  BY <1>3, ProbeAnswersKeeps
<1>4. CASE MonitorWakes \/ MonitorRefreshes \/ Close
  BY <1>4, MonitorWakesKeeps, MonitorRefreshesKeeps, CloseKeeps
<1> QED
  BY <1>1, <1>2, <1>3, <1>4 DEF RouterNext

-----------------------------------------------------------------------------
(* The theorems.                                                            *)

\* RouterInv holds in every reachable state, for every set of tasks, list of
\* workers, threshold and setting: the lock, the leases, the turns, the trackers
\* and the permits of the workers agree at all times.
THEOREM RouterInvariant == RouterSpec => []RouterInv
<1> QED
  BY RouterInitInv, RouterStep, PTL DEF RouterSpec

\* The gateways and mocks never lose count of a permit, whatever clients leave,
\* time out or are cancelled, and no waiter stays asleep beside a free permit.
THEOREM PermitsAlwaysAccounted == RouterSpec => []PermitsAccounted
<1>1. RouterInv => PermitsAccounted
  BY AccountsSuffice DEF RouterInv
<1> QED
  BY <1>1, RouterInvariant, PTL

\* Every execution that calls a worker has a lease and no other has, and _assigned
\* is the number of leases, whichever way calls and routes end.
THEOREM LeasesAlwaysAccounted == RouterSpec => []LeasesAccounted
<1>1. RouterInv => LeasesAccounted
  BY DEF RouterInv, LeasesAgree, LoadsAgree, LeasesAccounted
<1> QED
  BY <1>1, RouterInvariant, PTL

\* The bounded policy keeps a worker's own branches within its concurrency.
THEOREM BoundedPolicyIsBounded == RouterSpec => []HomeLeasesFit
<1>1. RouterInv => HomeLeasesFit
  BY DEF RouterInv, LeasesAgree
<1> QED
  BY <1>1, RouterInvariant, PTL

\* The round robin passes a worker over less than a round while it is selectable,
\* although which workers are changes between any two decisions.
THEOREM RoundRobinIsFair == RouterSpec => []TurnsAreFair
<1>1. RouterInv => TurnsAreFair
  <2> SUFFICES ASSUME RouterInv, NEW w \in Worker PROVE passedOver[w] < Len(Order)
    BY DEF TurnsAreFair
  <2>1. /\ turn \in DOMAIN Order /\ passedOver[w] \in Nat
        /\ passedOver[w] + Offset(w) < Len(Order)
    BY DEF RouterInv, RouterTyped, RouterTypeOK, TurnsAgree
  <2>2. Offset(w) \in 0..(Len(Order) - 1) /\ Len(Order) \in Nat
    BY <2>1, OffsetInRound, Positions
  <2> QED
    BY <2>1, <2>2
<1> QED
  BY <1>1, RouterInvariant, PTL

\* The bounded policy and round robin keep their promises, whatever the ages of
\* the health reports and the workers that come and go, and the loads they weigh
\* are those of the executions that call a worker.
THEOREM PoliciesAreKept == RouterSpec => []PoliciesKept
<1>1. LeasesAccounted /\ HomeLeasesFit /\ TurnsAreFair => PoliciesKept
  BY DEF PoliciesKept
<1> QED
  BY <1>1, LeasesAlwaysAccounted, BoundedPolicyIsBounded, RoundRobinIsFair, PTL

\* Only a refresh moves a worker in or out of service, and it does so exactly at
\* the two thresholds: the trackers implement ServiceStatus.
THEOREM ImplementsServiceStatus == RouterSpec => Debounced
<1>1. RouterInit => S!StatusInit
  BY InServiceAtFirst
<1>2. RouterInv /\ [RouterNext]_allVars => [S!Probed]_S!statusVars
  <2> SUFFICES ASSUME RouterInv, [RouterNext]_allVars PROVE [S!Probed]_S!statusVars
    OBVIOUS
  <2>1. CASE Refreshes
    <3>1. RouterTyped /\ StreaksAgree
      BY DEF RouterInv
    <3> QED
      BY <2>1, <3>1, RefreshImplements
  <2>2. CASE ~Refreshes
    <3>1. UNCHANGED <<tracker, streak>>
      BY <2>2
      DEF RouterNext, RouteBegins, RouteGranted, RouteRefused, RouteCancelled, CallEnds,
          WorkerActs, ProbeAnswers, MonitorWakes, MonitorRefreshes, Close, allVars, routerVars
    <3> QED
      BY <3>1 DEF S!statusVars
  <2> QED
    BY <2>1, <2>2
<1> QED
  BY <1>1, <1>2, RouterInvariant, PTL DEF RouterSpec, Debounced, S!StatusSpec
=============================================================================
