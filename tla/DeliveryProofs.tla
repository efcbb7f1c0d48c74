--------------------------- MODULE DeliveryProofs ---------------------------
(***************************************************************************)
(* Proofs about EventDelivery, for every set of calls and nodes and any    *)
(* number of stops and lost connections: the page's tables agree, a call   *)
(* settles once and by its own node's task, a stopped question is really   *)
(* cancelled, and the streamed text is whole while no connection is lost.  *)
(* The page is a record and what happens to it a chain of operators on it: *)
(* most lemmas are about one operator and any record.                      *)
(***************************************************************************)
EXTENDS EventDelivery, SequenceTheorems, FiniteSetTheorems, TLAPS

TaskState == {"absent", "queued", "running", "completed", "failed", "cancelled"}
Outcome == {"none", "busy", "aborted", "conflict", "unconnected", "refused", "answer", "failed"}
PageType ==
  [stage : [Call -> {"idle", "connecting", "registered", "done"}],
   outcome : [Call -> Outcome],
   sub : [Call -> {"none", "sent", "rejected", "task"}],
   bound : [Call -> Call \cup {None}],
   byKey : [Key -> Call \cup {None}],
   byTask : [Call -> Call \cup {None}],
   known : [Call -> TaskState],
   text : [Call -> Nat],
   controller : [Node -> Call \cup {None}],
   submission : [Node -> Call \cup {None}],
   aborted : SUBSET Call]

ActiveIn(p, c) == p.stage[c] \in {"connecting", "registered"}
PendingIn(p, c) == p.stage[c] = "registered" /\ p.outcome[c] = "none"

\* The dispatcher's tables lead to the pending requests, and to them alone.
DispatcherAgrees(p) ==
  /\ \A q \in Key : p.byKey[q] # None => PendingIn(p, p.byKey[q]) /\ KeyOf(p.byKey[q]) = q
  /\ \A c \in Call : PendingIn(p, c) => p.byKey[KeyOf(c)] = c
  /\ \A t, c \in Call : p.byTask[t] = c <=> PendingIn(p, c) /\ p.bound[c] = t

\* The hook's tables lead to the active chats, and to them alone.
HookAgrees(p) ==
  /\ \A n \in Node : p.controller[n] # None =>
       ActiveIn(p, p.controller[n]) /\ KeyOf(p.controller[n]) = <<n, TRUE>>
  /\ \A n \in Node : p.submission[n] # None =>
       p.submission[n] = p.controller[n] /\ p.stage[p.submission[n]] = "registered"
  /\ \A c \in Call : ActiveIn(p, c) /\ IsChat(c) =>
       /\ p.controller[NodeOf[c]] = c
       /\ p.stage[c] = "registered" => p.submission[NodeOf[c]] = c

\* What a call has at each stage of its life.
CallsInOrder(p) ==
  \A c \in Call :
    /\ p.stage[c] \in {"idle", "connecting"} =>
         p.outcome[c] = "none" /\ p.sub[c] = "none" /\ p.bound[c] = None
    /\ p.stage[c] = "registered" => p.sub[c] # "none"
    /\ p.stage[c] = "done" => p.outcome[c] # "none"
    /\ p.outcome[c] # "busy"
    /\ p.bound[c] # None => KeyOf(p.bound[c]) = KeyOf(c)

\* The chats of a node follow each other, its cards never overlap.
CallsInTurn(p) ==
  /\ \A c, d \in Call : IsChat(c) /\ KeyOf(c) = KeyOf(d) /\ c < d /\ p.stage[d] # "idle" =>
       p.stage[c] = "done"
  /\ \A c, d \in Call : KeyOf(c) = KeyOf(d) /\ ActiveIn(p, c) /\ ActiveIn(p, d) => c = d

PageInv(p) ==
  p \in PageType /\ DispatcherAgrees(p) /\ HookAgrees(p) /\ CallsInOrder(p) /\ CallsInTurn(p)

Event == [task : Call, type : TaskState \cup {"delta"}]
DeliveryTypeOK ==
  /\ conn \in {"none", "connecting", "open", "gap", "closed"} /\ subscribed \in BOOLEAN
  /\ stream \in Seq(Event)
  /\ task \in [Call -> TaskState]
  /\ post \in [Call -> {"none", "request", "accepted", "refused"}]
  /\ stop \in [Node -> [phase : {"none", "waits", "cancelling", "answered"}, task : Call \cup {None}]]

\* Nothing of a call is on the network before it is sent, and its task appears
\* when its request is accepted.
NetworkAgrees ==
  \A c \in Call :
    /\ page.sub[c] = "none" => post[c] = "none" /\ task[c] = "absent"
    /\ post[c] = "request" => task[c] = "absent"

\* The last event of a task tells how it ended.
EventsAreTrue ==
  \A i \in DOMAIN stream : stream[i].type \in Terminal => task[stream[i].task] = stream[i].type

\* A stop under way is about a chat of its node that was sent.
StopsAreTrue ==
  \A n \in Node : stop[n].phase # "none" =>
    /\ stop[n].task \in Call /\ KeyOf(stop[n].task) = <<n, TRUE>>
    /\ page.stage[stop[n].task] \in {"registered", "done"}

DeliveryInv ==
  /\ DeliveryTypeOK /\ PageInv(page) /\ NetworkAgrees /\ EventsAreTrue /\ StopsAreTrue
  /\ StoppedSendsAreCancelled

(* Keys.                                                                   *)

\* A key is the node of a call and whether it is a chat.
LEMMA Keys ==
  /\ None \notin Call /\ Call \subseteq Nat
  /\ \A c \in Call : KeyOf(c) \in Key /\ NodeOf[c] \in Node
  /\ \A c, d \in Call : KeyOf(c) = KeyOf(d) => (IsChat(c) <=> IsChat(d)) /\ NodeOf[c] = NodeOf[d]
  /\ \A c \in Call, n \in Node : KeyOf(c) = <<n, TRUE>> <=> IsChat(c) /\ NodeOf[c] = n
<1>1. None \notin Call /\ Call \subseteq Nat
  BY DeliveryAssumption
<1>2. \A c \in Call : KeyOf(c) \in Key /\ NodeOf[c] \in Node
  BY DEF Key, Node
<1>3. ASSUME NEW c \in Call, NEW d \in Call, KeyOf(c) = KeyOf(d)
      PROVE  (IsChat(c) <=> IsChat(d)) /\ NodeOf[c] = NodeOf[d]
  BY <1>3 DEF KeyOf, IsChat
<1>4. ASSUME NEW c \in Call, NEW n \in Node PROVE KeyOf(c) = <<n, TRUE>> <=> IsChat(c) /\ NodeOf[c] = n
  BY DEF KeyOf, IsChat
<1> QED
  BY <1>1, <1>2, <1>3, <1>4

\* One pending request per key.
LEMMA OnePerKey ==
  ASSUME NEW p, DispatcherAgrees(p), NEW c \in Call, NEW d \in Call,
         PendingIn(p, c), PendingIn(p, d), KeyOf(c) = KeyOf(d)
  PROVE  c = d
BY DEF DispatcherAgrees

(* What happens to the page.                                               *)

\* Whatever leaves stages, controllers and submissions alone.
LEMMA HookStands ==
  ASSUME NEW p, HookAgrees(p), NEW q, q.stage = p.stage, q.controller = p.controller,
         q.submission = p.submission
  PROVE  HookAgrees(q)
<1>1. ASSUME NEW n \in Node, q.controller[n] # None
      PROVE  ActiveIn(q, q.controller[n]) /\ KeyOf(q.controller[n]) = <<n, TRUE>>
  BY <1>1 DEF HookAgrees, ActiveIn
<1>2. ASSUME NEW n \in Node, q.submission[n] # None
      PROVE  q.submission[n] = q.controller[n] /\ q.stage[q.submission[n]] = "registered"
  BY <1>2 DEF HookAgrees
<1>3. ASSUME NEW c \in Call, ActiveIn(q, c), IsChat(c)
      PROVE  /\ q.controller[NodeOf[c]] = c
             /\ q.stage[c] = "registered" => q.submission[NodeOf[c]] = c
  BY <1>3 DEF HookAgrees, ActiveIn
<1> QED
  BY <1>1, <1>2, <1>3 DEF HookAgrees

\* The invariant says nothing of the task states the page knows and the text
\* it has been given.
LEMMA SamePage ==
  ASSUME NEW p, PageInv(p), NEW q, q \in PageType,
         q.stage = p.stage, q.outcome = p.outcome, q.sub = p.sub, q.bound = p.bound,
         q.byKey = p.byKey, q.byTask = p.byTask, q.controller = p.controller,
         q.submission = p.submission, q.aborted = p.aborted
  PROVE  PageInv(q)
<1>1. DispatcherAgrees(q)
  BY DEF PageInv, DispatcherAgrees, PendingIn
<1>2. HookAgrees(q)
  BY HookStands DEF PageInv
<1>3. CallsInOrder(q)
  BY DEF PageInv, CallsInOrder
<1>4. CallsInTurn(q)
  BY DEF PageInv, CallsInTurn, ActiveIn
<1> QED
  BY <1>1, <1>2, <1>3, <1>4 DEF PageInv

\* Publishing a task state touches nothing but that.
LEMMA PublishKeeps ==
  ASSUME NEW p, PageInv(p), NEW t \in Call, NEW s \in TaskState
  PROVE  LET q == Publish(p, t, s)
         IN  /\ PageInv(q)
             /\ q.stage = p.stage /\ q.outcome = p.outcome /\ q.sub = p.sub /\ q.bound = p.bound
             /\ q.byKey = p.byKey /\ q.byTask = p.byTask /\ q.controller = p.controller
             /\ q.submission = p.submission /\ q.aborted = p.aborted
<1> DEFINE q == Publish(p, t, s)
<1>1. p \in PageType
  BY DEF PageInv
<1>2. /\ q.stage = p.stage /\ q.outcome = p.outcome /\ q.sub = p.sub /\ q.bound = p.bound
      /\ q.byKey = p.byKey /\ q.byTask = p.byTask /\ q.controller = p.controller
      /\ q.submission = p.submission /\ q.aborted = p.aborted
  BY <1>1 DEF Publish, PageType
<1>3. q \in PageType
  BY <1>1 DEF Publish, PageType
<1> HIDE DEF q
<1>4. PageInv(q)
  BY <1>2, <1>3, SamePage
<1> QED
  BY <1>2, <1>4 DEF q

\* Settling, field by field.
LEMMA Settling ==
  ASSUME NEW p, p \in PageType, NEW c \in Call, p.outcome[c] = "none", NEW how \in Outcome
  PROVE  LET q == Settle(p, c, how)
         IN  /\ q \in PageType
             /\ q.stage = p.stage /\ q.sub = p.sub /\ q.bound = p.bound /\ q.controller = p.controller
             /\ q.submission = p.submission /\ q.aborted = p.aborted
             /\ \A d \in Call : q.outcome[d] = IF d = c THEN how ELSE p.outcome[d]
             /\ \A k \in Key : q.byKey[k] = IF k = KeyOf(c) THEN None ELSE p.byKey[k]
             /\ \A t \in Call : q.byTask[t] = IF t = p.bound[c] THEN None ELSE p.byTask[t]
<1> DEFINE byTask == [t \in Call |-> IF t = p.bound[c] THEN None ELSE p.byTask[t]]
           outcome == [p.outcome EXCEPT ![c] = how]
           byKey == [p.byKey EXCEPT ![KeyOf(c)] = None]
           q == [p EXCEPT !.outcome = outcome, !.byKey = byKey, !.byTask = byTask]
<1>1. Settle(p, c, how) = q
  BY DEF Settle, PageType
<1>2. byTask \in [Call -> Call \cup {None}] /\ outcome \in [Call -> Outcome] /\ byKey \in [Key -> Call \cup {None}]
  BY DEF PageType
<1>3. /\ \A d \in Call : outcome[d] = IF d = c THEN how ELSE p.outcome[d]
      /\ \A k \in Key : byKey[k] = IF k = KeyOf(c) THEN None ELSE p.byKey[k]
      /\ \A t \in Call : byTask[t] = IF t = p.bound[c] THEN None ELSE p.byTask[t]
  BY DEF PageType
<1> HIDE DEF byTask, outcome, byKey
<1>4. /\ q \in PageType /\ q.outcome = outcome /\ q.byKey = byKey /\ q.byTask = byTask
      /\ q.stage = p.stage /\ q.sub = p.sub /\ q.bound = p.bound /\ q.controller = p.controller
      /\ q.submission = p.submission /\ q.aborted = p.aborted
  BY <1>2 DEF PageType
<1> HIDE DEF q
<1> QED
  BY <1>1, <1>3, <1>4

\* A pending call that settles leaves the tables and takes nothing else with it.
LEMMA SettleKeeps ==
  ASSUME NEW p, PageInv(p), NEW c \in Call, p.stage[c] = "registered",
         NEW how \in Outcome \ {"none", "busy"}
  PROVE  PageInv(Settle(p, c, how))
<1> DEFINE q == Settle(p, c, how)
<1>1. /\ p \in PageType /\ DispatcherAgrees(p) /\ HookAgrees(p) /\ CallsInOrder(p) /\ CallsInTurn(p)
      /\ how \in Outcome
  BY DEF PageInv
<1>2. CASE p.outcome[c] # "none"
  BY <1>2 DEF Settle
<1>3. CASE p.outcome[c] = "none"
  <2>1. /\ q \in PageType
        /\ q.stage = p.stage /\ q.sub = p.sub /\ q.bound = p.bound /\ q.controller = p.controller
        /\ q.submission = p.submission /\ q.aborted = p.aborted
        /\ \A d \in Call : q.outcome[d] = IF d = c THEN how ELSE p.outcome[d]
        /\ \A k \in Key : q.byKey[k] = IF k = KeyOf(c) THEN None ELSE p.byKey[k]
        /\ \A t \in Call : q.byTask[t] = IF t = p.bound[c] THEN None ELSE p.byTask[t]
    BY <1>1, <1>3, Settling
  <2> HIDE DEF q
  <2>2. PendingIn(p, c) /\ how # "none" /\ how # "busy"
    BY <1>3 DEF PendingIn
  <2>3. \A d \in Call : PendingIn(q, d) <=> PendingIn(p, d) /\ d # c
    BY <2>1, <2>2 DEF PendingIn
  <2>4. DispatcherAgrees(q)
    <3>1. ASSUME NEW k \in Key, q.byKey[k] # None
          PROVE  PendingIn(q, q.byKey[k]) /\ KeyOf(q.byKey[k]) = k
      <4>1. k # KeyOf(c) /\ q.byKey[k] = p.byKey[k] /\ p.byKey[k] \in Call
        BY <1>1, <2>1, <3>1 DEF PageType
      <4>2. PendingIn(p, p.byKey[k]) /\ KeyOf(p.byKey[k]) = k
        BY <1>1, <3>1, <4>1 DEF DispatcherAgrees
      <4> QED
        BY <2>3, <4>1, <4>2
    <3>2. ASSUME NEW d \in Call, PendingIn(q, d) PROVE q.byKey[KeyOf(d)] = d
      <4>1. PendingIn(p, d) /\ d # c
        BY <2>3, <3>2
      <4>2. KeyOf(d) # KeyOf(c)
        BY <1>1, <2>2, <4>1, OnePerKey
      <4> QED
        BY <1>1, <2>1, <4>1, <4>2, Keys DEF DispatcherAgrees
    <3>3. ASSUME NEW t \in Call, NEW d \in Call
          PROVE  q.byTask[t] = d <=> PendingIn(q, d) /\ q.bound[d] = t
      <4>1. p.byTask[t] = d <=> PendingIn(p, d) /\ p.bound[d] = t
        BY <1>1 DEF DispatcherAgrees
      <4>2. p.byTask[t] = c <=> PendingIn(p, c) /\ p.bound[c] = t
        BY <1>1 DEF DispatcherAgrees
      <4> QED
        BY <2>1, <2>2, <2>3, <4>1, <4>2, Keys
    <3> QED
      BY <3>1, <3>2, <3>3 DEF DispatcherAgrees
  <2>5. HookAgrees(q)
    BY <1>1, <2>1, HookStands
  <2>6. CallsInOrder(q)
    <3>1. p.stage[c] \notin {"idle", "connecting"}
      OBVIOUS
    <3> QED
      BY <1>1, <2>1, <2>2, <3>1 DEF CallsInOrder
  <2>7. CallsInTurn(q)
    BY <1>1, <2>1 DEF CallsInTurn, ActiveIn
  <2> QED
    BY <2>1, <2>4, <2>5, <2>6, <2>7 DEF PageInv, q
<1> QED
  BY <1>2, <1>3

\* The settled calls whose submission is over: what Finally lets go.
Over(p) == {c \in Call : /\ p.stage[c] = "registered" /\ p.outcome[c] # "none"
                         /\ p.sub[c] \in {"task", "rejected"}}

\* Finally, field by field.
LEMMA Finishing ==
  ASSUME NEW p, p \in PageType
  PROVE  LET q == Finally(p)
         IN  /\ q \in PageType
             /\ q.outcome = p.outcome /\ q.sub = p.sub /\ q.bound = p.bound /\ q.byKey = p.byKey
             /\ q.byTask = p.byTask /\ q.aborted = p.aborted
             /\ \A c \in Call : q.stage[c] = IF c \in Over(p) THEN "done" ELSE p.stage[c]
             /\ \A n \in Node : q.submission[n] = IF p.submission[n] \in Over(p) THEN None ELSE p.submission[n]
             /\ \A n \in Node : q.controller[n] = IF p.controller[n] \in Over(p) THEN None ELSE p.controller[n]
<1> DEFINE over == Over(p)
           stage == [c \in Call |-> IF c \in over THEN "done" ELSE p.stage[c]]
           submission == [n \in Node |-> IF p.submission[n] \in over THEN None ELSE p.submission[n]]
           controller == [n \in Node |-> IF p.controller[n] \in over THEN None ELSE p.controller[n]]
           q == [p EXCEPT !.stage = stage, !.submission = submission, !.controller = controller]
<1>1. Finally(p) = q
  BY DEF Finally, Over, PageType
<1> HIDE DEF over
<1>2. /\ stage \in [Call -> {"idle", "connecting", "registered", "done"}]
      /\ submission \in [Node -> Call \cup {None}] /\ controller \in [Node -> Call \cup {None}]
  BY DEF PageType
<1>3. /\ \A c \in Call : stage[c] = IF c \in over THEN "done" ELSE p.stage[c]
      /\ \A n \in Node : submission[n] = IF p.submission[n] \in over THEN None ELSE p.submission[n]
      /\ \A n \in Node : controller[n] = IF p.controller[n] \in over THEN None ELSE p.controller[n]
  OBVIOUS
<1> HIDE DEF stage, submission, controller
<1>4. /\ q \in PageType /\ q.stage = stage /\ q.submission = submission /\ q.controller = controller
      /\ q.outcome = p.outcome /\ q.sub = p.sub /\ q.bound = p.bound /\ q.byKey = p.byKey
      /\ q.byTask = p.byTask /\ q.aborted = p.aborted
  BY <1>2 DEF PageType
<1> HIDE DEF q
<1> QED
  BY <1>1, <1>3, <1>4 DEF over

\* What is over leaves the hook's tables; nobody else is disturbed.
LEMMA FinallyKeeps ==
  ASSUME NEW p, PageInv(p)
  PROVE  PageInv(Finally(p))
<1> DEFINE q == Finally(p)
<1>1. /\ p \in PageType /\ DispatcherAgrees(p) /\ HookAgrees(p) /\ CallsInOrder(p) /\ CallsInTurn(p)
  BY DEF PageInv
<1>2. /\ q \in PageType
      /\ q.outcome = p.outcome /\ q.sub = p.sub /\ q.bound = p.bound /\ q.byKey = p.byKey
      /\ q.byTask = p.byTask /\ q.aborted = p.aborted
      /\ \A c \in Call : q.stage[c] = IF c \in Over(p) THEN "done" ELSE p.stage[c]
      /\ \A n \in Node : q.submission[n] = IF p.submission[n] \in Over(p) THEN None ELSE p.submission[n]
      /\ \A n \in Node : q.controller[n] = IF p.controller[n] \in Over(p) THEN None ELSE p.controller[n]
  BY <1>1, Finishing
<1> HIDE DEF q
<1>3. \A c \in Over(p) : c \in Call /\ p.stage[c] = "registered" /\ p.outcome[c] # "none"
  BY DEF Over
<1>4. /\ \A c \in Call : PendingIn(q, c) <=> PendingIn(p, c)
      /\ \A c \in Call : ActiveIn(q, c) <=> ActiveIn(p, c) /\ c \notin Over(p)
  BY <1>2, <1>3 DEF PendingIn, ActiveIn
<1>5. DispatcherAgrees(q)
  <2>1. \A k \in Key : p.byKey[k] \in Call \cup {None}
    BY <1>1 DEF PageType
  <2> QED
    BY <1>1, <1>2, <1>4, <2>1 DEF DispatcherAgrees
<1>6. HookAgrees(q)
  <2>1. ASSUME NEW n \in Node
        PROVE  p.controller[n] \in Call \cup {None} /\ p.submission[n] \in Call \cup {None}
    BY <1>1 DEF PageType
  <2>2. ASSUME NEW n \in Node, q.controller[n] # None
        PROVE  ActiveIn(q, q.controller[n]) /\ KeyOf(q.controller[n]) = <<n, TRUE>>
    <3>1. q.controller[n] = p.controller[n] /\ p.controller[n] \notin Over(p) /\ p.controller[n] \in Call
      BY <1>2, <2>1, <2>2
    <3>2. ActiveIn(p, p.controller[n]) /\ KeyOf(p.controller[n]) = <<n, TRUE>>
      BY <1>1, <2>2, <3>1 DEF HookAgrees
    <3> QED
      BY <1>4, <3>1, <3>2
  <2>3. ASSUME NEW n \in Node, q.submission[n] # None
        PROVE  q.submission[n] = q.controller[n] /\ q.stage[q.submission[n]] = "registered"
    <3>1. q.submission[n] = p.submission[n] /\ p.submission[n] \notin Over(p) /\ p.submission[n] \in Call
      BY <1>2, <2>1, <2>3
    <3>2. p.submission[n] = p.controller[n] /\ p.stage[p.submission[n]] = "registered"
      BY <1>1, <2>3, <3>1 DEF HookAgrees
    <3> QED
      BY <1>2, <3>1, <3>2
  <2>4. ASSUME NEW c \in Call, ActiveIn(q, c), IsChat(c)
        PROVE  /\ q.controller[NodeOf[c]] = c
               /\ q.stage[c] = "registered" => q.submission[NodeOf[c]] = c
    <3>1. ActiveIn(p, c) /\ c \notin Over(p) /\ q.stage[c] = p.stage[c]
      BY <1>2, <1>4, <2>4
    <3>2. /\ p.controller[NodeOf[c]] = c
          /\ p.stage[c] = "registered" => p.submission[NodeOf[c]] = c
      BY <1>1, <2>4, <3>1 DEF HookAgrees
    <3> QED
      BY <1>2, <3>1, <3>2, Keys
  <2> QED
    BY <2>2, <2>3, <2>4 DEF HookAgrees
<1>7. CallsInOrder(q)
  BY <1>1, <1>2, <1>3 DEF CallsInOrder
<1>8. CallsInTurn(q)
  <2>1. \A c \in Call : q.stage[c] # "idle" <=> p.stage[c] # "idle"
    BY <1>2, <1>3
  <2>2. \A c \in Call : p.stage[c] = "done" => q.stage[c] = "done"
    BY <1>2
  <2> QED
    BY <1>1, <1>4, <2>1, <2>2 DEF CallsInTurn
<1> QED
  BY <1>2, <1>5, <1>6, <1>7, <1>8 DEF PageInv, q

\* Binding a call that has been sent to a task of its own key.
LEMMA BindKeeps ==
  ASSUME NEW p, PageInv(p), NEW c \in Call, p.stage[c] \in {"registered", "done"},
         NEW t \in Call, KeyOf(t) = KeyOf(c), NEW s \in TaskState
  PROVE  LET q == Bind(p, c, t, s)
         IN  /\ PageInv(q) /\ q.stage = p.stage /\ q.sub = p.sub /\ q.aborted = p.aborted
             /\ q.controller = p.controller /\ q.submission = p.submission
             /\ \A d \in Call : q.outcome[d] = p.outcome[d] \/ (p.outcome[d] = "none" /\ q.outcome[d] = "conflict")
             /\ \A d \in Call : q.bound[d] = p.bound[d] \/ (p.outcome[d] = "none" /\ d = c)
<1> DEFINE q == Bind(p, c, t, s)
<1>1. /\ p \in PageType /\ DispatcherAgrees(p) /\ HookAgrees(p) /\ CallsInOrder(p) /\ CallsInTurn(p)
  BY DEF PageInv
<1>2. CASE p.outcome[c] # "none"
  <2>1. q = p
    BY <1>2 DEF Bind
  <2> QED
    BY <2>1
<1>3. CASE p.outcome[c] = "none" /\ p.bound[c] \notin {None, t}
  <2>1. q = Settle(p, c, "conflict") /\ "conflict" \in Outcome
    BY <1>3 DEF Bind, Outcome
  <2>2. p.stage[c] = "registered"
    BY <1>1, <1>3 DEF CallsInOrder
  <2> HIDE DEF q
  <2>3. PageInv(q)
    BY <2>1, <2>2, SettleKeeps
  <2> QED
    BY <1>1, <1>3, <2>1, <2>3, Settling DEF q
<1>4. CASE p.outcome[c] = "none" /\ p.bound[c] \in {None, t}
  <2> DEFINE bound == [p.bound EXCEPT ![c] = t]
             byTask == [p.byTask EXCEPT ![t] = c]
             in == [p EXCEPT !.bound = bound, !.byTask = byTask]
  <2>1. q = Publish(in, t, s)
    BY <1>1, <1>4 DEF Bind, PageType
  <2>2. bound \in [Call -> Call \cup {None}] /\ byTask \in [Call -> Call \cup {None}]
    BY <1>1 DEF PageType
  <2>3. /\ \A d \in Call : bound[d] = IF d = c THEN t ELSE p.bound[d]
        /\ \A u \in Call : byTask[u] = IF u = t THEN c ELSE p.byTask[u]
    BY <1>1 DEF PageType
  <2> HIDE DEF bound, byTask
  <2>4. /\ in \in PageType /\ in.bound = bound /\ in.byTask = byTask
        /\ in.stage = p.stage /\ in.outcome = p.outcome /\ in.sub = p.sub /\ in.byKey = p.byKey
        /\ in.controller = p.controller /\ in.submission = p.submission /\ in.aborted = p.aborted
    BY <1>1, <2>2 DEF PageType
  <2> HIDE DEF in
  <2>5. PendingIn(p, c)
    BY <1>1, <1>4 DEF CallsInOrder, PendingIn
  <2>6. \A d \in Call : PendingIn(in, d) <=> PendingIn(p, d)
    BY <2>4 DEF PendingIn
  <2>7. DispatcherAgrees(in)
    <3>1. \A k \in Key : p.byKey[k] \in Call \cup {None}
      BY <1>1 DEF PageType
    <3>2. ASSUME NEW u \in Call, NEW d \in Call
          PROVE  in.byTask[u] = d <=> PendingIn(in, d) /\ in.bound[d] = u
      <4>1. p.byTask[u] = d <=> PendingIn(p, d) /\ p.bound[d] = u
        BY <1>1 DEF DispatcherAgrees
      <4>2. CASE d = c
        <5>1. p.byTask[u] = c => u = t
          BY <1>4, <4>1, <4>2, Keys
        <5> QED
          BY <2>3, <2>4, <2>5, <2>6, <4>1, <4>2, <5>1
      <4>3. CASE d # c
        <5>1. ~(PendingIn(p, d) /\ p.bound[d] = t)
          <6>1. SUFFICES ASSUME PendingIn(p, d), p.bound[d] = t PROVE FALSE
            OBVIOUS
          <6>2. KeyOf(d) = KeyOf(c)
            BY <1>1, <6>1, Keys DEF CallsInOrder
          <6> QED
            BY <1>1, <2>5, <4>3, <6>1, <6>2, OnePerKey
        <5> QED
          BY <2>3, <2>4, <2>6, <4>1, <4>3, <5>1
      <4> QED
        BY <4>2, <4>3
    <3> QED
      BY <1>1, <2>4, <2>6, <3>1, <3>2 DEF DispatcherAgrees
  <2>8. HookAgrees(in)
    BY <1>1, <2>4, HookStands
  <2>9. CallsInOrder(in)
    <3>1. p.stage[c] \notin {"idle", "connecting"}
      OBVIOUS
    <3> QED
      BY <1>1, <2>3, <2>4, <3>1 DEF CallsInOrder
  <2>10. CallsInTurn(in)
    BY <1>1, <2>4 DEF CallsInTurn, ActiveIn
  <2>11. PageInv(in)
    BY <2>4, <2>7, <2>8, <2>9, <2>10 DEF PageInv
  <2> HIDE DEF q
  <2>12. PageInv(q) /\ q.stage = in.stage /\ q.sub = in.sub /\ q.aborted = in.aborted
         /\ q.controller = in.controller /\ q.submission = in.submission
         /\ q.outcome = in.outcome /\ q.bound = in.bound
    BY <2>1, <2>11, PublishKeeps
  <2> QED
    BY <1>4, <2>3, <2>4, <2>12 DEF q
<1> QED
  BY <1>2, <1>3, <1>4

\* How a step of the page moves each call on: what was settled stays, and a call
\* settles with the end of a task only if an event of that task said so.
MovesOn(p, q, d) ==
  /\ q.stage[d] = p.stage[d] \/ (p.stage[d] = "registered" /\ q.stage[d] = "done")
  /\ q.sub[d] = p.sub[d]
  /\ p.outcome[d] # "none" => q.outcome[d] = p.outcome[d]

SettledBy(p, q, d, e) ==
  p.outcome[d] = "none" /\ q.outcome[d] \in {"answer", "failed", "aborted"} =>
    /\ p.stage[d] = "registered" /\ q.bound[d] = e.task /\ KeyOf(e.task) = KeyOf(d)
    /\ e.type \in Terminal /\ q.outcome[d] = EndOf(e.type)

\* An event for the pending call it is bound to.
LEMMA ObservedKeeps ==
  ASSUME NEW p, PageInv(p), NEW c \in Call, p.stage[c] = "registered", NEW e \in Event,
         p.bound[c] = e.task
  PROVE  LET q == Observed(p, c, e)
         IN  /\ PageInv(q) /\ q.stage = p.stage /\ q.sub = p.sub /\ q.bound = p.bound
             /\ q.aborted = p.aborted
             /\ \A d \in Call : q.outcome[d] = p.outcome[d]
                  \/ (/\ d = c /\ p.outcome[c] = "none" /\ e.type \in Terminal
                      /\ q.outcome[c] = EndOf(e.type))
<1> DEFINE q == Observed(p, c, e)
<1>1. p \in PageType
  BY DEF PageInv
<1>2. CASE e.type = "delta"
  <2> DEFINE text == [p.text EXCEPT ![c] = @ + 1]
  <2>1. q = [p EXCEPT !.text = text]
    BY <1>1, <1>2 DEF Observed, Terminal, PageType
  <2>2. text \in [Call -> Nat]
    BY <1>1 DEF PageType
  <2> HIDE DEF text
  <2>3. /\ q \in PageType
        /\ q.stage = p.stage /\ q.outcome = p.outcome /\ q.sub = p.sub /\ q.bound = p.bound
        /\ q.byKey = p.byKey /\ q.byTask = p.byTask /\ q.controller = p.controller
        /\ q.submission = p.submission /\ q.aborted = p.aborted
    BY <1>1, <2>1, <2>2 DEF PageType
  <2> HIDE DEF q
  <2>4. PageInv(q)
    BY <2>3, SamePage
  <2> QED
    BY <2>3, <2>4 DEF q
<1>3. CASE e.type \in Terminal
  <2>1. EndOf(e.type) \in Outcome \ {"none", "busy"}
    BY <1>3 DEF EndOf, Terminal, Outcome
  <2>2. q = Settle(p, c, EndOf(e.type))
    BY <1>3 DEF Observed, Terminal
  <2> HIDE DEF q
  <2>3. PageInv(q)
    BY <2>1, <2>2, SettleKeeps
  <2>4. CASE p.outcome[c] # "none"
    <3>1. q = p
      BY <2>2, <2>4 DEF Settle
    <3> QED
      BY <2>3, <3>1 DEF q
  <2>5. CASE p.outcome[c] = "none"
    <3>1. EndOf(e.type) \in Outcome
      BY <2>1
    <3>2. /\ q.stage = p.stage /\ q.sub = p.sub /\ q.bound = p.bound /\ q.aborted = p.aborted
          /\ \A d \in Call : q.outcome[d] = IF d = c THEN EndOf(e.type) ELSE p.outcome[d]
      BY <1>1, <2>2, <2>5, <3>1, Settling
    <3> QED
      BY <1>3, <2>3, <2>5, <3>2 DEF q
  <2> QED
    BY <2>4, <2>5
<1>4. CASE e.type # "delta" /\ e.type \notin Terminal
  <2>1. q = p
    BY <1>4 DEF Observed
  <2> QED
    BY <2>1
<1> QED
  BY <1>2, <1>3, <1>4

\* An event of the stream.
LEMMA HandleKeeps ==
  ASSUME NEW p, PageInv(p), NEW e \in Event
  PROVE  LET q == Handle(p, e)
         IN  /\ PageInv(q)
             /\ \A d \in Call : MovesOn(p, q, d) /\ SettledBy(p, q, d, e)
<1> DEFINE seen == IF e.type = "delta" THEN p ELSE Publish(p, e.task, e.type)
           c == Found(seen, e)
           bound == IF c = None \/ seen.byTask[e.task] # None THEN seen
                    ELSE Bind(seen, c, e.task, e.type)
           heard == IF c = None \/ bound.bound[c] # e.task THEN bound ELSE Observed(bound, c, e)
           q == Finally(heard)
<1>1. Handle(p, e) = q
  BY DEF Handle
<1>2. e.task \in Call /\ (e.type # "delta" => e.type \in TaskState) /\ KeyOf(e.task) \in Key
  BY Keys DEF Event
<1>3. /\ PageInv(seen)
      /\ seen.stage = p.stage /\ seen.outcome = p.outcome /\ seen.sub = p.sub /\ seen.bound = p.bound
  BY <1>2, PublishKeeps
<1> HIDE DEF seen
<1>4. seen \in PageType /\ DispatcherAgrees(seen) /\ CallsInOrder(seen)
  BY <1>3 DEF PageInv
<1>5. c # None => /\ c \in Call /\ PendingIn(seen, c)
                  /\ seen.byTask[e.task] = None => KeyOf(e.task) = KeyOf(c) /\ e.type # "delta"
                  /\ seen.byTask[e.task] # None => seen.bound[c] = e.task
  <2>1. seen.byTask[e.task] \in Call \cup {None} /\ seen.byKey[KeyOf(e.task)] \in Call \cup {None}
    BY <1>2, <1>4 DEF PageType
  <2> QED
    BY <1>2, <1>4, <2>1 DEF Found, DispatcherAgrees
<1> HIDE DEF c
<1>6. /\ PageInv(bound) /\ bound.stage = p.stage /\ bound.sub = p.sub
      /\ \A d \in Call : bound.outcome[d] = p.outcome[d]
                           \/ (p.outcome[d] = "none" /\ bound.outcome[d] = "conflict")
  <2>1. CASE c = None \/ seen.byTask[e.task] # None
    BY <1>3, <2>1
  <2>2. CASE c # None /\ seen.byTask[e.task] = None
    <3>1. /\ c \in Call /\ seen.stage[c] \in {"registered", "done"} /\ KeyOf(e.task) = KeyOf(c)
          /\ e.type \in TaskState /\ bound = Bind(seen, c, e.task, e.type)
      BY <1>2, <1>5, <2>2 DEF PendingIn
    <3> HIDE DEF bound
    <3> QED
      BY <1>2, <1>3, <3>1, BindKeeps
  <2> QED
    BY <2>1, <2>2
<1> HIDE DEF bound
<1>7. /\ PageInv(heard) /\ heard.stage = p.stage /\ heard.sub = p.sub
      /\ \A d \in Call :
           \/ heard.outcome[d] = p.outcome[d]
           \/ p.outcome[d] = "none" /\ heard.outcome[d] = "conflict"
           \/ /\ p.outcome[d] = "none" /\ p.stage[d] = "registered"
              /\ e.type \in Terminal /\ heard.outcome[d] = EndOf(e.type)
              /\ heard.bound[d] = e.task /\ KeyOf(e.task) = KeyOf(d)
  <2>1. CASE c = None \/ bound.bound[c] # e.task
    BY <1>6, <2>1
  <2>2. CASE c # None /\ bound.bound[c] = e.task
    <3>1. c \in Call /\ bound.stage[c] = "registered" /\ heard = Observed(bound, c, e)
      BY <1>3, <1>5, <1>6, <2>2 DEF PendingIn
    <3>2. KeyOf(e.task) = KeyOf(c)
      BY <1>2, <1>6, <2>2, <3>1, Keys DEF PageInv, CallsInOrder
    <3> HIDE DEF heard
    <3>3. /\ PageInv(heard) /\ heard.stage = bound.stage /\ heard.sub = bound.sub
          /\ heard.bound = bound.bound
          /\ \A d \in Call : heard.outcome[d] = bound.outcome[d]
               \/ (/\ d = c /\ bound.outcome[c] = "none" /\ e.type \in Terminal
                   /\ heard.outcome[c] = EndOf(e.type))
      BY <1>6, <2>2, <3>1, ObservedKeeps
    <3> QED
      BY <1>6, <2>2, <3>1, <3>2, <3>3
  <2> QED
    BY <2>1, <2>2
<1> HIDE DEF heard
<1>8. heard \in PageType
  BY <1>7 DEF PageInv
<1>9. /\ PageInv(q) /\ q.outcome = heard.outcome /\ q.sub = heard.sub /\ q.bound = heard.bound
      /\ \A d \in Call : q.stage[d] = IF d \in Over(heard) THEN "done" ELSE heard.stage[d]
  BY <1>7, <1>8, Finishing, FinallyKeeps
<1> HIDE DEF q
<1>10. \A d \in Over(heard) : heard.stage[d] = "registered"
  BY DEF Over
<1>11. ASSUME NEW d \in Call PROVE MovesOn(p, q, d) /\ SettledBy(p, q, d, e)
  <2>1. MovesOn(p, q, d)
    BY <1>7, <1>9, <1>10 DEF MovesOn
  <2>2. SettledBy(p, q, d, e)
    BY <1>7, <1>9 DEF SettledBy
  <2> QED
    BY <2>1, <2>2
<1> QED
  BY <1>1, <1>9, <1>11

\* The abort of an active chat: it settles as aborted if it has registered, and
\* nobody else is touched.
LEMMA AbortKeeps ==
  ASSUME NEW p, PageInv(p), NEW c \in Call, ActiveIn(p, c)
  PROVE  LET q == Abort(p, c)
         IN  /\ PageInv(q) /\ q.bound = p.bound
             /\ \A d \in Call :
                  /\ q.stage[d] = p.stage[d] \/ (p.stage[d] = "registered" /\ q.stage[d] = "done")
                  /\ q.sub[d] = p.sub[d] \/ (p.sub[d] = "sent" /\ q.sub[d] = "rejected")
                  /\ q.outcome[d] = p.outcome[d]
                       \/ (/\ d = c /\ p.stage[c] = "registered" /\ p.outcome[c] = "none"
                           /\ q.outcome[c] = "aborted")
<1> DEFINE sub == [p.sub EXCEPT ![c] = IF @ = "sent" /\ KindOf[c] = "send" THEN "rejected" ELSE @]
           aborted == p.aborted \cup {c}
           out == [p EXCEPT !.aborted = aborted, !.sub = sub]
           left == IF p.stage[c] = "registered" THEN Settle(out, c, "aborted") ELSE out
           q == Finally(left)
<1>1. /\ p \in PageType /\ DispatcherAgrees(p) /\ HookAgrees(p) /\ CallsInOrder(p) /\ CallsInTurn(p)
  BY DEF PageInv
<1>2. Abort(p, c) = q
  BY <1>1 DEF Abort, PageType
<1>3. sub \in [Call -> {"none", "sent", "rejected", "task"}] /\ aborted \in SUBSET Call
  BY <1>1 DEF PageType
<1>4. \A d \in Call : sub[d] = p.sub[d] \/ (p.sub[d] = "sent" /\ sub[d] = "rejected")
  BY <1>1 DEF PageType
<1> HIDE DEF sub, aborted
<1>5. /\ out \in PageType /\ out.sub = sub
      /\ out.stage = p.stage /\ out.outcome = p.outcome /\ out.bound = p.bound
      /\ out.byKey = p.byKey /\ out.byTask = p.byTask /\ out.controller = p.controller
      /\ out.submission = p.submission
  BY <1>1, <1>3 DEF PageType
<1> HIDE DEF out
<1>6. PageInv(out)
  <2>1. DispatcherAgrees(out)
    BY <1>1, <1>5 DEF DispatcherAgrees, PendingIn
  <2>2. HookAgrees(out)
    BY <1>1, <1>5, HookStands
  <2>3. CallsInOrder(out)
    BY <1>1, <1>4, <1>5 DEF CallsInOrder
  <2>4. CallsInTurn(out)
    BY <1>1, <1>5 DEF CallsInTurn, ActiveIn
  <2> QED
    BY <1>5, <2>1, <2>2, <2>3, <2>4 DEF PageInv
<1>7. /\ PageInv(left) /\ left.stage = p.stage /\ left.sub = sub /\ left.bound = p.bound
      /\ \A d \in Call : left.outcome[d] = p.outcome[d]
           \/ (/\ d = c /\ p.stage[c] = "registered" /\ p.outcome[c] = "none"
               /\ left.outcome[c] = "aborted")
  <2>1. CASE p.stage[c] # "registered"
    BY <1>5, <1>6, <2>1
  <2>2. CASE p.stage[c] = "registered"
    <3>1. left = Settle(out, c, "aborted") /\ "aborted" \in Outcome /\ "aborted" \in Outcome \ {"none", "busy"}
      BY <2>2 DEF Outcome
    <3> HIDE DEF left
    <3>2. PageInv(left)
      BY <1>5, <1>6, <2>2, <3>1, SettleKeeps
    <3>3. CASE out.outcome[c] # "none"
      BY <1>5, <3>1, <3>2, <3>3 DEF Settle
    <3>4. CASE out.outcome[c] = "none"
      <4>1. /\ left.stage = out.stage /\ left.sub = out.sub /\ left.bound = out.bound
            /\ \A d \in Call : left.outcome[d] = IF d = c THEN "aborted" ELSE out.outcome[d]
        BY <1>5, <3>1, <3>4, Settling
      <4> QED
        BY <1>5, <2>2, <3>2, <3>4, <4>1
    <3> QED
      BY <3>3, <3>4
  <2> QED
    BY <2>1, <2>2
<1> HIDE DEF left
<1>8. left \in PageType
  BY <1>7 DEF PageInv
<1>9. /\ PageInv(q) /\ q.outcome = left.outcome /\ q.sub = left.sub /\ q.bound = left.bound
      /\ \A d \in Call : q.stage[d] = IF d \in Over(left) THEN "done" ELSE left.stage[d]
  BY <1>7, <1>8, Finishing, FinallyKeeps
<1> HIDE DEF q
<1>10. \A d \in Over(left) : left.stage[d] = "registered"
  BY DEF Over
<1> QED
  BY <1>2, <1>4, <1>7, <1>9, <1>10

\* What the registration of the calls of C does to call d.
Registers(p, q, C, d) ==
  IF d \in C
  THEN /\ q.stage[d] \in {"registered", "done"}
       /\ q.sub[d] = IF d \notin p.aborted \/ KindOf[d] = "retry" THEN "sent" ELSE "rejected"
       /\ q.outcome[d] = IF d \in p.aborted THEN "aborted" ELSE "none"
  ELSE /\ q.stage[d] = p.stage[d] \/ (p.stage[d] = "registered" /\ q.stage[d] = "done")
       /\ q.sub[d] = p.sub[d] /\ q.outcome[d] = p.outcome[d]

\* Calls that have waited for the stream: none finds its key taken, and the tables
\* lead to all that were not aborted.
LEMMA RegisterKeeps ==
  ASSUME NEW p, PageInv(p), NEW C \in SUBSET Call, \A c \in C : p.stage[c] = "connecting"
  PROVE  LET q == Register(p, C)
         IN  /\ PageInv(q) /\ q.bound = p.bound
             /\ \A d \in Call : Registers(p, q, C, d)
<1> DEFINE taken(c) == \/ p.byKey[KeyOf(c)] # None
                       \/ \E d \in C \ p.aborted : d < c /\ KeyOf(d) = KeyOf(c)
           in == {c \in C : ~taken(c)}
<1>1. /\ p \in PageType /\ DispatcherAgrees(p) /\ HookAgrees(p) /\ CallsInOrder(p) /\ CallsInTurn(p)
  BY DEF PageInv
<1>2. \A c \in C : ActiveIn(p, c) /\ c \in Call
  BY DEF ActiveIn
<1>3. in = C
  <2> SUFFICES ASSUME NEW c \in C PROVE ~taken(c)
    OBVIOUS
  <2>1. p.byKey[KeyOf(c)] = None
    <3>1. SUFFICES ASSUME p.byKey[KeyOf(c)] # None PROVE FALSE
      OBVIOUS
    <3>2. p.byKey[KeyOf(c)] \in Call /\ KeyOf(c) \in Key
      BY <1>1, <1>2, <3>1, Keys DEF PageType
    <3>3. PendingIn(p, p.byKey[KeyOf(c)]) /\ KeyOf(p.byKey[KeyOf(c)]) = KeyOf(c)
      BY <1>1, <3>1, <3>2 DEF DispatcherAgrees
    <3>4. p.byKey[KeyOf(c)] = c
      BY <1>1, <1>2, <3>2, <3>3 DEF CallsInTurn, PendingIn, ActiveIn
    <3> QED
      BY <3>3, <3>4 DEF PendingIn
  <2>2. ASSUME NEW d \in C, KeyOf(d) = KeyOf(c) PROVE ~(d < c)
    <3>1. d = c
      BY <1>1, <1>2, <2>2 DEF CallsInTurn
    <3> QED
      BY <1>2, <3>1, Keys
  <2> QED
    BY <2>1, <2>2
<1> DEFINE Enters(k, c) == c \in in /\ KeyOf(c) = k
           stage == [c \in Call |-> IF c \notin C THEN p.stage[c] ELSE IF c \in in THEN "registered" ELSE "done"]
           outcome == [c \in Call |-> CASE c \in C \ in -> "busy"
                                        [] c \in in \cap p.aborted -> "aborted"
                                        [] OTHER -> p.outcome[c]]
           sub == [c \in Call |-> IF c \notin in THEN p.sub[c]
                     ELSE IF c \notin p.aborted \/ KindOf[c] = "retry" THEN "sent" ELSE "rejected"]
           byKey == [k \in Key |-> IF \E c \in Call \ p.aborted : Enters(k, c)
                                   THEN CHOOSE c \in Call \ p.aborted : Enters(k, c) ELSE p.byKey[k]]
           submission == [n \in Node |-> IF \E c \in Call : Enters(<<n, TRUE>>, c)
                                         THEN CHOOSE c \in Call : Enters(<<n, TRUE>>, c)
                                         ELSE p.submission[n]]
           controller == [n \in Node |-> IF \E c \in C \ in : IsChat(c) /\ NodeOf[c] = n
                                         THEN None ELSE p.controller[n]]
           r == [p EXCEPT !.stage = stage, !.outcome = outcome, !.sub = sub, !.byKey = byKey,
                          !.submission = submission, !.controller = controller]
           q == Finally(r)
<1>4. Register(p, C) = q
  BY DEF Register
<1>5. /\ \A c \in Call : stage[c] = IF c \in C THEN "registered" ELSE p.stage[c]
      /\ \A c \in Call : outcome[c] = IF c \in C /\ c \in p.aborted THEN "aborted" ELSE p.outcome[c]
      /\ \A c \in Call : sub[c] = IF c \notin C THEN p.sub[c]
                     ELSE IF c \notin p.aborted \/ KindOf[c] = "retry" THEN "sent" ELSE "rejected"
      /\ \A n \in Node : controller[n] = p.controller[n]
  BY <1>3
<1>6. ASSUME NEW k \in Key
      PROVE  IF \E c \in C \ p.aborted : KeyOf(c) = k
             THEN byKey[k] \in C \ p.aborted /\ KeyOf(byKey[k]) = k
             ELSE byKey[k] = p.byKey[k]
  BY <1>3
<1>7. ASSUME NEW n \in Node
      PROVE  IF \E c \in C : KeyOf(c) = <<n, TRUE>>
             THEN submission[n] \in C /\ KeyOf(submission[n]) = <<n, TRUE>>
             ELSE submission[n] = p.submission[n]
  BY <1>3
<1> HIDE DEF in, stage, outcome, sub, byKey, submission, controller
<1>8. /\ stage \in [Call -> {"idle", "connecting", "registered", "done"}]
      /\ outcome \in [Call -> Outcome] /\ sub \in [Call -> {"none", "sent", "rejected", "task"}]
      /\ byKey \in [Key -> Call \cup {None}]
      /\ submission \in [Node -> Call \cup {None}] /\ controller \in [Node -> Call \cup {None}]
  <2>1. stage \in [Call -> {"idle", "connecting", "registered", "done"}]
    BY <1>1, <1>5 DEF PageType, stage
  <2>2. outcome \in [Call -> Outcome]
    <3>1. \A c \in Call : outcome[c] \in Outcome
      BY <1>1, <1>5 DEF PageType, Outcome
    <3>2. outcome = [c \in Call |-> outcome[c]]
      BY DEF outcome
    <3> QED
      BY <3>1, <3>2
  <2>3. sub \in [Call -> {"none", "sent", "rejected", "task"}]
    BY <1>1, <1>5 DEF PageType, sub
  <2>4. byKey \in [Key -> Call \cup {None}]
    <3>1. \A k \in Key : byKey[k] \in Call \cup {None}
      BY <1>1, <1>6 DEF PageType
    <3>2. byKey = [k \in Key |-> byKey[k]]
      BY DEF byKey
    <3> QED
      BY <3>1, <3>2
  <2>5. submission \in [Node -> Call \cup {None}]
    <3>1. \A n \in Node : submission[n] \in Call \cup {None}
      BY <1>1, <1>7 DEF PageType
    <3>2. submission = [n \in Node |-> submission[n]]
      BY DEF submission
    <3> QED
      BY <3>1, <3>2
  <2>6. controller \in [Node -> Call \cup {None}]
    <3>1. \A n \in Node : controller[n] \in Call \cup {None}
      BY <1>1, <1>5 DEF PageType
    <3>2. controller = [n \in Node |-> controller[n]]
      BY DEF controller
    <3> QED
      BY <3>1, <3>2
  <2> QED
    BY <2>1, <2>2, <2>3, <2>4, <2>5, <2>6
<1>9. /\ r \in PageType /\ r.stage = stage /\ r.outcome = outcome /\ r.sub = sub /\ r.byKey = byKey
      /\ r.submission = submission /\ r.controller = controller
      /\ r.bound = p.bound /\ r.byTask = p.byTask
  BY <1>1, <1>8 DEF PageType
<1> HIDE DEF r
<1>10. \A c \in C : p.outcome[c] = "none" /\ p.sub[c] = "none" /\ p.bound[c] = None
  BY <1>1 DEF CallsInOrder
<1>11. /\ \A c \in Call \ C : PendingIn(r, c) <=> PendingIn(p, c)
       /\ \A c \in C : ~PendingIn(p, c) /\ (PendingIn(r, c) <=> c \notin p.aborted)
       /\ \A c \in Call : ActiveIn(r, c) <=> ActiveIn(p, c)
  BY <1>5, <1>9, <1>10 DEF PendingIn, ActiveIn
<1>12. \A c \in C, d \in Call : KeyOf(c) = KeyOf(d) /\ ActiveIn(p, d) => c = d
  BY <1>1, <1>2 DEF CallsInTurn
<1>13. DispatcherAgrees(r)
  <2>1. ASSUME NEW k \in Key, r.byKey[k] # None
        PROVE  PendingIn(r, r.byKey[k]) /\ KeyOf(r.byKey[k]) = k
    <3>1. CASE \E c \in C \ p.aborted : KeyOf(c) = k
      <4>1. byKey[k] \in C \ p.aborted /\ KeyOf(byKey[k]) = k
        BY <1>6, <3>1
      <4> QED
        BY <1>9, <1>11, <4>1
    <3>2. CASE ~\E c \in C \ p.aborted : KeyOf(c) = k
      <4>1. r.byKey[k] = p.byKey[k] /\ p.byKey[k] \in Call
        BY <1>1, <1>6, <1>9, <2>1, <3>2 DEF PageType
      <4>2. PendingIn(p, p.byKey[k]) /\ KeyOf(p.byKey[k]) = k
        BY <1>1, <2>1, <4>1 DEF DispatcherAgrees
      <4> QED
        BY <1>11, <4>1, <4>2
    <3> QED
      BY <3>1, <3>2
  <2>2. ASSUME NEW d \in Call, PendingIn(r, d) PROVE r.byKey[KeyOf(d)] = d
    <3>1. KeyOf(d) \in Key
      BY Keys
    <3>2. CASE d \in C
      <4>1. d \in C \ p.aborted
        BY <1>11, <2>2, <3>2
      <4>2. byKey[KeyOf(d)] \in C \ p.aborted /\ KeyOf(byKey[KeyOf(d)]) = KeyOf(d)
        BY <1>6, <3>1, <4>1
      <4> QED
        BY <1>2, <1>9, <1>12, <3>2, <4>2
    <3>3. CASE d \notin C
      <4>1. PendingIn(p, d) /\ ActiveIn(p, d)
        BY <1>11, <2>2, <3>3 DEF PendingIn, ActiveIn
      <4>2. ~\E c \in C \ p.aborted : KeyOf(c) = KeyOf(d)
        BY <1>12, <3>3, <4>1
      <4> QED
        BY <1>1, <1>6, <1>9, <3>1, <4>1, <4>2 DEF DispatcherAgrees
    <3> QED
      BY <3>2, <3>3
  <2>3. ASSUME NEW t \in Call, NEW d \in Call
        PROVE  r.byTask[t] = d <=> PendingIn(r, d) /\ r.bound[d] = t
    <3>1. p.byTask[t] = d <=> PendingIn(p, d) /\ p.bound[d] = t
      BY <1>1 DEF DispatcherAgrees
    <3> QED
      BY <1>9, <1>10, <1>11, <3>1, Keys
  <2> QED
    BY <2>1, <2>2, <2>3 DEF DispatcherAgrees
<1>14. HookAgrees(r)
  <2>1. ASSUME NEW n \in Node, r.controller[n] # None
        PROVE  ActiveIn(r, r.controller[n]) /\ KeyOf(r.controller[n]) = <<n, TRUE>>
    <3>1. r.controller[n] = p.controller[n] /\ p.controller[n] \in Call
      BY <1>1, <1>5, <1>9, <2>1 DEF PageType
    <3>2. ActiveIn(p, p.controller[n]) /\ KeyOf(p.controller[n]) = <<n, TRUE>>
      BY <1>1, <2>1, <3>1 DEF HookAgrees
    <3> QED
      BY <1>11, <3>1, <3>2
  <2>2. ASSUME NEW n \in Node, r.submission[n] # None
        PROVE  r.submission[n] = r.controller[n] /\ r.stage[r.submission[n]] = "registered"
    <3>1. CASE \E c \in C : KeyOf(c) = <<n, TRUE>>
      <4>1. submission[n] \in C /\ KeyOf(submission[n]) = <<n, TRUE>>
        BY <1>7, <3>1
      <4>2. IsChat(submission[n]) /\ NodeOf[submission[n]] = n
        BY <1>2, <4>1, Keys
      <4>3. p.controller[n] = submission[n]
        BY <1>1, <1>2, <4>1, <4>2 DEF HookAgrees
      <4> QED
        BY <1>2, <1>5, <1>9, <4>1, <4>3
    <3>2. CASE ~\E c \in C : KeyOf(c) = <<n, TRUE>>
      <4>1. r.submission[n] = p.submission[n] /\ p.submission[n] \in Call
        BY <1>1, <1>7, <1>9, <2>2, <3>2 DEF PageType
      <4>2. p.submission[n] = p.controller[n] /\ p.stage[p.submission[n]] = "registered"
        BY <1>1, <2>2, <4>1 DEF HookAgrees
      <4> QED
        BY <1>5, <1>9, <4>1, <4>2
    <3> QED
      BY <3>1, <3>2
  <2>3. ASSUME NEW c \in Call, ActiveIn(r, c), IsChat(c)
        PROVE  /\ r.controller[NodeOf[c]] = c
               /\ r.stage[c] = "registered" => r.submission[NodeOf[c]] = c
    <3>1. NodeOf[c] \in Node /\ KeyOf(c) = <<NodeOf[c], TRUE>>
      BY <2>3, Keys
    <3>2. ActiveIn(p, c) /\ p.controller[NodeOf[c]] = c
      BY <1>1, <1>11, <2>3 DEF HookAgrees
    <3>3. ASSUME r.stage[c] = "registered" PROVE r.submission[NodeOf[c]] = c
      <4>1. CASE c \in C
        <5>1. submission[NodeOf[c]] \in C /\ KeyOf(submission[NodeOf[c]]) = KeyOf(c)
          BY <1>7, <3>1, <4>1
        <5> QED
          BY <1>9, <1>12, <3>2, <5>1
      <4>2. CASE c \notin C
        <5>1. ~\E d \in C : KeyOf(d) = <<NodeOf[c], TRUE>>
          BY <1>12, <3>1, <3>2, <4>2
        <5>2. p.stage[c] = "registered"
          BY <1>5, <1>9, <3>3, <4>2
        <5> QED
          BY <1>1, <1>7, <1>9, <2>3, <3>1, <3>2, <5>1, <5>2 DEF HookAgrees
      <4> QED
        BY <4>1, <4>2
    <3> QED
      BY <1>5, <1>9, <3>1, <3>2, <3>3
  <2> QED
    BY <2>1, <2>2, <2>3 DEF HookAgrees
<1>15. CallsInOrder(r)
  BY <1>1, <1>5, <1>9, <1>10 DEF CallsInOrder
<1>16. CallsInTurn(r)
  <2>1. \A c \in Call : r.stage[c] # "idle" => p.stage[c] # "idle"
    BY <1>5, <1>9
  <2>2. \A c \in Call : p.stage[c] = "done" => r.stage[c] = "done"
    BY <1>5, <1>9
  <2> QED
    BY <1>1, <1>11, <2>1, <2>2 DEF CallsInTurn
<1>17. PageInv(r)
  BY <1>9, <1>13, <1>14, <1>15, <1>16 DEF PageInv
<1>18. /\ PageInv(q) /\ q.outcome = r.outcome /\ q.sub = r.sub /\ q.bound = r.bound
       /\ \A d \in Call : q.stage[d] = IF d \in Over(r) THEN "done" ELSE r.stage[d]
  BY <1>9, <1>17, Finishing, FinallyKeeps
<1> HIDE DEF q
<1>19. \A d \in Over(r) : r.stage[d] = "registered"
  BY DEF Over
<1>20. ASSUME NEW d \in Call PROVE Registers(p, q, C, d)
  BY <1>5, <1>9, <1>10, <1>18, <1>19 DEF Registers
<1> QED
  BY <1>4, <1>9, <1>18, <1>20

\* What the page sees to before it begins a call.
MayStart(p, c) ==
  /\ p.stage[c] = "idle"
  /\ IsChat(c) => \A d \in Call : IsChat(d) /\ NodeOf[d] = NodeOf[c] /\ d < c => p.stage[d] = "done"
  /\ ~IsChat(c) => \A d \in Call : KeyOf(d) = KeyOf(c) => p.stage[d] \in {"idle", "done"}

Starts(p, c) == [p EXCEPT !.stage[c] = "connecting",
                          !.controller[NodeOf[c]] = IF IsChat(c) THEN c ELSE @]

\* A call that begins is the only active one of its key.
LEMMA StartKeeps ==
  ASSUME NEW p, PageInv(p), NEW c \in Call, MayStart(p, c)
  PROVE  LET q == Starts(p, c)
         IN  /\ PageInv(q) /\ q.outcome = p.outcome /\ q.sub = p.sub /\ q.bound = p.bound
             /\ q.aborted = p.aborted
             /\ \A d \in Call : q.stage[d] = IF d = c THEN "connecting" ELSE p.stage[d]
<1> DEFINE stage == [p.stage EXCEPT ![c] = "connecting"]
           controller == [p.controller EXCEPT ![NodeOf[c]] = IF IsChat(c) THEN c ELSE @]
           q == [p EXCEPT !.stage = stage, !.controller = controller]
<1>1. /\ p \in PageType /\ DispatcherAgrees(p) /\ HookAgrees(p) /\ CallsInOrder(p) /\ CallsInTurn(p)
      /\ p.stage[c] = "idle"
  BY DEF PageInv, MayStart
<1>2. Starts(p, c) = q
  BY <1>1 DEF Starts, PageType
<1>3. /\ stage \in [Call -> {"idle", "connecting", "registered", "done"}]
      /\ controller \in [Node -> Call \cup {None}]
  BY <1>1, Keys DEF PageType
<1>4. /\ \A d \in Call : stage[d] = IF d = c THEN "connecting" ELSE p.stage[d]
      /\ \A n \in Node : controller[n] = IF n = NodeOf[c] /\ IsChat(c) THEN c ELSE p.controller[n]
  BY <1>1, Keys DEF PageType
<1> HIDE DEF stage, controller
<1>5. /\ q \in PageType /\ q.stage = stage /\ q.controller = controller
      /\ q.outcome = p.outcome /\ q.sub = p.sub /\ q.bound = p.bound /\ q.byKey = p.byKey
      /\ q.byTask = p.byTask /\ q.submission = p.submission /\ q.aborted = p.aborted
  BY <1>1, <1>3 DEF PageType
<1> HIDE DEF q
<1>6. \A d \in Call : (PendingIn(q, d) <=> PendingIn(p, d)) /\ (ActiveIn(q, d) <=> ActiveIn(p, d) \/ d = c)
  BY <1>1, <1>4, <1>5 DEF PendingIn, ActiveIn
<1>7. ASSUME NEW d \in Call, KeyOf(d) = KeyOf(c) PROVE ~ActiveIn(p, d)
  <2>1. CASE ~IsChat(c)
    BY <1>7, <2>1 DEF MayStart, ActiveIn
  <2>2. CASE IsChat(c)
    <3>1. IsChat(d) /\ NodeOf[d] = NodeOf[c]
      BY <1>7, <2>2, Keys
    <3>2. CASE d < c
      BY <2>2, <3>1, <3>2 DEF MayStart, ActiveIn
    <3>3. CASE c < d
      <4>1. p.stage[d] = "idle"
        BY <1>1, <1>7, <2>2, <3>3 DEF CallsInTurn
      <4> QED
        BY <4>1 DEF ActiveIn
    <3>4. CASE d = c
      BY <1>1, <3>4 DEF ActiveIn
    <3> QED
      BY <3>2, <3>3, <3>4, Keys
  <2> QED
    BY <2>1, <2>2
<1>8. DispatcherAgrees(q)
  <2>1. \A k \in Key : p.byKey[k] \in Call \cup {None}
    BY <1>1 DEF PageType
  <2> QED
    BY <1>1, <1>5, <1>6, <2>1 DEF DispatcherAgrees
<1>9. HookAgrees(q)
  <2>1. ASSUME NEW n \in Node, q.controller[n] # None
        PROVE  ActiveIn(q, q.controller[n]) /\ KeyOf(q.controller[n]) = <<n, TRUE>>
    <3>1. CASE n = NodeOf[c] /\ IsChat(c)
      BY <1>4, <1>5, <1>6, <3>1, Keys
    <3>2. CASE ~(n = NodeOf[c] /\ IsChat(c))
      <4>1. q.controller[n] = p.controller[n] /\ p.controller[n] \in Call
        BY <1>1, <1>4, <1>5, <2>1, <3>2 DEF PageType
      <4>2. ActiveIn(p, p.controller[n]) /\ KeyOf(p.controller[n]) = <<n, TRUE>>
        BY <1>1, <2>1, <4>1 DEF HookAgrees
      <4> QED
        BY <1>6, <4>1, <4>2
    <3> QED
      BY <3>1, <3>2
  <2>2. ASSUME NEW n \in Node, q.submission[n] # None
        PROVE  q.submission[n] = q.controller[n] /\ q.stage[q.submission[n]] = "registered"
    <3>1. q.submission[n] = p.submission[n] /\ p.submission[n] \in Call
      BY <1>1, <1>5, <2>2 DEF PageType
    <3>2. p.submission[n] = p.controller[n] /\ p.stage[p.submission[n]] = "registered"
      BY <1>1, <2>2, <3>1 DEF HookAgrees
    <3>3. ActiveIn(p, p.controller[n]) /\ KeyOf(p.controller[n]) = <<n, TRUE>>
      <4>1. p.controller[n] # None
        BY <3>1, <3>2, Keys
      <4> QED
        BY <1>1, <4>1 DEF HookAgrees
    <3>4. ~(n = NodeOf[c] /\ IsChat(c))
      BY <1>7, <3>1, <3>2, <3>3, Keys
    <3> QED
      BY <1>1, <1>4, <1>5, <3>1, <3>2, <3>4
  <2>3. ASSUME NEW d \in Call, ActiveIn(q, d), IsChat(d)
        PROVE  /\ q.controller[NodeOf[d]] = d
               /\ q.stage[d] = "registered" => q.submission[NodeOf[d]] = d
    <3>1. CASE d = c
      BY <1>4, <1>5, <2>3, <3>1, Keys
    <3>2. CASE d # c
      <4>1. ActiveIn(p, d) /\ q.stage[d] = p.stage[d]
        BY <1>4, <1>5, <1>6, <2>3, <3>2
      <4>2. ~(NodeOf[d] = NodeOf[c] /\ IsChat(c))
        BY <1>7, <2>3, <4>1, Keys
      <4> QED
        BY <1>1, <1>4, <1>5, <2>3, <4>1, <4>2, Keys DEF HookAgrees
    <3> QED
      BY <3>1, <3>2
  <2> QED
    BY <2>1, <2>2, <2>3 DEF HookAgrees
<1>10. CallsInOrder(q)
  BY <1>1, <1>4, <1>5 DEF CallsInOrder
<1>11. CallsInTurn(q)
  <2>1. ASSUME NEW a \in Call, NEW b \in Call, IsChat(a), KeyOf(a) = KeyOf(b), a < b,
               q.stage[b] # "idle"
        PROVE  q.stage[a] = "done"
    <3>1. CASE b = c
      <4>1. IsChat(c) /\ NodeOf[a] = NodeOf[c] /\ a # c
        BY <2>1, <3>1, Keys
      <4> QED
        BY <1>4, <1>5, <2>1, <3>1, <4>1 DEF MayStart
    <3>2. CASE b # c
      <4>1. p.stage[a] = "done"
        BY <1>1, <1>4, <1>5, <2>1, <3>2 DEF CallsInTurn
      <4> QED
        BY <1>1, <1>4, <1>5, <4>1
    <3> QED
      BY <3>1, <3>2
  <2>2. ASSUME NEW a \in Call, NEW b \in Call, KeyOf(a) = KeyOf(b), ActiveIn(q, a), ActiveIn(q, b)
        PROVE  a = b
    BY <1>1, <1>6, <1>7, <2>2 DEF CallsInTurn
  <2> QED
    BY <2>1, <2>2 DEF CallsInTurn
<1> QED
  BY <1>2, <1>4, <1>5, <1>8, <1>9, <1>10, <1>11 DEF PageInv

\* Who waits for the stream is refused.
Refused(p, C) == [p EXCEPT
  !.stage = [c \in Call |-> IF c \in C THEN "done" ELSE @[c]],
  !.outcome = [c \in Call |-> IF c \in C THEN "unconnected" ELSE @[c]],
  !.controller = [n \in Node |-> IF @[n] \in C THEN None ELSE @[n]]]

\* The stream cannot be opened: who waits for it leaves the hook's tables.
LEMMA RefusalKeeps ==
  ASSUME NEW p, PageInv(p), NEW C, C = {c \in Call : p.stage[c] = "connecting"}
  PROVE  LET q == Refused(p, C)
         IN  /\ PageInv(q) /\ q.sub = p.sub /\ q.bound = p.bound
             /\ \A d \in Call : q.stage[d] = IF d \in C THEN "done" ELSE p.stage[d]
             /\ \A d \in Call : q.outcome[d] = IF d \in C THEN "unconnected" ELSE p.outcome[d]
<1> DEFINE stage == [c \in Call |-> IF c \in C THEN "done" ELSE p.stage[c]]
           outcome == [c \in Call |-> IF c \in C THEN "unconnected" ELSE p.outcome[c]]
           controller == [n \in Node |-> IF p.controller[n] \in C THEN None ELSE p.controller[n]]
           q == [p EXCEPT !.stage = stage, !.outcome = outcome, !.controller = controller]
<1>1. /\ p \in PageType /\ DispatcherAgrees(p) /\ HookAgrees(p) /\ CallsInOrder(p) /\ CallsInTurn(p)
  BY DEF PageInv
<1>q. Refused(p, C) = q
  BY DEF Refused
<1>2. /\ stage \in [Call -> {"idle", "connecting", "registered", "done"}]
      /\ controller \in [Node -> Call \cup {None}] /\ outcome \in [Call -> Outcome]
  <2>1. stage \in [Call -> {"idle", "connecting", "registered", "done"}]
    BY <1>1 DEF PageType
  <2>2. controller \in [Node -> Call \cup {None}]
    BY <1>1 DEF PageType
  <2>3. outcome \in [Call -> Outcome]
    <3>1. "unconnected" \in Outcome /\ \A c \in Call : p.outcome[c] \in Outcome
      BY <1>1 DEF PageType, Outcome
    <3> QED
      BY <3>1
  <2> QED
    BY <2>1, <2>2, <2>3
<1>3. /\ \A d \in Call : stage[d] = IF d \in C THEN "done" ELSE p.stage[d]
      /\ \A d \in Call : outcome[d] = IF d \in C THEN "unconnected" ELSE p.outcome[d]
      /\ \A n \in Node : controller[n] = IF p.controller[n] \in C THEN None ELSE p.controller[n]
  OBVIOUS
<1> HIDE DEF stage, outcome, controller
<1>4. /\ q \in PageType /\ q.stage = stage /\ q.outcome = outcome /\ q.controller = controller
      /\ q.sub = p.sub /\ q.bound = p.bound /\ q.byKey = p.byKey
      /\ q.byTask = p.byTask /\ q.submission = p.submission
  BY <1>1, <1>2 DEF PageType
<1> HIDE DEF q
<1>5. \A d \in Call : (PendingIn(q, d) <=> PendingIn(p, d))
                      /\ (ActiveIn(q, d) <=> ActiveIn(p, d) /\ d \notin C)
  BY <1>3, <1>4 DEF PendingIn, ActiveIn
<1>6. DispatcherAgrees(q)
  <2>1. \A k \in Key : p.byKey[k] \in Call \cup {None}
    BY <1>1 DEF PageType
  <2> QED
    BY <1>1, <1>4, <1>5, <2>1 DEF DispatcherAgrees
<1>7. HookAgrees(q)
  <2>1. ASSUME NEW n \in Node
        PROVE  p.controller[n] \in Call \cup {None} /\ p.submission[n] \in Call \cup {None}
    BY <1>1 DEF PageType
  <2>2. ASSUME NEW n \in Node, q.controller[n] # None
        PROVE  ActiveIn(q, q.controller[n]) /\ KeyOf(q.controller[n]) = <<n, TRUE>>
    <3>1. q.controller[n] = p.controller[n] /\ p.controller[n] \notin C /\ p.controller[n] \in Call
      BY <1>3, <1>4, <2>1, <2>2
    <3>2. ActiveIn(p, p.controller[n]) /\ KeyOf(p.controller[n]) = <<n, TRUE>>
      BY <1>1, <2>2, <3>1 DEF HookAgrees
    <3> QED
      BY <1>5, <3>1, <3>2
  <2>3. ASSUME NEW n \in Node, q.submission[n] # None
        PROVE  q.submission[n] = q.controller[n] /\ q.stage[q.submission[n]] = "registered"
    <3>1. p.submission[n] = p.controller[n] /\ p.stage[p.submission[n]] = "registered" /\ p.submission[n] \in Call
      BY <1>1, <1>4, <2>1, <2>3 DEF HookAgrees
    <3> QED
      BY <1>3, <1>4, <3>1
  <2>4. ASSUME NEW c \in Call, ActiveIn(q, c), IsChat(c)
        PROVE  /\ q.controller[NodeOf[c]] = c
               /\ q.stage[c] = "registered" => q.submission[NodeOf[c]] = c
    <3>1. ActiveIn(p, c) /\ c \notin C /\ q.stage[c] = p.stage[c]
      BY <1>3, <1>4, <1>5, <2>4
    <3>2. /\ p.controller[NodeOf[c]] = c
          /\ p.stage[c] = "registered" => p.submission[NodeOf[c]] = c
      BY <1>1, <2>4, <3>1 DEF HookAgrees
    <3> QED
      BY <1>3, <1>4, <3>1, <3>2, Keys
  <2> QED
    BY <2>2, <2>3, <2>4 DEF HookAgrees
<1>8. CallsInOrder(q)
  BY <1>1, <1>3, <1>4 DEF CallsInOrder
<1>9. CallsInTurn(q)
  <2>1. \A c \in Call : q.stage[c] # "idle" => p.stage[c] # "idle"
    BY <1>3, <1>4
  <2>2. \A c \in Call : p.stage[c] = "done" => q.stage[c] = "done"
    BY <1>3, <1>4
  <2> QED
    BY <1>1, <1>5, <2>1, <2>2 DEF CallsInTurn
<1> QED
  BY <1>q, <1>3, <1>4, <1>6, <1>7, <1>8, <1>9 DEF PageInv

(* What a step of the system does.                                         *)

\* SettlesOnce, of one step.
CallsSettle ==
  \A c \in Call :
    IF page.outcome[c] # "none" THEN page'.outcome[c] = page.outcome[c]
    ELSE page'.outcome[c] \in {"answer", "failed"} =>
           /\ KeyOf(page'.bound[c]) = KeyOf(c)
           /\ page'.outcome[c] = EndOf(task[page'.bound[c]])

\* No chat of a node precedes its question, and none follows it before it is
\* over: while a question is on, its task is the only one of its key.
LEMMA OnlyTask ==
  ASSUME DeliveryInv, NEW c \in Call, KindOf[c] = "send", page.stage[c] # "done",
         NEW t \in Call, KeyOf(t) = KeyOf(c), task[t] # "absent"
  PROVE  t = c
<1>1. /\ CallsInOrder(page) /\ CallsInTurn(page) /\ NetworkAgrees /\ page \in PageType
      /\ IsChat(c) /\ NodeOf[t] = NodeOf[c]
  BY Keys DEF DeliveryInv, PageInv, IsChat
<1>2. c <= t /\ c \in Nat /\ t \in Nat
  BY <1>1, DeliveryAssumption
<1>3. page.stage[t] # "idle"
  BY <1>1 DEF CallsInOrder, NetworkAgrees
<1>4. ~(c < t)
  BY <1>1, <1>3 DEF CallsInTurn
<1> QED
  BY <1>2, <1>4

\* A step that leaves the tasks alone and starts no stop: what is on the network
\* of a call is what the page sent.
LEMMA NetworkKeeps ==
  ASSUME DeliveryInv, task' = task,
         \A c \in Call :
           /\ page.stage[c] \in {"registered", "done"} => page'.stage[c] \in {"registered", "done"}
           /\ page'.sub[c] = "none" => page.sub[c] = "none" /\ post'[c] = post[c]
           /\ post'[c] = "request" => post[c] = "request" \/ page.sub[c] = "none",
         \A n \in Node : stop'[n].phase # "none" => stop[n].phase # "none" /\ stop'[n].task = stop[n].task
  PROVE  NetworkAgrees' /\ StopsAreTrue'
<1>1. NetworkAgrees /\ StopsAreTrue
  BY DEF DeliveryInv
<1>2. NetworkAgrees'
  BY <1>1 DEF NetworkAgrees
<1>3. StopsAreTrue'
  <2> SUFFICES ASSUME NEW n \in Node, stop'[n].phase # "none"
               PROVE  /\ stop'[n].task \in Call /\ KeyOf(stop'[n].task) = <<n, TRUE>>
                      /\ page'.stage[stop'[n].task] \in {"registered", "done"}
    BY DEF StopsAreTrue
  <2>1. /\ stop[n].task \in Call /\ KeyOf(stop[n].task) = <<n, TRUE>>
        /\ page.stage[stop[n].task] \in {"registered", "done"}
    BY <1>1 DEF StopsAreTrue
  <2> QED
    BY <2>1
<1> QED
  BY <1>2, <1>3

\* The same page: nothing settles.
LEMMA NothingSettles ==
  ASSUME page' = page
  PROVE  CallsSettle
BY DEF CallsSettle

(* The server.                                                             *)

\* An event on its way to the page.
LEMMA Publishing ==
  ASSUME DeliveryTypeOK, NEW t \in Call, NEW type \in TaskState \cup {"delta"}, Publishes(t, type)
  PROVE  /\ stream' \in Seq(Event)
         /\ \A i \in DOMAIN stream' : \/ i \in DOMAIN stream /\ stream'[i] = stream[i]
                                      \/ stream'[i] = [task |-> t, type |-> type]
<1>1. CASE ~subscribed
  BY <1>1 DEF Publishes, DeliveryTypeOK
<1>2. CASE subscribed
  <2> DEFINE e == [task |-> t, type |-> type]
  <2>1. stream' = Append(stream, e) /\ stream \in Seq(Event) /\ e \in Event
    BY <1>2 DEF Publishes, DeliveryTypeOK, Event
  <2> HIDE DEF e
  <2>2. /\ stream' \in Seq(Event) /\ Len(stream') = Len(stream) + 1
        /\ \A i \in 1 .. Len(stream) : stream'[i] = stream[i]
        /\ stream'[Len(stream) + 1] = e
    BY <2>1, AppendProperties
  <2>3. DOMAIN stream' = 1 .. Len(stream') /\ DOMAIN stream = 1 .. Len(stream) /\ Len(stream) \in Nat
    BY <2>1, <2>2, LenProperties
  <2>4. ASSUME NEW i \in DOMAIN stream' PROVE i \in DOMAIN stream \/ i = Len(stream) + 1
    BY <2>2, <2>3
  <2> QED
    BY <2>2, <2>3, <2>4 DEF e
<1> QED
  BY <1>1, <1>2

\* A task that is alive, or asked for, moves on.
LEMMA TaskMoves ==
  ASSUME DeliveryInv, NEW t \in Call, NEW to \in TaskState \ {"absent"},
         task[t] \notin Terminal, task[t] # "absent" \/ post[t] = "request",
         task' = [task EXCEPT ![t] = to], Publishes(t, to),
         post' = post \/ post' = [post EXCEPT ![t] = "accepted"], post'[t] # "request",
         UNCHANGED <<page, conn, subscribed, stop>>
  PROVE  DeliveryInv' /\ CallsSettle
<1>1. /\ DeliveryTypeOK /\ PageInv(page) /\ NetworkAgrees /\ EventsAreTrue /\ StopsAreTrue
      /\ StoppedSendsAreCancelled
  BY DEF DeliveryInv
<1>2. /\ task \in [Call -> TaskState] /\ \A c \in Call : task'[c] = IF c = t THEN to ELSE task[c]
  BY <1>1 DEF DeliveryTypeOK
<1>3. /\ post' \in [Call -> {"none", "request", "accepted", "refused"}]
      /\ \A c \in Call : post'[c] = IF c = t THEN post'[t] ELSE post[c]
  BY <1>1 DEF DeliveryTypeOK
<1>4. /\ stream' \in Seq(Event)
      /\ \A i \in DOMAIN stream' : \/ i \in DOMAIN stream /\ stream'[i] = stream[i]
                                   \/ stream'[i] = [task |-> t, type |-> to]
  BY <1>1, Publishing
<1>5. DeliveryTypeOK'
  BY <1>1, <1>2, <1>3, <1>4 DEF DeliveryTypeOK
<1>6. NetworkAgrees'
  BY <1>1, <1>2, <1>3 DEF NetworkAgrees
<1>7. EventsAreTrue'
  <2> SUFFICES ASSUME NEW i \in DOMAIN stream', stream'[i].type \in Terminal
               PROVE  task'[stream'[i].task] = stream'[i].type
    BY DEF EventsAreTrue
  <2>1. CASE i \in DOMAIN stream /\ stream'[i] = stream[i]
    <3>1. stream[i] \in Event
      <4>1. stream \in Seq(Event)
        BY <1>1 DEF DeliveryTypeOK
      <4>2. stream \in [1 .. Len(stream) -> Event] /\ DOMAIN stream = 1 .. Len(stream)
        BY <4>1, LenProperties
      <4> QED
        BY <2>1, <4>2
    <3>2. task[stream[i].task] = stream[i].type /\ stream[i].task \in Call
      BY <1>1, <2>1, <3>1 DEF EventsAreTrue, Event
    <3> QED
      BY <1>2, <2>1, <3>2
  <2>2. CASE stream'[i] = [task |-> t, type |-> to]
    BY <1>2, <2>2
  <2> QED
    BY <1>4, <2>1, <2>2
<1>8. StopsAreTrue'
  BY <1>1 DEF StopsAreTrue
<1>9. StoppedSendsAreCancelled'
  <2> SUFFICES ASSUME NEW c \in Call, KindOf[c] = "send", page.outcome[c] = "aborted"
               PROVE  post'[c] # "request" /\ task'[c] \in {"absent", "cancelled"}
    BY DEF StoppedSendsAreCancelled
  <2>1. post[c] # "request" /\ task[c] \in {"absent", "cancelled"}
    BY <1>1 DEF StoppedSendsAreCancelled
  <2>2. c # t
    BY <2>1 DEF Terminal
  <2> QED
    BY <1>2, <1>3, <2>1, <2>2
<1> QED
  BY <1>1, <1>5, <1>6, <1>7, <1>8, <1>9, NothingSettles DEF DeliveryInv

LEMMA AcceptKeeps ==
  ASSUME DeliveryInv, NEW c \in Call, ServerAccepts(c)
  PROVE  DeliveryInv' /\ CallsSettle
<1>1. /\ DeliveryTypeOK /\ task[c] = "absent" /\ post[c] = "request"
  BY DEF DeliveryInv, NetworkAgrees, ServerAccepts
<1>2. post' = [post EXCEPT ![c] = "accepted"] /\ post'[c] # "request"
  BY <1>1 DEF ServerAccepts, DeliveryTypeOK
<1>3. "queued" \in TaskState \ {"absent"} /\ task[c] \notin Terminal
  BY <1>1 DEF TaskState, Terminal
<1> QED
  BY <1>1, <1>2, <1>3, TaskMoves DEF ServerAccepts

LEMMA MoveKeeps ==
  ASSUME DeliveryInv, NEW c \in Call, NEW from \in {"queued", "running"},
         NEW to \in {"running", "completed", "failed", "cancelled"}, ServerMoves(c, from, to)
  PROVE  DeliveryInv' /\ CallsSettle
<1>1. task[c] \notin Terminal /\ task[c] # "absent" /\ post' = post /\ to \in TaskState \ {"absent"}
  BY DEF ServerMoves, Terminal, TaskState
<1>2. post[c] # "request"
  BY <1>1 DEF DeliveryInv, NetworkAgrees
<1> QED
  BY <1>1, <1>2, TaskMoves DEF ServerMoves

LEMMA RefuseKeeps ==
  ASSUME DeliveryInv, NEW c \in Call, ServerRefuses(c)
  PROVE  DeliveryInv' /\ CallsSettle
<1>1. /\ DeliveryTypeOK /\ NetworkAgrees /\ StoppedSendsAreCancelled /\ post[c] = "request"
      /\ UNCHANGED <<page, conn, subscribed, stream, task, stop>>
  BY DEF DeliveryInv, ServerRefuses
<1>2. /\ post' \in [Call -> {"none", "request", "accepted", "refused"}]
      /\ \A d \in Call : post'[d] = IF d = c THEN "refused" ELSE post[d]
  BY <1>1 DEF ServerRefuses, DeliveryTypeOK
<1>3. DeliveryTypeOK'
  BY <1>1, <1>2 DEF DeliveryTypeOK
<1>4. NetworkAgrees' /\ StoppedSendsAreCancelled'
  BY <1>1, <1>2 DEF NetworkAgrees, StoppedSendsAreCancelled
<1>5. EventsAreTrue' /\ StopsAreTrue' /\ PageInv(page')
  BY <1>1 DEF DeliveryInv, EventsAreTrue, StopsAreTrue
<1> QED
  BY <1>1, <1>3, <1>4, <1>5, NothingSettles DEF DeliveryInv

LEMMA StreamKeeps ==
  ASSUME DeliveryInv, NEW c \in Call, ServerStreams(c)
  PROVE  DeliveryInv' /\ CallsSettle
<1>1. /\ DeliveryTypeOK /\ NetworkAgrees /\ EventsAreTrue /\ StopsAreTrue /\ StoppedSendsAreCancelled
      /\ UNCHANGED <<page, conn, subscribed, task, post, stop>> /\ Publishes(c, "delta")
  BY DEF DeliveryInv, ServerStreams
<1>2. /\ stream' \in Seq(Event)
      /\ \A i \in DOMAIN stream' : \/ i \in DOMAIN stream /\ stream'[i] = stream[i]
                                   \/ stream'[i] = [task |-> c, type |-> "delta"]
  BY <1>1, Publishing
<1>3. DeliveryTypeOK'
  BY <1>1, <1>2 DEF DeliveryTypeOK
<1>4. EventsAreTrue'
  BY <1>1, <1>2 DEF EventsAreTrue, Terminal
<1>5. NetworkAgrees' /\ StopsAreTrue' /\ StoppedSendsAreCancelled' /\ PageInv(page')
  BY <1>1 DEF DeliveryInv, NetworkAgrees, StopsAreTrue, StoppedSendsAreCancelled
<1> QED
  BY <1>1, <1>3, <1>4, <1>5, NothingSettles DEF DeliveryInv

(* The connection.                                                         *)

\* What is in flight is gone; the page and the server are as they were.
LEMMA ConnectionKeeps ==
  ASSUME DeliveryInv, UNCHANGED <<page, task, post, stop>>, stream' = stream \/ stream' = <<>>,
         conn' \in {"none", "connecting", "open", "gap", "closed"}, subscribed' \in BOOLEAN
  PROVE  DeliveryInv' /\ CallsSettle
<1>1. /\ DeliveryTypeOK /\ NetworkAgrees /\ EventsAreTrue /\ StopsAreTrue /\ StoppedSendsAreCancelled
      /\ PageInv(page')
  BY DEF DeliveryInv
<1>e. <<>> \in Seq(Event)
  BY EmptySeq
<1>2. stream' \in Seq(Event)
  BY <1>1, <1>e DEF DeliveryTypeOK
<1>3. DeliveryTypeOK'
  BY <1>1, <1>2 DEF DeliveryTypeOK
<1>4. EventsAreTrue'
  BY <1>1 DEF EventsAreTrue
<1>5. NetworkAgrees' /\ StopsAreTrue' /\ StoppedSendsAreCancelled'
  BY <1>1 DEF NetworkAgrees, StopsAreTrue, StoppedSendsAreCancelled
<1> QED
  BY <1>1, <1>3, <1>4, <1>5, NothingSettles DEF DeliveryInv

LEMMA OnErrorUnopenedKeeps ==
  ASSUME DeliveryInv, OnErrorUnopened
  PROVE  DeliveryInv' /\ CallsSettle
<1>1. /\ DeliveryTypeOK /\ PageInv(page) /\ NetworkAgrees /\ StoppedSendsAreCancelled /\ CallsInOrder(page)
      /\ conn' = "none" /\ subscribed' = FALSE /\ stream' = <<>> /\ UNCHANGED <<task, post, stop>>
  BY DEF DeliveryInv, OnErrorUnopened, PageInv
<1>2. PICK C \in SUBSET Call : C = Waiting
  BY DEF Waiting
<1>3. C = {c \in Call : page.stage[c] = "connecting"}
  BY <1>2 DEF Waiting
<1>4. page' = Refused(page, C)
  BY <1>2 DEF OnErrorUnopened, Refused
<1>5. /\ PageInv(page') /\ page'.sub = page.sub /\ page'.bound = page.bound
      /\ \A d \in Call : page'.stage[d] = IF d \in C THEN "done" ELSE page.stage[d]
      /\ \A d \in Call : page'.outcome[d] = IF d \in C THEN "unconnected" ELSE page.outcome[d]
  BY <1>1, <1>3, <1>4, RefusalKeeps
<1>e. <<>> \in Seq(Event)
  BY EmptySeq
<1>6. DeliveryTypeOK'
  BY <1>1, <1>e DEF DeliveryTypeOK
<1>7. NetworkAgrees' /\ StopsAreTrue'
  BY <1>1, <1>5, NetworkKeeps
<1>8. EventsAreTrue'
  BY <1>1 DEF EventsAreTrue
<1>9. StoppedSendsAreCancelled'
  BY <1>1, <1>5 DEF StoppedSendsAreCancelled
<1>10. CallsSettle
  <2>1. \A c \in C : page.outcome[c] = "none"
    BY <1>1, <1>3 DEF CallsInOrder
  <2> QED
    BY <1>5, <2>1 DEF CallsSettle
<1> QED
  BY <1>5, <1>6, <1>7, <1>8, <1>9, <1>10 DEF DeliveryInv

\* The registration of the calls of C, which had not been sent: the post carries
\* what the page has sent.
LEMMA JoinKeeps ==
  ASSUME DeliveryInv, NEW C \in SUBSET Call, \A c \in C : page.stage[c] \in {"idle", "connecting"},
         PageInv(page'), \A c \in Call : Registers(page, page', C, c), post' = Submitted(page'),
         conn' \in {"none", "connecting", "open", "gap", "closed"},
         UNCHANGED <<subscribed, stream, task, stop>>
  PROVE  DeliveryInv' /\ CallsSettle
<1>1. /\ DeliveryTypeOK /\ NetworkAgrees /\ EventsAreTrue /\ StoppedSendsAreCancelled /\ CallsInOrder(page)
      /\ page.outcome \in [Call -> Outcome]
  BY DEF DeliveryInv, PageInv, PageType
<1>2. \A c \in Call : post'[c] = IF page'.sub[c] = "sent" /\ page.sub[c] = "none" THEN "request" ELSE post[c]
  BY DEF Submitted
<1>3. post' \in [Call -> {"none", "request", "accepted", "refused"}]
  BY <1>1 DEF Submitted, DeliveryTypeOK
<1>4. \A c \in C : c \in Call /\ page.outcome[c] = "none" /\ page.sub[c] = "none"
  BY <1>1 DEF CallsInOrder
<1>5. \A c \in C : /\ page'.stage[c] \in {"registered", "done"} /\ page'.sub[c] # "none"
                   /\ page'.outcome[c] \in {"none", "aborted"}
                   /\ page'.outcome[c] = "aborted" /\ KindOf[c] = "send" => page'.sub[c] = "rejected"
  BY <1>4 DEF Registers
<1>6. \A c \in Call \ C :
        /\ page'.stage[c] = page.stage[c] \/ (page.stage[c] = "registered" /\ page'.stage[c] = "done")
        /\ page'.sub[c] = page.sub[c] /\ page'.outcome[c] = page.outcome[c]
  BY DEF Registers
<1>7. DeliveryTypeOK'
  BY <1>1, <1>3 DEF DeliveryTypeOK
<1>8. NetworkAgrees' /\ StopsAreTrue'
  <2>1. ASSUME NEW c \in Call
        PROVE  /\ page.stage[c] \in {"registered", "done"} => page'.stage[c] \in {"registered", "done"}
               /\ page'.sub[c] = "none" => page.sub[c] = "none" /\ post'[c] = post[c]
               /\ post'[c] = "request" => post[c] = "request" \/ page.sub[c] = "none"
    BY <1>2, <1>5, <1>6
  <2> QED
    BY <2>1, NetworkKeeps
<1>9. EventsAreTrue'
  BY <1>1 DEF EventsAreTrue
<1>10. StoppedSendsAreCancelled'
  <2> SUFFICES ASSUME NEW c \in Call, KindOf[c] = "send", page'.outcome[c] = "aborted"
               PROVE  post'[c] # "request" /\ task[c] \in {"absent", "cancelled"}
    BY DEF StoppedSendsAreCancelled
  <2>1. CASE c \in C
    <3>1. page'.sub[c] = "rejected" /\ post[c] = "none" /\ task[c] = "absent"
      BY <1>1, <1>4, <1>5, <2>1 DEF NetworkAgrees
    <3> QED
      BY <1>2, <3>1
  <2>2. CASE c \notin C
    <3>1. page.outcome[c] = "aborted" /\ page'.sub[c] = page.sub[c]
      BY <1>6, <2>2
    <3> QED
      BY <1>1, <1>2, <3>1 DEF StoppedSendsAreCancelled
  <2> QED
    BY <2>1, <2>2
<1>11. CallsSettle
  BY <1>4, <1>5, <1>6 DEF CallsSettle
<1> QED
  BY <1>7, <1>8, <1>9, <1>10, <1>11 DEF DeliveryInv

LEMMA OnOpenKeeps ==
  ASSUME DeliveryInv, OnOpen
  PROVE  DeliveryInv' /\ CallsSettle
<1>1. /\ PageInv(page) /\ post' = Submitted(page') /\ conn' = "open"
      /\ UNCHANGED <<subscribed, stream, task, stop>>
  BY DEF DeliveryInv, OnOpen
<1>2. PICK C \in SUBSET Call : C = Waiting
  BY DEF Waiting
<1>3. \A c \in C : page.stage[c] = "connecting"
  BY <1>2 DEF Waiting
<1>4. page' = Register(page, C)
  BY <1>2 DEF OnOpen, Registered
<1>5. PageInv(page') /\ \A d \in Call : Registers(page, page', C, d)
  BY <1>1, <1>3, <1>4, RegisterKeeps
<1>6. \A c \in C : page.stage[c] \in {"idle", "connecting"}
  BY <1>3
<1> QED
  BY <1>1, <1>5, <1>6, JoinKeeps

(* Calls and their submissions.                                            *)

\* The conditions under which the page lets the user begin a call are those
\* under which it can be the only one of its key.
LEMMA MayBeginStarts ==
  ASSUME NEW c \in Call, MayBegin(c)
  PROVE  MayStart(page, c)
<1>1. page.stage[c] = "idle" /\ KindOf[c] \in {"send", "retry", "structure"}
  BY DeliveryAssumption DEF MayBegin
<1>2. ASSUME IsChat(c), NEW d \in Call, NodeOf[d] = NodeOf[c], d < c PROVE page.stage[d] = "done"
  <2>1. CASE KindOf[c] = "send"
    <3>1. c <= d /\ c \in Nat /\ d \in Nat
      BY <1>2, <2>1, DeliveryAssumption
    <3> QED
      BY <1>2, <3>1
  <2>2. CASE KindOf[c] = "retry"
    BY <1>2, <2>2 DEF MayBegin
  <2> QED
    BY <1>1, <1>2, <2>1, <2>2 DEF IsChat
<1>3. ASSUME ~IsChat(c), NEW d \in Call, KeyOf(d) = KeyOf(c) PROVE page.stage[d] \in {"idle", "done"}
  BY <1>3 DEF MayBegin, IsChat
<1> QED
  BY <1>1, <1>2, <1>3 DEF MayStart

LEMMA BeginKeeps ==
  ASSUME DeliveryInv, NEW c \in Call, Begin(c)
  PROVE  DeliveryInv' /\ CallsSettle
<1> DEFINE in == Starts(page, c)
<1>1. /\ PageInv(page) /\ DeliveryTypeOK /\ MayStart(page, c) /\ page.stage[c] = "idle"
      /\ post' = Submitted(page') /\ UNCHANGED <<subscribed, stream, task, stop>>
      /\ conn' \in {"none", "connecting", "open", "gap", "closed"}
  BY MayBeginStarts DEF DeliveryInv, Begin, MayStart, DeliveryTypeOK
<1>2. /\ PageInv(in) /\ in.outcome = page.outcome /\ in.sub = page.sub /\ in.bound = page.bound
      /\ in.aborted = page.aborted
      /\ \A d \in Call : in.stage[d] = IF d = c THEN "connecting" ELSE page.stage[d]
  BY <1>1, StartKeeps
<1>3. page' = IF Opened THEN Register(in, {c}) ELSE in
  BY DEF Begin, Starts
<1> HIDE DEF in
<1>4. CASE Opened
  <2>1. PageInv(page') /\ \A d \in Call : Registers(in, page', {c}, d)
    BY <1>2, <1>3, <1>4, RegisterKeeps
  <2>2. \A d \in Call : Registers(page, page', {c}, d)
    BY <1>2, <2>1 DEF Registers
  <2>3. \A d \in {c} : page.stage[d] \in {"idle", "connecting"}
    BY <1>1
  <2>4. {c} \in SUBSET Call
    OBVIOUS
  <2> QED
    BY <1>1, <2>1, <2>2, <2>3, <2>4, JoinKeeps
<1>5. CASE ~Opened
  <2>1. page' = in /\ PageInv(page')
    BY <1>2, <1>3, <1>5
  <2>2. /\ NetworkAgrees /\ EventsAreTrue /\ StoppedSendsAreCancelled
        /\ post \in [Call -> {"none", "request", "accepted", "refused"}]
    BY <1>1 DEF DeliveryInv, DeliveryTypeOK
  <2>3. post' = post
    BY <1>1, <1>2, <2>1, <2>2 DEF Submitted
  <2>4. DeliveryTypeOK'
    BY <1>1, <2>3 DEF DeliveryTypeOK
  <2>5. NetworkAgrees' /\ StopsAreTrue'
    BY <1>1, <1>2, <2>1, <2>3, NetworkKeeps
  <2>6. EventsAreTrue' /\ StoppedSendsAreCancelled' /\ CallsSettle
    BY <1>1, <1>2, <2>1, <2>2, <2>3 DEF EventsAreTrue, StoppedSendsAreCancelled, CallsSettle
  <2> QED
    BY <2>1, <2>4, <2>5, <2>6 DEF DeliveryInv
<1> QED
  BY <1>4, <1>5

\* An event settles a call only with what it says, and says what has become of
\* the task: the cancelled task of an aborted question is its own.
LEMMA DeliverKeeps ==
  ASSUME DeliveryInv, Deliver
  PROVE  DeliveryInv' /\ CallsSettle
<1>1. /\ DeliveryTypeOK /\ PageInv(page) /\ NetworkAgrees /\ EventsAreTrue /\ StoppedSendsAreCancelled
      /\ UNCHANGED <<conn, subscribed, task, post, stop>>
      /\ stream \in Seq(Event) /\ stream # <<>> /\ stream' = Tail(stream)
  BY DEF DeliveryInv, Deliver, DeliveryTypeOK
<1>2. /\ Head(stream) \in Event /\ stream' \in Seq(Event) /\ Len(stream') = Len(stream) - 1
      /\ \A i \in 1 .. Len(stream') : stream'[i] = stream[i + 1]
  BY <1>1, HeadTailProperties
<1>3. /\ DOMAIN stream = 1 .. Len(stream) /\ DOMAIN stream' = 1 .. Len(stream')
      /\ Len(stream) \in Nat /\ Len(stream') \in Nat
  BY <1>1, <1>2, LenProperties
<1>4. PICK e \in Event : e = Head(stream)
  BY <1>2
<1>5. e.type \in Terminal => task[e.task] = e.type
  <2>1. Head(stream) = stream[1] /\ 1 \in DOMAIN stream
    BY <1>1, <1>2, <1>3
  <2> QED
    BY <1>1, <1>4, <2>1 DEF EventsAreTrue
<1>6. page' = Handle(page, e)
  BY <1>4 DEF Deliver
<1>7. PageInv(page') /\ \A d \in Call : MovesOn(page, page', d) /\ SettledBy(page, page', d, e)
  BY <1>1, <1>6, HandleKeeps
<1>8. e.task \in Call
  BY DEF Event
<1>9. DeliveryTypeOK'
  BY <1>1, <1>2 DEF DeliveryTypeOK
<1>10. NetworkAgrees' /\ StopsAreTrue'
  BY <1>1, <1>7, NetworkKeeps DEF MovesOn
<1>11. EventsAreTrue'
  <2> SUFFICES ASSUME NEW i \in DOMAIN stream', stream'[i].type \in Terminal
               PROVE  task[stream'[i].task] = stream'[i].type
    BY <1>1 DEF EventsAreTrue
  <2>1. i + 1 \in DOMAIN stream /\ stream'[i] = stream[i + 1]
    BY <1>2, <1>3
  <2> QED
    BY <1>1, <2>1 DEF EventsAreTrue
<1>12. StoppedSendsAreCancelled'
  <2> SUFFICES ASSUME NEW c \in Call, KindOf[c] = "send", page'.outcome[c] = "aborted"
               PROVE  post[c] # "request" /\ task[c] \in {"absent", "cancelled"}
    BY <1>1 DEF StoppedSendsAreCancelled
  <2>1. CASE page.outcome[c] # "none"
    BY <1>1, <1>7, <2>1 DEF MovesOn, StoppedSendsAreCancelled
  <2>2. CASE page.outcome[c] = "none"
    <3>1. /\ page.stage[c] = "registered" /\ KeyOf(e.task) = KeyOf(c) /\ e.type \in Terminal
          /\ EndOf(e.type) = "aborted"
      BY <1>7, <2>2 DEF SettledBy
    <3>2. task[e.task] = "cancelled"
      BY <1>5, <3>1 DEF EndOf, Terminal
    <3>3. e.task = c
      BY <1>8, <3>1, <3>2, OnlyTask
    <3> QED
      BY <1>1, <3>2, <3>3 DEF NetworkAgrees
  <2> QED
    BY <2>1, <2>2
<1>13. CallsSettle
  <2> SUFFICES ASSUME NEW c \in Call
               PROVE  IF page.outcome[c] # "none" THEN page'.outcome[c] = page.outcome[c]
                      ELSE page'.outcome[c] \in {"answer", "failed"} =>
                             /\ KeyOf(page'.bound[c]) = KeyOf(c)
                             /\ page'.outcome[c] = EndOf(task[page'.bound[c]])
    BY DEF CallsSettle
  <2>1. CASE page.outcome[c] # "none"
    BY <1>7, <2>1 DEF MovesOn
  <2>2. CASE page.outcome[c] = "none"
    BY <1>5, <1>7, <2>2 DEF SettledBy
  <2> QED
    BY <2>1, <2>2
<1> QED
  BY <1>7, <1>9, <1>10, <1>11, <1>12, <1>13 DEF DeliveryInv

\* The fetch of a call comes back.
LEMMA SubKeeps ==
  ASSUME NEW p, PageInv(p), NEW c \in Call, p.sub[c] = "sent", NEW s \in {"rejected", "task"}
  PROVE  LET q == [p EXCEPT !.sub[c] = s]
         IN  /\ PageInv(q) /\ q.stage = p.stage /\ q.outcome = p.outcome /\ q.bound = p.bound
             /\ p.stage[c] \in {"registered", "done"}
             /\ \A d \in Call : q.sub[d] = IF d = c THEN s ELSE p.sub[d]
<1> DEFINE sub == [p.sub EXCEPT ![c] = s]
           q == [p EXCEPT !.sub = sub]
<1>1. /\ p \in PageType /\ DispatcherAgrees(p) /\ HookAgrees(p) /\ CallsInOrder(p) /\ CallsInTurn(p)
  BY DEF PageInv
<1>2. sub \in [Call -> {"none", "sent", "rejected", "task"}] /\ \A d \in Call : sub[d] = IF d = c THEN s ELSE p.sub[d]
  BY <1>1 DEF PageType
<1>3. [p EXCEPT !.sub[c] = s] = q
  BY <1>1 DEF PageType
<1> HIDE DEF sub
<1>4. /\ q \in PageType /\ q.stage = p.stage /\ q.outcome = p.outcome /\ q.bound = p.bound /\ q.sub = sub
      /\ q.byKey = p.byKey /\ q.byTask = p.byTask /\ q.controller = p.controller
      /\ q.submission = p.submission
  BY <1>1, <1>2 DEF PageType
<1> HIDE DEF q
<1>5. p.stage[c] \in {"registered", "done"}
  BY <1>1 DEF PageType, CallsInOrder
<1>6. DispatcherAgrees(q)
  BY <1>1, <1>4 DEF DispatcherAgrees, PendingIn
<1>7. HookAgrees(q)
  BY <1>1, <1>4, HookStands
<1>8. CallsInOrder(q)
  BY <1>1, <1>2, <1>4, <1>5 DEF CallsInOrder
<1>9. CallsInTurn(q)
  BY <1>1, <1>4 DEF CallsInTurn, ActiveIn
<1>10. PageInv(q)
  BY <1>4, <1>6, <1>7, <1>8, <1>9 DEF PageInv
<1> QED
  BY <1>2, <1>3, <1>4, <1>5, <1>10

\* A submission is answered or fails: the call may settle, as a conflict or as
\* refused, and the stop that awaits it goes on or ends.
LEMMA AnswerKeeps ==
  ASSUME DeliveryInv, NEW c \in Call, NEW mid, NEW how \in {"conflict", "refused"},
         PageInv(mid), page' = Finally(mid),
         \A d \in Call : /\ mid.stage[d] = page.stage[d]
                         /\ mid.sub[d] = page.sub[d] \/ mid.sub[d] # "none"
                         /\ mid.outcome[d] = page.outcome[d] \/ (page.outcome[d] = "none" /\ mid.outcome[d] = how),
         \A d \in Call : post'[d] = post[d] \/ (post'[d] = "none" /\ mid.sub[d] # "none"),
         post' \in [Call -> {"none", "request", "accepted", "refused"}],
         NEW next \in {NoStop, [phase |-> "cancelling", task |-> c]}, stop' = StopAfter(c, next),
         UNCHANGED <<conn, subscribed, stream, task>>
  PROVE  DeliveryInv' /\ CallsSettle
<1>1. /\ DeliveryTypeOK /\ NetworkAgrees /\ EventsAreTrue /\ StoppedSendsAreCancelled /\ StopsAreTrue
      /\ mid \in PageType /\ None \notin Call
  BY Keys DEF DeliveryInv, PageInv
<1>2. /\ PageInv(page')
      /\ page'.outcome = mid.outcome /\ page'.sub = mid.sub
      /\ \A d \in Call : page'.stage[d] = IF d \in Over(mid) THEN "done" ELSE mid.stage[d]
  BY <1>1, Finishing, FinallyKeeps
<1>3. ASSUME NEW n \in Node
      PROVE  /\ stop'[n] \in [phase : {"none", "waits", "cancelling", "answered"}, task : Call \cup {None}]
             /\ stop'[n].phase # "none" => stop[n].phase # "none" /\ stop'[n].task = stop[n].task
  <2>1. stop[n] \in [phase : {"none", "waits", "cancelling", "answered"}, task : Call \cup {None}]
    BY <1>1 DEF DeliveryTypeOK
  <2>2. stop'[n] = IF stop[n] = [phase |-> "waits", task |-> c] THEN next ELSE stop[n]
    BY DEF StopAfter
  <2>3. /\ next \in [phase : {"none", "waits", "cancelling", "answered"}, task : Call \cup {None}]
        /\ next.phase # "none" => next.task = c
    BY DEF NoStop
  <2>4. CASE stop[n] = [phase |-> "waits", task |-> c]
    <3>1. stop[n].phase = "waits" /\ stop[n].task = c /\ stop'[n] = next
      BY <2>2, <2>4
    <3> QED
      BY <2>3, <3>1
  <2>5. CASE stop[n] # [phase |-> "waits", task |-> c]
    BY <2>1, <2>2, <2>5
  <2> QED
    BY <2>4, <2>5
<1>4. DeliveryTypeOK'
  <2>1. stop' \in [Node -> [phase : {"none", "waits", "cancelling", "answered"}, task : Call \cup {None}]]
    BY <1>3 DEF StopAfter
  <2> QED
    BY <1>1, <2>1 DEF DeliveryTypeOK
<1>5. NetworkAgrees' /\ StopsAreTrue'
  <2>1. ASSUME NEW d \in Call
        PROVE  /\ page.stage[d] \in {"registered", "done"} => page'.stage[d] \in {"registered", "done"}
               /\ page'.sub[d] = "none" => page.sub[d] = "none" /\ post'[d] = post[d]
               /\ post'[d] = "request" => post[d] = "request" \/ page.sub[d] = "none"
    BY <1>2
  <2> QED
    BY <1>3, <2>1, NetworkKeeps
<1>6. EventsAreTrue'
  BY <1>1 DEF EventsAreTrue
<1>7. StoppedSendsAreCancelled'
  <2> SUFFICES ASSUME NEW d \in Call, KindOf[d] = "send", page'.outcome[d] = "aborted"
               PROVE  post'[d] # "request" /\ task[d] \in {"absent", "cancelled"}
    BY DEF StoppedSendsAreCancelled
  <2>1. page.outcome[d] = "aborted"
    BY <1>2
  <2> QED
    BY <1>1, <2>1 DEF StoppedSendsAreCancelled
<1>8. CallsSettle
  BY <1>2 DEF CallsSettle
<1> QED
  BY <1>2, <1>4, <1>5, <1>6, <1>7, <1>8 DEF DeliveryInv

LEMMA PostReturnsKeeps ==
  ASSUME DeliveryInv, NEW c \in Call, PostReturns(c)
  PROVE  DeliveryInv' /\ CallsSettle
<1>1. /\ PageInv(page) /\ DeliveryTypeOK /\ page.sub[c] = "sent"
      /\ stop' = StopAfter(c, [phase |-> "cancelling", task |-> c])
      /\ UNCHANGED <<conn, subscribed, stream, task>>
  BY DEF DeliveryInv, PostReturns
<1>2. PICK back : back = [page EXCEPT !.sub[c] = "task"]
  OBVIOUS
<1>3. /\ PageInv(back) /\ back.stage = page.stage /\ back.outcome = page.outcome
      /\ page.stage[c] \in {"registered", "done"}
      /\ \A d \in Call : back.sub[d] = IF d = c THEN "task" ELSE page.sub[d]
  BY <1>1, <1>2, SubKeeps
<1>4. PICK mid : mid = Bind(back, c, c, "queued")
  OBVIOUS
<1>5. /\ PageInv(mid) /\ mid.stage = back.stage /\ mid.sub = back.sub
      /\ \A d \in Call : mid.outcome[d] = back.outcome[d] \/ (back.outcome[d] = "none" /\ mid.outcome[d] = "conflict")
  <2>1. "queued" \in TaskState
    BY DEF TaskState
  <2> QED
    BY <1>3, <1>4, <2>1, BindKeeps
<1>6. page' = Finally(mid)
  BY <1>2, <1>4 DEF PostReturns
<1>7. /\ post' \in [Call -> {"none", "request", "accepted", "refused"}]
      /\ \A d \in Call : post'[d] = IF d = c THEN "none" ELSE post[d]
  BY <1>1 DEF PostReturns, DeliveryTypeOK
<1>8. \A d \in Call : post'[d] = post[d] \/ (post'[d] = "none" /\ mid.sub[d] # "none")
  BY <1>3, <1>5, <1>7
<1>9. \A d \in Call : /\ mid.stage[d] = page.stage[d]
                      /\ mid.sub[d] = page.sub[d] \/ mid.sub[d] # "none"
                      /\ mid.outcome[d] = page.outcome[d] \/ (page.outcome[d] = "none" /\ mid.outcome[d] = "conflict")
  BY <1>3, <1>5
<1>10. PICK next \in {NoStop, [phase |-> "cancelling", task |-> c]} : stop' = StopAfter(c, next)
  BY <1>1
<1> QED
  BY <1>1, <1>5, <1>6, <1>7, <1>8, <1>9, <1>10, AnswerKeeps

LEMMA PostFailsKeeps ==
  ASSUME DeliveryInv, NEW c \in Call, PostFails(c)
  PROVE  DeliveryInv' /\ CallsSettle
<1>1. /\ PageInv(page) /\ DeliveryTypeOK /\ page.sub[c] = "sent" /\ stop' = StopAfter(c, NoStop)
      /\ UNCHANGED <<conn, subscribed, stream, task>>
  BY DEF DeliveryInv, PostFails
<1>2. PICK back : back = [page EXCEPT !.sub[c] = "rejected"]
  OBVIOUS
<1>3. /\ PageInv(back) /\ back.stage = page.stage /\ back.outcome = page.outcome
      /\ page.stage[c] \in {"registered", "done"}
      /\ \A d \in Call : back.sub[d] = IF d = c THEN "rejected" ELSE page.sub[d]
  BY <1>1, <1>2, SubKeeps
<1>4. PICK mid : mid = Settle(back, c, "refused")
  OBVIOUS
<1>5. /\ PageInv(mid) /\ mid.stage = back.stage /\ mid.sub = back.sub
      /\ \A d \in Call : mid.outcome[d] = back.outcome[d] \/ (back.outcome[d] = "none" /\ mid.outcome[d] = "refused")
  <2>1. CASE back.outcome[c] # "none"
    <3>1. mid = back
      BY <1>4, <2>1 DEF Settle
    <3> QED
      BY <1>3, <3>1
  <2>2. CASE back.outcome[c] = "none"
    <3>1. /\ back \in PageType /\ "refused" \in Outcome /\ back.stage[c] = "registered"
          /\ "refused" \in Outcome \ {"none", "busy"}
      BY <1>3, <2>2 DEF PageInv, CallsInOrder, Outcome
    <3>2. PageInv(mid)
      BY <1>3, <1>4, <3>1, SettleKeeps
    <3>3. /\ mid.stage = back.stage /\ mid.sub = back.sub
          /\ \A d \in Call : mid.outcome[d] = IF d = c THEN "refused" ELSE back.outcome[d]
      BY <1>4, <2>2, <3>1, Settling
    <3> QED
      BY <2>2, <3>2, <3>3
  <2> QED
    BY <2>1, <2>2
<1>6. page' = Finally(mid)
  BY <1>2, <1>4 DEF PostFails
<1>7. PICK left \in {"none"} \cup ({post[c]} \cap {"request"}) : post' = [post EXCEPT ![c] = left]
  BY DEF PostFails
<1>8. /\ post' \in [Call -> {"none", "request", "accepted", "refused"}]
      /\ \A d \in Call : post'[d] = post[d] \/ (post'[d] = "none" /\ d = c)
  BY <1>1, <1>7 DEF DeliveryTypeOK
<1>9. \A d \in Call : post'[d] = post[d] \/ (post'[d] = "none" /\ mid.sub[d] # "none")
  BY <1>3, <1>5, <1>8
<1>10. \A d \in Call : /\ mid.stage[d] = page.stage[d]
                       /\ mid.sub[d] = page.sub[d] \/ mid.sub[d] # "none"
                       /\ mid.outcome[d] = page.outcome[d] \/ (page.outcome[d] = "none" /\ mid.outcome[d] = "refused")
  BY <1>3, <1>5
<1>11. PICK next \in {NoStop, [phase |-> "cancelling", task |-> c]} : stop' = StopAfter(c, next)
  BY <1>1
<1> QED
  BY <1>1, <1>5, <1>6, <1>8, <1>9, <1>10, <1>11, AnswerKeeps

(* The stop button.                                                        *)

\* With a submission under way the stop waits for it or for the task; without one
\* the chat of the node has not registered, and its abort settles nobody.
LEMMA PressStopKeeps ==
  ASSUME DeliveryInv, NEW n \in Node, PressStop(n)
  PROVE  DeliveryInv' /\ CallsSettle
<1>1. /\ DeliveryTypeOK /\ PageInv(page) /\ NetworkAgrees /\ EventsAreTrue /\ StopsAreTrue
      /\ StoppedSendsAreCancelled /\ HookAgrees(page)
      /\ page \in PageType /\ page.controller[n] \in Call \cup {None} /\ page.submission[n] \in Call \cup {None}
      /\ page.controller[n] # None /\ UNCHANGED <<conn, subscribed, stream, task, post>>
  BY DEF DeliveryInv, PageInv, PageType, PressStop
<1>2. CASE page.submission[n] = None
  <2>1. stop' = stop /\ page' = Abort(page, page.controller[n])
    BY <1>2 DEF PressStop
  <2>2. PICK c \in Call : c = page.controller[n]
    BY <1>1
  <2>3. ActiveIn(page, c) /\ KeyOf(c) = <<n, TRUE>>
    BY <1>1, <2>2 DEF HookAgrees
  <2>4. page.stage[c] # "registered"
    <3>1. IsChat(c) /\ NodeOf[c] = n
      BY <2>3, Keys
    <3> QED
      BY <1>1, <1>2, <2>2, <2>3, <3>1, Keys DEF HookAgrees
  <2>5. /\ PageInv(page') /\ page'.outcome = page.outcome
        /\ \A d \in Call : /\ page'.stage[d] = page.stage[d] \/ (page.stage[d] = "registered" /\ page'.stage[d] = "done")
                           /\ page'.sub[d] = page.sub[d] \/ (page.sub[d] = "sent" /\ page'.sub[d] = "rejected")
    <3>1. page' = Abort(page, c)
      BY <2>1, <2>2
    <3>2. /\ PageInv(page')
          /\ \A d \in Call : page'.outcome[d] = page.outcome[d]
          /\ \A d \in Call : /\ page'.stage[d] = page.stage[d] \/ (page.stage[d] = "registered" /\ page'.stage[d] = "done")
                             /\ page'.sub[d] = page.sub[d] \/ (page.sub[d] = "sent" /\ page'.sub[d] = "rejected")
      BY <1>1, <2>3, <2>4, <3>1, AbortKeeps
    <3>3. page'.outcome \in [Call -> Outcome] /\ page.outcome \in [Call -> Outcome]
      BY <1>1, <3>2 DEF PageInv, PageType
    <3> QED
      BY <3>2, <3>3
  <2>6. DeliveryTypeOK'
    BY <1>1, <2>1 DEF DeliveryTypeOK
  <2>7. NetworkAgrees' /\ StopsAreTrue'
    BY <1>1, <2>1, <2>5, NetworkKeeps
  <2>8. EventsAreTrue' /\ StoppedSendsAreCancelled' /\ CallsSettle
    BY <1>1, <2>5 DEF EventsAreTrue, StoppedSendsAreCancelled, CallsSettle
  <2> QED
    BY <2>5, <2>6, <2>7, <2>8 DEF DeliveryInv
<1>3. CASE page.submission[n] # None
  <2>1. PICK c \in Call : c = page.submission[n]
    BY <1>1, <1>3
  <2>2. /\ page' = page
        /\ stop' = [stop EXCEPT ![n] = [task |-> c,
                      phase |-> IF page.sub[c] = "sent" THEN "waits" ELSE "cancelling"]]
    BY <1>3, <2>1 DEF PressStop
  <2>3. KeyOf(c) = <<n, TRUE>> /\ page.stage[c] = "registered"
    BY <1>1, <1>3, <2>1 DEF HookAgrees
  <2>4. /\ stop' \in [Node -> [phase : {"none", "waits", "cancelling", "answered"}, task : Call \cup {None}]]
        /\ \A m \in Node \ {n} : stop'[m] = stop[m]
        /\ stop'[n].task = c
    BY <1>1, <2>2 DEF DeliveryTypeOK
  <2>5. DeliveryTypeOK'
    BY <1>1, <2>4 DEF DeliveryTypeOK
  <2>6. StopsAreTrue'
    BY <1>1, <2>2, <2>3, <2>4 DEF StopsAreTrue
  <2>7. NetworkAgrees' /\ EventsAreTrue' /\ StoppedSendsAreCancelled' /\ PageInv(page')
    BY <1>1, <2>2 DEF NetworkAgrees, EventsAreTrue, StoppedSendsAreCancelled
  <2> QED
    BY <2>2, <2>5, <2>6, <2>7, NothingSettles DEF DeliveryInv
<1> QED
  BY <1>2, <1>3

\* The cancel of a task that is alive.
LEMMA CancelReachesKeeps ==
  ASSUME DeliveryInv, NEW n \in Node, CancelReaches(n)
  PROVE  DeliveryInv' /\ CallsSettle
<1>1. stop[n].task \in Call
  BY DEF DeliveryInv, StopsAreTrue, CancelReaches
<1>2. PICK t \in Call : t = stop[n].task
  BY <1>1
<1>3. PICK from \in {"queued", "running"} : ServerMoves(stop[n].task, from, "cancelled")
  BY DEF CancelReaches
<1>4. ServerMoves(t, from, "cancelled")
  BY <1>2, <1>3
<1> QED
  BY <1>4, MoveKeeps

\* A stop that is answered, or given up, or whose answer arrives.
LEMMA StopMoves ==
  ASSUME DeliveryInv, NEW n \in Node,
         stop' \in [Node -> [phase : {"none", "waits", "cancelling", "answered"}, task : Call \cup {None}]],
         \A m \in Node : stop'[m].phase # "none" => stop[m].phase # "none" /\ stop'[m].task = stop[m].task,
         page' = page, UNCHANGED <<conn, subscribed, stream, task, post>>
  PROVE  DeliveryInv' /\ CallsSettle
<1>1. /\ DeliveryTypeOK /\ PageInv(page') /\ EventsAreTrue /\ StoppedSendsAreCancelled
  BY DEF DeliveryInv
<1>2. DeliveryTypeOK'
  BY <1>1 DEF DeliveryTypeOK
<1>3. NetworkAgrees' /\ StopsAreTrue'
  BY <1>1, NetworkKeeps
<1>4. EventsAreTrue' /\ StoppedSendsAreCancelled'
  BY <1>1 DEF EventsAreTrue, StoppedSendsAreCancelled
<1> QED
  BY <1>1, <1>2, <1>3, <1>4, NothingSettles DEF DeliveryInv

LEMMA CancelAnswersKeeps ==
  ASSUME DeliveryInv, NEW n \in Node, CancelAnswers(n)
  PROVE  DeliveryInv' /\ CallsSettle
<1>1. /\ stop \in [Node -> [phase : {"none", "waits", "cancelling", "answered"}, task : Call \cup {None}]]
      /\ stop[n].phase = "cancelling" /\ stop' = [stop EXCEPT ![n].phase = "answered"]
      /\ page' = page /\ UNCHANGED <<conn, subscribed, stream, task, post>>
  BY DEF DeliveryInv, DeliveryTypeOK, CancelAnswers
<1>2. /\ stop' \in [Node -> [phase : {"none", "waits", "cancelling", "answered"}, task : Call \cup {None}]]
      /\ \A m \in Node : stop'[m].phase # "none" => stop[m].phase # "none" /\ stop'[m].task = stop[m].task
  BY <1>1
<1> QED
  BY <1>1, <1>2, StopMoves

\* What a stop leaves when it is over.
LEMMA StopEnds ==
  ASSUME DeliveryTypeOK, NEW n \in Node, stop' = [stop EXCEPT ![n] = NoStop]
  PROVE  /\ stop' \in [Node -> [phase : {"none", "waits", "cancelling", "answered"}, task : Call \cup {None}]]
         /\ \A m \in Node : stop'[m].phase # "none" => stop[m].phase # "none" /\ stop'[m].task = stop[m].task
<1>1. /\ NoStop \in [phase : {"none", "waits", "cancelling", "answered"}, task : Call \cup {None}]
      /\ NoStop.phase = "none"
  BY DEF NoStop
<1>2. stop \in [Node -> [phase : {"none", "waits", "cancelling", "answered"}, task : Call \cup {None}]]
  BY DEF DeliveryTypeOK
<1> QED
  BY <1>1, <1>2

LEMMA StopFailsKeeps ==
  ASSUME DeliveryInv, NEW n \in Node, StopFails(n)
  PROVE  DeliveryInv' /\ CallsSettle
<1>1. /\ DeliveryTypeOK /\ stop' = [stop EXCEPT ![n] = NoStop]
      /\ page' = page /\ UNCHANGED <<conn, subscribed, stream, task, post>>
  BY DEF DeliveryInv, StopFails
<1> QED
  BY <1>1, StopEnds, StopMoves

\* The answer aborts whatever chat the node has now: if that is a question, the
\* cancelled task is its own.
LEMMA StopReturnsKeeps ==
  ASSUME DeliveryInv, NEW n \in Node, StopReturns(n)
  PROVE  DeliveryInv' /\ CallsSettle
<1>1. /\ DeliveryTypeOK /\ PageInv(page) /\ NetworkAgrees /\ EventsAreTrue /\ StopsAreTrue
      /\ StoppedSendsAreCancelled /\ task \in [Call -> TaskState]
      /\ stop' = [stop EXCEPT ![n] = NoStop] /\ UNCHANGED <<conn, subscribed, stream, task, post>>
  BY DEF DeliveryInv, DeliveryTypeOK, StopReturns
<1>2. stop[n].task \in Call /\ KeyOf(stop[n].task) = <<n, TRUE>>
  BY <1>1 DEF StopsAreTrue, StopReturns
<1>3. PICK t \in Call : t = stop[n].task
  BY <1>2
<1>4. PICK s \in TaskState : s = task[t]
  BY <1>1
<1>5. PICK known : known = Publish(page, t, s)
  OBVIOUS
<1>6. /\ PageInv(known)
      /\ known.stage = page.stage /\ known.outcome = page.outcome /\ known.sub = page.sub
      /\ known.controller = page.controller
  BY <1>1, <1>5, PublishKeeps
<1>7. page' = IF s = "cancelled" /\ page.controller[n] # None THEN Abort(known, page.controller[n]) ELSE known
  BY <1>3, <1>4, <1>5 DEF StopReturns
<1>8. /\ PageInv(page')
      /\ \A d \in Call :
           /\ page'.stage[d] = page.stage[d] \/ (page.stage[d] = "registered" /\ page'.stage[d] = "done")
           /\ page'.sub[d] = page.sub[d] \/ (page.sub[d] = "sent" /\ page'.sub[d] = "rejected")
           /\ page'.outcome[d] = page.outcome[d]
                \/ (/\ page.stage[d] = "registered" /\ page.outcome[d] = "none" /\ page'.outcome[d] = "aborted"
                    /\ KeyOf(d) = KeyOf(t) /\ s = "cancelled")
  <2>1. CASE s = "cancelled" /\ page.controller[n] # None
    <3>1. page.controller[n] \in Call /\ HookAgrees(known) /\ HookAgrees(page)
      BY <1>1, <1>6, <2>1 DEF PageInv, PageType
    <3>2. PICK c \in Call : c = page.controller[n]
      BY <3>1
    <3>3. ActiveIn(known, c) /\ KeyOf(c) = <<n, TRUE>>
      BY <1>6, <2>1, <3>1, <3>2 DEF HookAgrees
    <3>4. page' = Abort(known, c)
      BY <1>7, <2>1, <3>2
    <3>5. /\ PageInv(page')
          /\ \A d \in Call :
               /\ page'.stage[d] = known.stage[d] \/ (known.stage[d] = "registered" /\ page'.stage[d] = "done")
               /\ page'.sub[d] = known.sub[d] \/ (known.sub[d] = "sent" /\ page'.sub[d] = "rejected")
               /\ page'.outcome[d] = known.outcome[d]
                    \/ (/\ d = c /\ known.stage[c] = "registered" /\ known.outcome[c] = "none"
                        /\ page'.outcome[c] = "aborted")
      BY <1>6, <3>3, <3>4, AbortKeeps
    <3>6. KeyOf(c) = KeyOf(t)
      BY <1>2, <1>3, <3>3
    <3>7. ASSUME NEW d \in Call
          PROVE  /\ page'.stage[d] = page.stage[d] \/ (page.stage[d] = "registered" /\ page'.stage[d] = "done")
                 /\ page'.sub[d] = page.sub[d] \/ (page.sub[d] = "sent" /\ page'.sub[d] = "rejected")
                 /\ page'.outcome[d] = page.outcome[d]
                      \/ (/\ page.stage[d] = "registered" /\ page.outcome[d] = "none" /\ page'.outcome[d] = "aborted"
                          /\ KeyOf(d) = KeyOf(t))
      BY <1>6, <3>5, <3>6
    <3> QED
      BY <2>1, <3>5, <3>7
  <2>2. CASE ~(s = "cancelled" /\ page.controller[n] # None)
    BY <1>6, <1>7, <2>2
  <2> QED
    BY <2>1, <2>2
<1>9. /\ stop' \in [Node -> [phase : {"none", "waits", "cancelling", "answered"}, task : Call \cup {None}]]
      /\ \A m \in Node : stop'[m].phase # "none" => stop[m].phase # "none" /\ stop'[m].task = stop[m].task
  BY <1>1, StopEnds
<1>10. DeliveryTypeOK'
  BY <1>1, <1>9 DEF DeliveryTypeOK
<1>11. NetworkAgrees' /\ StopsAreTrue'
  BY <1>1, <1>8, <1>9, NetworkKeeps
<1>12. EventsAreTrue'
  BY <1>1 DEF EventsAreTrue
<1>13. StoppedSendsAreCancelled'
  <2> SUFFICES ASSUME NEW c \in Call, KindOf[c] = "send", page'.outcome[c] = "aborted"
               PROVE  post[c] # "request" /\ task[c] \in {"absent", "cancelled"}
    BY <1>1 DEF StoppedSendsAreCancelled
  <2>1. CASE page.outcome[c] = "aborted"
    BY <1>1, <2>1 DEF StoppedSendsAreCancelled
  <2>2. CASE page.outcome[c] # "aborted"
    <3>1. page.stage[c] = "registered" /\ KeyOf(c) = KeyOf(t) /\ task[t] = "cancelled"
      BY <1>4, <1>8, <2>2
    <3>2. t = c
      BY <3>1, OnlyTask
    <3> QED
      BY <1>1, <3>1, <3>2 DEF NetworkAgrees
  <2> QED
    BY <2>1, <2>2
<1>14. CallsSettle
  BY <1>8 DEF CallsSettle
<1> QED
  BY <1>8, <1>10, <1>11, <1>12, <1>13, <1>14 DEF DeliveryInv

(* The theorems.                                                           *)

LEMMA DeliveryInit ==
  Init => DeliveryInv
<1> SUFFICES ASSUME Init PROVE DeliveryInv
  OBVIOUS
<1>1. None \notin Call /\ \A c \in Call : KeyOf(c) \in Key /\ NodeOf[c] \in Node
  BY Keys
<1>2. <<>> \in Seq(Event) /\ DOMAIN <<>> = {}
  BY EmptySeq
<1>3. DeliveryTypeOK
  BY <1>2 DEF Init, DeliveryTypeOK, NoStop, TaskState
<1>4. page \in PageType
  BY DEF Init, PageType, TaskState, Outcome
<1>5. /\ \A c \in Call : /\ page.stage[c] = "idle" /\ page.outcome[c] = "none" /\ page.sub[c] = "none"
                         /\ page.bound[c] = None /\ page.byTask[c] = None
      /\ \A q \in Key : page.byKey[q] = None
      /\ \A n \in Node : page.controller[n] = None /\ page.submission[n] = None
  BY DEF Init
<1>6. PageInv(page)
  BY <1>1, <1>4, <1>5 DEF PageInv, DispatcherAgrees, HookAgrees, CallsInOrder, CallsInTurn, ActiveIn, PendingIn
<1>7. NetworkAgrees /\ StopsAreTrue /\ StoppedSendsAreCancelled
  BY <1>5 DEF Init, NetworkAgrees, StopsAreTrue, StoppedSendsAreCancelled, NoStop
<1>8. EventsAreTrue
  BY <1>2 DEF Init, EventsAreTrue
<1> QED
  BY <1>3, <1>6, <1>7, <1>8 DEF DeliveryInv

LEMMA DeliveryNext ==
  ASSUME DeliveryInv, [Next]_vars
  PROVE  DeliveryInv' /\ CallsSettle
<1>1. CASE Subscribe
  BY <1>1, ConnectionKeeps DEF Subscribe, DeliveryInv, DeliveryTypeOK
<1>2. CASE OnOpen
  BY <1>2, OnOpenKeeps
<1>3. CASE OnErrorUnopened
  BY <1>3, OnErrorUnopenedKeeps
<1>4. CASE OnErrorOpened
  BY <1>4, ConnectionKeeps DEF OnErrorOpened
<1>5. CASE GivesUp
  BY <1>5, ConnectionKeeps DEF GivesUp, DeliveryInv, DeliveryTypeOK
<1>6. CASE Deliver
  BY <1>6, DeliverKeeps
<1>7. ASSUME NEW c \in Call,
             \/ Begin(c) \/ PostReturns(c) \/ PostFails(c) \/ ServerAccepts(c) \/ ServerRefuses(c)
             \/ ServerStarts(c) \/ ServerStreams(c) \/ ServerEnds(c)
      PROVE  DeliveryInv' /\ CallsSettle
  <2>1. CASE ServerStarts(c)
    BY <2>1, MoveKeeps DEF ServerStarts
  <2>2. CASE ServerEnds(c)
    <3>1. PICK to \in {"completed", "failed"} : ServerMoves(c, "running", to)
      BY <2>2 DEF ServerEnds
    <3> QED
      BY <3>1, MoveKeeps
  <2> QED
    BY <1>7, <2>1, <2>2, BeginKeeps, PostReturnsKeeps, PostFailsKeeps, AcceptKeeps, RefuseKeeps, StreamKeeps
<1>8. ASSUME NEW n \in Node,
             PressStop(n) \/ CancelReaches(n) \/ CancelAnswers(n) \/ StopReturns(n) \/ StopFails(n)
      PROVE  DeliveryInv' /\ CallsSettle
  BY <1>8, PressStopKeeps, CancelReachesKeeps, CancelAnswersKeeps, StopReturnsKeeps, StopFailsKeeps
<1>9. CASE UNCHANGED vars
  BY <1>9, ConnectionKeeps DEF vars, DeliveryInv, DeliveryTypeOK
<1> QED
  BY <1>1, <1>2, <1>3, <1>4, <1>5, <1>6, <1>7, <1>8, <1>9 DEF Next

\* The page's tables and the network agree about every call, whatever overtakes
\* what: dispatcher and hook (taskEventDispatcher.ts, useAIChat.ts).
THEOREM DeliveryInvariant == DeliverySpec => []DeliveryInv
<1>1. DeliveryInv /\ [Next]_vars => DeliveryInv'
  BY DeliveryNext
<1> QED
  BY <1>1, DeliveryInit, PTL DEF DeliverySpec

\* A key leads to the pending request of that node and kind, a task to the request
\* bound to it, a node to its active chat, and nobody else is to be found there.
THEOREM TablesAlwaysAgree == DeliverySpec => []TablesAgree
<1>1. DeliveryInv => TablesAgree
  <2> SUFFICES ASSUME DeliveryInv PROVE TablesAgree
    OBVIOUS
  <2>1. /\ page \in PageType /\ DispatcherAgrees(page) /\ HookAgrees(page) /\ CallsInOrder(page)
    BY DEF DeliveryInv, PageInv
  <2>2. /\ \A c \in Call : c \in Pending <=> PendingIn(page, c)
        /\ \A c \in Call : c \in Active <=> ActiveIn(page, c)
    BY DEF Pending, PendingIn, Active, ActiveIn
  <2>3. ASSUME NEW q \in Key, page.byKey[q] # None
        PROVE  page.byKey[q] \in Pending /\ KeyOf(page.byKey[q]) = q
    <3>1. page.byKey[q] \in Call
      BY <2>1, <2>3 DEF PageType
    <3> QED
      BY <2>1, <2>2, <2>3, <3>1 DEF DispatcherAgrees
  <2>4. ASSUME NEW c \in Pending PROVE page.byKey[KeyOf(c)] = c
    BY <2>1, <2>2 DEF DispatcherAgrees, Pending
  <2>5. ASSUME NEW t \in Call, NEW c \in Call
        PROVE  page.byTask[t] = c <=> c \in Pending /\ page.bound[c] = t
    BY <2>1, <2>2 DEF DispatcherAgrees
  <2>6. ASSUME NEW n \in Node
        PROVE  /\ page.controller[n] # None => page.controller[n] \in Active
               /\ page.submission[n] \in {page.controller[n], None}
    <3>1. page.controller[n] \in Call \cup {None}
      BY <2>1 DEF PageType
    <3> QED
      BY <2>1, <2>2, <3>1 DEF HookAgrees
  <2>7. ASSUME NEW c \in Active, IsChat(c) PROVE page.controller[NodeOf[c]] = c
    BY <2>1, <2>2, <2>7 DEF HookAgrees, Active
  <2>8. \A c \in Call : page.outcome[c] # "busy"
    BY <2>1 DEF CallsInOrder
  <2> QED
    BY <2>3, <2>4, <2>5, <2>6, <2>7, <2>8 DEF TablesAgree
<1> QED
  BY <1>1, DeliveryInvariant, PTL

\* A call settles once, and with an answer or a failure only if a task of its own
\* node and kind ended so, in whatever order events and responses arrive.
THEOREM CallsSettleOnce == DeliverySpec => SettlesOnce
<1>1. DeliveryInv /\ [Next]_vars => [CallsSettle]_vars
  BY DeliveryNext
<1> QED
  BY <1>1, DeliveryInvariant, PTL DEF DeliverySpec, SettlesOnce, CallsSettle

\* Whoever stops a question stops its task: the call is aborted only if the task
\* is cancelled or was never submitted.
THEOREM StoppedSendsAlwaysCancelled == DeliverySpec => []StoppedSendsAreCancelled
<1>1. DeliveryInv => StoppedSendsAreCancelled
  BY DEF DeliveryInv
<1> QED
  BY <1>1, DeliveryInvariant, PTL

(* The text.  While no connection is lost the token events in flight are   *)
(* what the page's text of a call still lacks of what its task published.  *)

Tokens(s, c) == {i \in DOMAIN s : s[i] = [task |-> c, type |-> "delta"]}
InFlight(s, c) == Cardinality(Tokens(s, c))
Announced(s, c) == \E i \in DOMAIN s : s[i] = [task |-> c, type |-> "queued"]
Silent(s, c) == \A i \in DOMAIN s : s[i].task # c

\* The events of a task begin with its creation and stop with its end.
InOrder(s) ==
  \A i, j \in DOMAIN s : i < j /\ s[i].task = s[j].task =>
    s[i].type \notin Terminal /\ s[j].type # "queued"

\* Where the tokens of the task that call c created are.
Accounted(c) ==
  /\ task[c] = "absent" => emitted[c] = 0 /\ Silent(stream, c)
  /\ page.bound[c] = None => page.text[c] = 0
  /\ page.outcome[c] = "none" /\ page.bound[c] = None /\ task[c] # "absent" =>
       Announced(stream, c) /\ InFlight(stream, c) = emitted[c]
  /\ page.outcome[c] = "none" /\ page.bound[c] = c => page.text[c] + InFlight(stream, c) = emitted[c]
  /\ page.outcome[c] = "answer" /\ page.bound[c] = c => task[c] \in Terminal /\ page.text[c] = emitted[c]

\* Nothing is sent before the stream is open, and until it breaks it is whole.
Unbroken ==
  /\ conn \in {"none", "connecting", "open"}
  /\ conn = "open" => subscribed
  /\ conn # "open" => \A c \in Call : page.sub[c] = "none"
  /\ InOrder(stream)
  /\ \A c \in Call : Accounted(c)

TextInv == emitted \in [Call -> Nat] /\ drops \in Nat /\ (drops = 0 => Unbroken)

(* Counting tokens.                                                        *)

\* A stream is a function from the numbers up to its length.
LEMMA StreamShape ==
  ASSUME NEW s \in Seq(Event)
  PROVE  /\ Len(s) \in Nat /\ DOMAIN s = 1 .. Len(s)
         /\ \A i \in DOMAIN s : s[i] \in Event
<1>1. Len(s) \in Nat /\ DOMAIN s = 1 .. Len(s) /\ s \in [1 .. Len(s) -> Event]
  BY LenProperties
<1> QED
  BY <1>1

LEMMA TokensAreFinite ==
  ASSUME NEW s \in Seq(Event), NEW c
  PROVE  IsFiniteSet(Tokens(s, c)) /\ InFlight(s, c) \in Nat
<1>1. Len(s) \in Nat /\ DOMAIN s = 1 .. Len(s)
  BY StreamShape
<1>2. IsFiniteSet(1 .. Len(s))
  BY <1>1, FS_Interval
<1>3. Tokens(s, c) \in SUBSET (1 .. Len(s))
  BY <1>1 DEF Tokens
<1>4. IsFiniteSet(Tokens(s, c))
  BY <1>2, <1>3, FS_Subset
<1> QED
  BY <1>4, FS_CardinalityType DEF InFlight

\* A stream that says nothing of a task has none of its tokens.
LEMMA SilenceHasNoTokens ==
  ASSUME NEW s, NEW c, Silent(s, c)
  PROVE  InFlight(s, c) = 0
<1>1. Tokens(s, c) = {}
  BY DEF Silent, Tokens
<1> QED
  BY <1>1, FS_EmptySet DEF InFlight

\* What a stream r is that has event e after those of s, and what is left of s
\* once its first event e is gone.
Extends(r, s, e) ==
  /\ r \in Seq(Event)
  /\ \A i \in DOMAIN r : (i \in DOMAIN s /\ r[i] = s[i])
                         \/ (i \notin DOMAIN s /\ r[i] = e /\ \A j \in DOMAIN r : j <= i)
  /\ \E i \in DOMAIN r : r[i] = e
  /\ \A c \in Call : Announced(s, c) => Announced(r, c)
  /\ \A c \in Call : InFlight(r, c) =
       IF e = [task |-> c, type |-> "delta"] THEN InFlight(s, c) + 1 ELSE InFlight(s, c)

Remains(r, s, e) ==
  /\ e \in Event /\ e = s[1] /\ 1 \in DOMAIN s
  /\ r \in Seq(Event)
  /\ \A i \in DOMAIN r : i + 1 \in DOMAIN s /\ r[i] = s[i + 1] /\ i \in Nat /\ i >= 1
  /\ \A c \in Call : Announced(s, c) /\ e # [task |-> c, type |-> "queued"] => Announced(r, c)
  /\ \A c \in Call : InFlight(s, c) =
       IF e = [task |-> c, type |-> "delta"] THEN InFlight(r, c) + 1 ELSE InFlight(r, c)

\* An event is published: it is the last of the stream, and counts if it is a token.
LEMMA Appended ==
  ASSUME NEW s \in Seq(Event), NEW e \in Event
  PROVE  Extends(Append(s, e), s, e)
<1> DEFINE r == Append(s, e)
<1>1. Len(s) \in Nat /\ DOMAIN s = 1 .. Len(s)
  BY StreamShape
<1> DEFINE n == Len(s) + 1
<1>2. /\ r \in Seq(Event) /\ Len(r) = n
      /\ \A i \in 1 .. Len(s) : r[i] = s[i]
      /\ r[n] = e
  BY AppendProperties
<1> HIDE DEF r
<1>3. DOMAIN r = 1 .. n
  BY <1>2, StreamShape
<1>4. n \notin DOMAIN s /\ n \in DOMAIN r /\ (\A i \in DOMAIN r : i <= n) /\ DOMAIN s \subseteq DOMAIN r
      /\ \A i \in DOMAIN r : i \in DOMAIN s \/ i = n
  BY <1>1, <1>3
<1>5. \A i \in DOMAIN s : r[i] = s[i]
  BY <1>1, <1>2
<1> HIDE DEF n
<1>6. \A i \in DOMAIN r : (i \in DOMAIN s /\ r[i] = s[i])
                          \/ (i \notin DOMAIN s /\ r[i] = e /\ \A j \in DOMAIN r : j <= i)
  BY <1>2, <1>4, <1>5
<1>7. ASSUME NEW c \in Call, Announced(s, c) PROVE Announced(r, c)
  BY <1>4, <1>5, <1>7 DEF Announced
<1>8. ASSUME NEW c \in Call
      PROVE  InFlight(r, c) = IF e = [task |-> c, type |-> "delta"] THEN InFlight(s, c) + 1 ELSE InFlight(s, c)
  <2>1. IsFiniteSet(Tokens(s, c)) /\ n \notin Tokens(s, c)
    BY <1>4, TokensAreFinite DEF Tokens
  <2>2. CASE e = [task |-> c, type |-> "delta"]
    <3>1. Tokens(r, c) = Tokens(s, c) \cup {n}
      BY <1>2, <1>4, <1>5, <2>2 DEF Tokens
    <3> QED
      BY <2>1, <2>2, <3>1, FS_AddElement DEF InFlight
  <2>3. CASE e # [task |-> c, type |-> "delta"]
    <3>1. Tokens(r, c) = Tokens(s, c)
      BY <1>2, <1>4, <1>5, <2>3 DEF Tokens
    <3> QED
      BY <2>3, <3>1 DEF InFlight
  <2> QED
    BY <2>2, <2>3
<1>9. Extends(r, s, e)
  BY <1>2, <1>4, <1>6, <1>7, <1>8 DEF Extends
<1> QED
  BY <1>9 DEF r

\* An event is delivered: the rest moves up.
LEMMA Delivered ==
  ASSUME NEW s \in Seq(Event), s # <<>>
  PROVE  Remains(Tail(s), s, Head(s))
<1> DEFINE e == Head(s)
           r == Tail(s)
<1>1. Len(s) \in Nat /\ DOMAIN s = 1 .. Len(s) /\ \A i \in DOMAIN s : s[i] \in Event
  BY StreamShape
<1>2. Len(s) > 0 /\ e = s[1]
  BY <1>1, EmptySeq, HeadTailProperties
<1>3. /\ r \in Seq(Event) /\ Len(r) = Len(s) - 1
      /\ \A i \in 1 .. Len(r) : r[i] = s[i + 1]
  BY HeadTailProperties
<1> HIDE DEF e, r
<1>4. DOMAIN r = 1 .. Len(r)
  BY <1>3, StreamShape
<1>5. 1 \in DOMAIN s /\ e \in Event
  BY <1>1, <1>2
<1>6. \A i \in DOMAIN r : i + 1 \in DOMAIN s /\ r[i] = s[i + 1] /\ i \in Nat /\ i >= 1
  BY <1>1, <1>3, <1>4
<1>7. \A i \in DOMAIN s \ {1} : i - 1 \in DOMAIN r /\ r[i - 1] = s[i]
  BY <1>1, <1>3, <1>4
<1>8. ASSUME NEW c \in Call, Announced(s, c), e # [task |-> c, type |-> "queued"] PROVE Announced(r, c)
  <2>1. PICK i \in DOMAIN s : s[i] = [task |-> c, type |-> "queued"]
    BY <1>8 DEF Announced
  <2>2. i # 1
    BY <1>2, <1>8, <2>1
  <2> QED
    BY <1>7, <2>1, <2>2 DEF Announced
<1>9. ASSUME NEW c \in Call
      PROVE  InFlight(s, c) = IF e = [task |-> c, type |-> "delta"] THEN InFlight(r, c) + 1 ELSE InFlight(r, c)
  <2> DEFINE delta == [task |-> c, type |-> "delta"]
             later == Tokens(s, c) \ {1}
             f == [i \in Tokens(r, c) |-> i + 1]
  <2>1. Cardinality(later) = InFlight(r, c) /\ IsFiniteSet(later)
    <3>1. \A i \in Tokens(r, c) : i \in Nat /\ i >= 1 /\ i + 1 \in DOMAIN s /\ s[i + 1] = delta
      BY <1>6 DEF Tokens
    <3>2. f \in [Tokens(r, c) -> later]
      BY <3>1 DEF Tokens
    <3>3. \A i, j \in Tokens(r, c) : f[i] = f[j] => i = j
      BY <3>1
    <3>4. ASSUME NEW k \in later PROVE \E i \in Tokens(r, c) : f[i] = k
      <4>1. k - 1 \in Tokens(r, c) /\ k \in Nat
        BY <1>1, <1>7 DEF Tokens
      <4> QED
        BY <4>1
    <3> HIDE DEF f, later
    <3>5. f \in Injection(Tokens(r, c), later)
      BY <3>2, <3>3 DEF Injection, IsInjective
    <3>6. f \in Surjection(Tokens(r, c), later)
      BY <3>2, <3>4 DEF Surjection
    <3>7. ExistsBijection(Tokens(r, c), later)
      BY <3>5, <3>6 DEF ExistsBijection, Bijection
    <3>8. IsFiniteSet(Tokens(r, c))
      BY <1>3, TokensAreFinite
    <3> QED
      BY <3>7, <3>8, FS_Bijection DEF InFlight
  <2>2. 1 \in Tokens(s, c) <=> e = delta
    BY <1>2, <1>5 DEF Tokens
  <2>3. CASE e = delta
    <3>1. Tokens(s, c) = later \cup {1} /\ 1 \notin later
      BY <2>2, <2>3
    <3> HIDE DEF later
    <3> QED
      BY <2>1, <2>3, <3>1, FS_AddElement DEF InFlight
  <2>4. CASE e # delta
    <3>1. Tokens(s, c) = later
      BY <2>2, <2>4
    <3> HIDE DEF later
    <3> QED
      BY <2>1, <2>4, <3>1 DEF InFlight
  <2> QED
    BY <2>3, <2>4
<1>10. Remains(r, s, e)
  BY <1>2, <1>3, <1>5, <1>6, <1>8, <1>9 DEF Remains
<1> QED
  BY <1>10 DEF r, e

(* What the page has been given of each task.                              *)

\* Only a token adds text: the other operators on the page leave it alone.
LEMMA TextStands ==
  ASSUME NEW p, "text" \in DOMAIN p
  PROVE  /\ \A t, s : Publish(p, t, s).text = p.text
         /\ \A c, how : Settle(p, c, how).text = p.text /\ "text" \in DOMAIN Settle(p, c, how)
         /\ Finally(p).text = p.text
<1>1. \A t, s : Publish(p, t, s).text = p.text
  BY DEF Publish
<1>2. ASSUME NEW c, NEW how
      PROVE  Settle(p, c, how).text = p.text /\ "text" \in DOMAIN Settle(p, c, how)
  BY DEF Settle
<1>3. Finally(p).text = p.text
  BY DEF Finally
<1> QED
  BY <1>1, <1>2, <1>3

LEMMA PagesHaveText ==
  ASSUME NEW p, p \in PageType
  PROVE  "text" \in DOMAIN p /\ p.text \in [Call -> Nat]
BY DEF PageType

LEMMA RegisterText ==
  ASSUME NEW p, "text" \in DOMAIN p, NEW C
  PROVE  Register(p, C).text = p.text
BY DEF Register, Finally

LEMMA AbortText ==
  ASSUME NEW p, "text" \in DOMAIN p, NEW c
  PROVE  Abort(p, c).text = p.text
<1> DEFINE out == [p EXCEPT !.aborted = @ \cup {c},
                            !.sub[c] = IF @ = "sent" /\ KindOf[c] = "send" THEN "rejected" ELSE @]
           left == IF p.stage[c] = "registered" THEN Settle(out, c, "aborted") ELSE out
<1>1. Abort(p, c) = Finally(left)
  BY DEF Abort
<1>2. out.text = p.text /\ "text" \in DOMAIN out
  OBVIOUS
<1> HIDE DEF out
<1>3. left.text = p.text /\ "text" \in DOMAIN left
  BY <1>2, TextStands
<1> HIDE DEF left
<1> QED
  BY <1>1, <1>3, TextStands

\* A step of the page that gives no token: at most a call is bound to its own task.
Quiet(p, q) ==
  \A c \in Call :
    /\ q.text[c] = p.text[c]
    /\ q.bound[c] = p.bound[c] \/ (p.bound[c] = None /\ p.outcome[c] = "none" /\ q.bound[c] = c)
    /\ q.outcome[c] = p.outcome[c] \/ q.outcome[c] \notin {"none", "answer"}

\* A pending call is bound to a task, unless it is bound to another.
Binds(p, q, c, t) ==
  /\ q.text = p.text
  /\ \A d \in Call \ {c} : q.bound[d] = p.bound[d] /\ q.outcome[d] = p.outcome[d]
  /\ IF p.bound[c] \in {None, t} THEN q.bound[c] = t /\ q.outcome[c] = "none"
     ELSE q.bound[c] = p.bound[c] /\ q.outcome[c] = "conflict"

LEMMA Binding ==
  ASSUME NEW p, p \in PageType, NEW c \in Call, p.outcome[c] = "none", NEW t \in Call, NEW s \in TaskState
  PROVE  Binds(p, Bind(p, c, t, s), c, t)
<1> DEFINE q == Bind(p, c, t, s)
<1>1. CASE p.bound[c] \notin {None, t}
  <2>1. q = Settle(p, c, "conflict") /\ "conflict" \in Outcome
    BY <1>1 DEF Bind, Outcome
  <2>2. q.bound = p.bound /\ \A d \in Call : q.outcome[d] = IF d = c THEN "conflict" ELSE p.outcome[d]
    BY <2>1, Settling
  <2>3. q.text = p.text
    BY <2>1, TextStands, PagesHaveText
  <2> QED
    BY <1>1, <2>2, <2>3 DEF Binds
<1>2. CASE p.bound[c] \in {None, t}
  <2> DEFINE r == [p EXCEPT !.bound[c] = t, !.byTask[t] = c]
  <2>1. q = Publish(r, t, s)
    BY <1>2 DEF Bind
  <2>2. /\ r.text = p.text /\ r.outcome = p.outcome /\ "text" \in DOMAIN r /\ DOMAIN r = DOMAIN p
        /\ \A d \in Call : r.bound[d] = IF d = c THEN t ELSE p.bound[d]
    BY DEF PageType
  <2>3. "outcome" \in DOMAIN p /\ "bound" \in DOMAIN p
    BY DEF PageType
  <2> HIDE DEF r
  <2>4. q.text = p.text /\ q.outcome = p.outcome /\ q.bound = r.bound
    BY <2>1, <2>2, <2>3 DEF Publish
  <2> QED
    BY <1>2, <2>2, <2>4 DEF Binds
<1> QED
  BY <1>1, <1>2

\* What an event does to call c: nothing, if it finds another or none.
Hears(p, q, c, e) ==
  IF c # Found(p, e) THEN q.text[c] = p.text[c] /\ q.bound[c] = p.bound[c] /\ q.outcome[c] = p.outcome[c]
  ELSE /\ PendingIn(p, c)
       /\ IF p.bound[c] \notin {None, e.task}
          THEN q.text[c] = p.text[c] /\ q.bound[c] = p.bound[c] /\ q.outcome[c] = "conflict"
          ELSE /\ q.text[c] = IF e.type = "delta" THEN p.text[c] + 1 ELSE p.text[c]
               /\ q.bound[c] = e.task
               /\ q.outcome[c] = IF e.type \in Terminal THEN EndOf(e.type) ELSE "none"

\* The observer of the call hears an event of its task.
LEMMA Observing ==
  ASSUME NEW p, p \in PageType, NEW c \in Call, p.outcome[c] = "none", NEW e \in Event
  PROVE  LET q == Observed(p, c, e)
         IN  /\ q.bound = p.bound
             /\ \A d \in Call \ {c} : q.text[d] = p.text[d] /\ q.outcome[d] = p.outcome[d]
             /\ q.text[c] = IF e.type = "delta" THEN p.text[c] + 1 ELSE p.text[c]
             /\ q.outcome[c] = IF e.type \in Terminal THEN EndOf(e.type) ELSE "none"
             /\ "text" \in DOMAIN q
<1> DEFINE q == Observed(p, c, e)
<1>1. CASE e.type = "delta"
  <2>1. q = [p EXCEPT !.text[c] = @ + 1] /\ e.type \notin Terminal
    BY <1>1 DEF Observed, Terminal
  <2> QED
    BY <1>1, <2>1 DEF PageType
<1>2. CASE e.type \in Terminal
  <2>1. q = Settle(p, c, EndOf(e.type)) /\ EndOf(e.type) \in Outcome /\ e.type # "delta"
    BY <1>2 DEF Observed, Terminal, EndOf, Outcome
  <2>2. q.bound = p.bound /\ \A d \in Call : q.outcome[d] = IF d = c THEN EndOf(e.type) ELSE p.outcome[d]
    BY <2>1, Settling
  <2>3. q.text = p.text /\ "text" \in DOMAIN q
    BY <2>1, TextStands, PagesHaveText
  <2> QED
    BY <1>2, <2>1, <2>2, <2>3
<1>3. CASE e.type # "delta" /\ e.type \notin Terminal
  BY <1>3, PagesHaveText DEF Observed
<1> QED
  BY <1>1, <1>2, <1>3

LEMMA Hearing ==
  ASSUME NEW p, PageInv(p), NEW e \in Event
  PROVE  \A d \in Call : Hears(p, Handle(p, e), d, e)
<1> DEFINE seen == IF e.type = "delta" THEN p ELSE Publish(p, e.task, e.type)
           c == Found(seen, e)
           bound == IF c = None \/ seen.byTask[e.task] # None THEN seen
                    ELSE Bind(seen, c, e.task, e.type)
           heard == IF c = None \/ bound.bound[c] # e.task THEN bound ELSE Observed(bound, c, e)
           q == Finally(heard)
<1>1. Handle(p, e) = q
  BY DEF Handle
<1>2. e.task \in Call /\ (e.type # "delta" => e.type \in TaskState) /\ KeyOf(e.task) \in Key
  BY Keys DEF Event
<1>3. /\ PageInv(seen) /\ seen.text = p.text
      /\ seen.stage = p.stage /\ seen.outcome = p.outcome /\ seen.bound = p.bound
      /\ seen.byTask = p.byTask /\ seen.byKey = p.byKey
  <2>1. "text" \in DOMAIN p
    BY PagesHaveText DEF PageInv
  <2>2. CASE e.type = "delta"
    BY <2>2
  <2>3. CASE e.type # "delta"
    <3>1. e.type \in TaskState /\ seen = Publish(p, e.task, e.type)
      BY <1>2, <2>3
    <3> HIDE DEF seen
    <3> QED
      BY <1>2, <2>1, <3>1, PublishKeeps, TextStands
  <2> QED
    BY <2>2, <2>3
<1> HIDE DEF seen
<1>4. seen \in PageType /\ DispatcherAgrees(seen)
  BY <1>3 DEF PageInv
<1>5. c = Found(p, e)
  BY <1>3 DEF Found
<1>6. c # None => /\ c \in Call /\ PendingIn(seen, c)
                  /\ seen.byTask[e.task] = None => e.type # "delta"
                  /\ seen.byTask[e.task] # None => seen.bound[c] = e.task
  <2>1. seen.byTask[e.task] \in Call \cup {None} /\ seen.byKey[KeyOf(e.task)] \in Call \cup {None}
    BY <1>2, <1>4 DEF PageType
  <2> QED
    BY <1>2, <1>4, <2>1 DEF Found, DispatcherAgrees
<1> HIDE DEF c
<1>7. None \notin Call
  BY Keys
<1>8. CASE c = None
  <2>1. heard = seen /\ "text" \in DOMAIN seen
    BY <1>4, <1>8, PagesHaveText
  <2>2. q.text = seen.text /\ q.bound = seen.bound /\ q.outcome = seen.outcome
    BY <1>4, <2>1, TextStands, Finishing
  <2> QED
    BY <1>1, <1>3, <1>5, <1>7, <1>8, <2>2 DEF Hears
<1>9. CASE c # None
  <2>1. c \in Call /\ PendingIn(p, c) /\ seen.outcome[c] = "none"
    BY <1>3, <1>6, <1>9 DEF PendingIn
  <2>2. Binds(seen, bound, c, e.task) /\ bound \in PageType /\ PageInv(bound) /\ bound.stage = p.stage
    <3>1. CASE seen.byTask[e.task] # None
      BY <1>3, <1>4, <1>6, <1>9, <2>1, <3>1 DEF Binds
    <3>2. CASE seen.byTask[e.task] = None
      <4>1. bound = Bind(seen, c, e.task, e.type) /\ e.type \in TaskState
        BY <1>2, <1>6, <1>9, <3>2
      <4> HIDE DEF bound
      <4>2. Binds(seen, bound, c, e.task)
        BY <1>2, <1>4, <2>1, <4>1, Binding
      <4>3. seen.stage[c] \in {"registered", "done"} /\ KeyOf(e.task) = KeyOf(c)
        BY <1>2, <1>4, <1>6, <1>9, <3>2 DEF PendingIn, DispatcherAgrees, Found, c
      <4>4. bound \in PageType /\ PageInv(bound) /\ bound.stage = p.stage
        BY <1>2, <1>3, <2>1, <4>1, <4>3, BindKeeps DEF PageInv
      <4> QED
        BY <4>2, <4>4
    <3> QED
      BY <3>1, <3>2
  <2> HIDE DEF bound
  <2>3. CASE seen.bound[c] \notin {None, e.task}
    <3>1. /\ heard = bound /\ bound.outcome[c] = "conflict" /\ bound.text = seen.text
          /\ bound.bound[c] = seen.bound[c]
      BY <2>2, <2>3 DEF Binds
    <3>2. q.text = bound.text /\ q.bound = bound.bound /\ q.outcome = bound.outcome
      BY <2>2, <3>1, TextStands, PagesHaveText, Finishing
    <3> HIDE DEF q
    <3> QED
      BY <1>1, <1>3, <1>5, <2>1, <2>2, <2>3, <3>1, <3>2 DEF Hears, Binds
  <2>4. CASE seen.bound[c] \in {None, e.task}
    <3>1. heard = Observed(bound, c, e) /\ bound.bound[c] = e.task /\ bound.outcome[c] = "none"
      BY <1>9, <2>2, <2>4 DEF Binds
    <3> HIDE DEF heard
    <3>2. /\ heard.bound = bound.bound /\ "text" \in DOMAIN heard
          /\ \A d \in Call \ {c} : heard.text[d] = bound.text[d] /\ heard.outcome[d] = bound.outcome[d]
          /\ heard.text[c] = IF e.type = "delta" THEN bound.text[c] + 1 ELSE bound.text[c]
          /\ heard.outcome[c] = IF e.type \in Terminal THEN EndOf(e.type) ELSE "none"
      BY <2>1, <2>2, <3>1, Observing
    <3>3. heard \in PageType
      <4>1. bound.stage[c] = "registered" /\ PageInv(bound)
        BY <2>1, <2>2 DEF PendingIn
      <4> QED
        BY <2>1, <3>1, <4>1, ObservedKeeps DEF PageInv
    <3>4. q.text = heard.text /\ q.bound = heard.bound /\ q.outcome = heard.outcome
      BY <3>2, <3>3, TextStands, Finishing
    <3> HIDE DEF q
    <3> QED
      BY <1>1, <1>3, <1>5, <2>1, <2>2, <2>4, <3>1, <3>2, <3>4 DEF Hears, Binds
  <2> QED
    BY <2>3, <2>4
<1> QED
  BY <1>8, <1>9

(* The steps.                                                              *)

\* What the network's order gives: nothing is on its way before a call is sent.
LEMMA UnsentIsAbsent ==
  ASSUME DeliveryInv, Unbroken, conn # "open"
  PROVE  \A c \in Call : task[c] = "absent" /\ post[c] = "none" /\ page.sub[c] = "none"
BY DEF DeliveryInv, NetworkAgrees, Unbroken

\* Whether a call is bound or not, the tokens its page lacks are in flight.
LEMMA Lacking ==
  ASSUME DeliveryInv, Unbroken, NEW c \in Call, page.outcome[c] = "none", page.bound[c] \in {None, c}
  PROVE  /\ page.text[c] + InFlight(stream, c) = emitted[c]
         /\ page.bound[c] = None => page.text[c] = 0
<1>1. Accounted(c) /\ stream \in Seq(Event) /\ page.text[c] \in Nat /\ c # None
  BY Keys DEF Unbroken, DeliveryInv, DeliveryTypeOK, PageInv, PageType
<1>2. InFlight(stream, c) \in Nat
  BY <1>1, TokensAreFinite
<1>3. Silent(stream, c) => InFlight(stream, c) = 0
  BY SilenceHasNoTokens
<1> QED
  BY <1>1, <1>2, <1>3 DEF Accounted

\* Nobody is given a token: the stream stands, or is emptied before anything was sent.
LEMMA QuietKeeps ==
  ASSUME DeliveryInv, TextInv, Quiet(page, page'), UNCHANGED <<task, emitted>>,
         stream' = stream \/ (stream' = <<>> /\ conn # "open"),
         drops' \in {drops, drops + 1},
         drops' = drops => /\ conn' = conn \/ conn' \in {"none", "connecting", "open"}
                           /\ conn' = "open" => subscribed'
                           /\ conn' # "open" => \A c \in Call : page.sub[c] = "none" => page'.sub[c] = "none"
                           /\ conn' # "open" => conn # "open"
  PROVE  TextInv'
<1>1. emitted \in [Call -> Nat] /\ drops \in Nat /\ drops' \in Nat
  BY DEF TextInv
<1> SUFFICES ASSUME drops' = 0 PROVE Unbroken'
  BY <1>1 DEF TextInv
<1>2. drops = 0 /\ drops' = drops /\ Unbroken
  BY <1>1 DEF TextInv
<1>3. /\ conn' \in {"none", "connecting", "open"} /\ (conn' = "open" => subscribed')
      /\ (conn' # "open" => \A c \in Call : page'.sub[c] = "none")
  BY <1>2 DEF Unbroken
<1>4. InOrder(stream')
  BY <1>2 DEF Unbroken, InOrder
<1>5. ASSUME NEW c \in Call PROVE Accounted(c)'
  <2>1. /\ page'.text[c] = page.text[c]
        /\ page'.bound[c] = page.bound[c]
             \/ (page.bound[c] = None /\ page.outcome[c] = "none" /\ page'.bound[c] = c)
        /\ page'.outcome[c] = page.outcome[c] \/ page'.outcome[c] \notin {"none", "answer"}
    BY DEF Quiet
  <2>2. Accounted(c) /\ stream \in Seq(Event) /\ page.text[c] \in Nat /\ c # None /\ emitted[c] \in Nat
    BY <1>1, <1>2, Keys DEF Unbroken, DeliveryInv, DeliveryTypeOK, PageInv, PageType
  <2>3. page.outcome[c] = "none" /\ page.bound[c] \in {None, c} =>
          /\ page.text[c] + InFlight(stream, c) = emitted[c]
          /\ page.bound[c] = None => page.text[c] = 0
    BY <1>2, Lacking
  <2>4. CASE stream' = stream
    BY <2>1, <2>2, <2>3, <2>4 DEF Accounted
  <2>5. CASE stream' = <<>> /\ conn # "open"
    <3>1. task[c] = "absent" /\ emitted[c] = 0 /\ Silent(stream, c)
      BY <1>2, <2>2, <2>5, UnsentIsAbsent DEF Accounted
    <3>2. Silent(stream', c)
      BY <2>5 DEF Silent
    <3>3. InFlight(stream, c) = 0 /\ InFlight(stream', c) = 0
      BY <3>1, <3>2, SilenceHasNoTokens
    <3> QED
      BY <2>1, <2>2, <2>3, <3>1, <3>2, <3>3 DEF Accounted
  <2> QED
    BY <2>4, <2>5
<1> QED
  BY <1>3, <1>4, <1>5 DEF Unbroken

\* The server publishes the creation, a step or a token of a task that has not ended.
LEMMA PublishingKeeps ==
  ASSUME DeliveryInv, TextInv, UNCHANGED <<page, conn, subscribed, drops>>,
         NEW t \in Call, NEW type \in TaskState \cup {"delta"}, Publishes(t, type),
         page.sub[t] # "none", task[t] \notin Terminal,
         task[t] = "absent" <=> type = "queued",
         task'[t] # "absent", \A d \in Call \ {t} : task'[d] = task[d],
         emitted' = IF type = "delta" THEN [emitted EXCEPT ![t] = @ + 1] ELSE emitted
  PROVE  TextInv'
<1>1. /\ emitted \in [Call -> Nat] /\ drops \in Nat /\ emitted' \in [Call -> Nat]
      /\ \A d \in Call : emitted'[d] = IF d = t /\ type = "delta" THEN emitted[d] + 1 ELSE emitted[d]
  BY DEF TextInv
<1> SUFFICES ASSUME drops = 0 PROVE Unbroken'
  BY <1>1 DEF TextInv
<1>2. Unbroken /\ conn = "open" /\ subscribed
  BY DEF TextInv, Unbroken
<1>3. stream \in Seq(Event) /\ EventsAreTrue /\ DOMAIN stream = 1 .. Len(stream) /\ Len(stream) \in Nat
  BY StreamShape DEF DeliveryInv, DeliveryTypeOK
<1>4. PICK e \in Event : e = [task |-> t, type |-> type]
  BY DEF Event
<1>5. stream' = Append(stream, e)
  BY <1>2, <1>4 DEF Publishes
<1>6. Extends(stream', stream, e)
  BY <1>3, <1>5, Appended
<1>7. DOMAIN stream' = 1 .. Len(stream') /\ Len(stream') \in Nat
  BY <1>6, StreamShape DEF Extends
<1>8. \A c \in Call : InFlight(stream', c) =
           IF c = t /\ type = "delta" THEN InFlight(stream, c) + 1 ELSE InFlight(stream, c)
  BY <1>4, <1>6 DEF Extends
<1>9. task[t] = "absent" => Silent(stream, t) /\ emitted[t] = 0 /\ InFlight(stream, t) = 0
  BY <1>2, SilenceHasNoTokens DEF Unbroken, Accounted
<1>10. InOrder(stream')
  <2> SUFFICES ASSUME NEW i \in DOMAIN stream', NEW j \in DOMAIN stream', i < j,
                      stream'[i].task = stream'[j].task
               PROVE  stream'[i].type \notin Terminal /\ stream'[j].type # "queued"
    BY DEF InOrder
  <2>1. i \in DOMAIN stream /\ stream'[i] = stream[i]
    BY <1>6, <1>7 DEF Extends
  <2>2. CASE j \in DOMAIN stream /\ stream'[j] = stream[j]
    BY <1>2, <2>1, <2>2 DEF Unbroken, InOrder
  <2>3. CASE stream'[j] = e
    <3>1. stream[i].task = t /\ stream'[j].type = type
      BY <1>4, <2>1, <2>3
    <3>2. stream[i].type \notin Terminal
      BY <1>3, <2>1, <3>1 DEF EventsAreTrue
    <3>3. type # "queued"
      BY <1>9, <2>1, <3>1 DEF Silent
    <3> QED
      BY <2>1, <3>1, <3>2, <3>3
  <2> QED
    BY <1>6, <2>2, <2>3 DEF Extends
<1>11. ASSUME NEW c \in Call PROVE Accounted(c)'
  <2>1. /\ Accounted(c) /\ page.text[c] \in Nat /\ c # None /\ emitted[c] \in Nat
        /\ InFlight(stream, c) \in Nat
    BY <1>1, <1>2, <1>3, TokensAreFinite, Keys DEF Unbroken, DeliveryInv, PageInv, PageType
  <2>2. CASE c # t
    <3>1. Silent(stream, c) => Silent(stream', c)
      BY <1>4, <1>6, <2>2 DEF Silent, Extends
    <3>2. /\ emitted'[c] = emitted[c] /\ InFlight(stream', c) = InFlight(stream, c) /\ task'[c] = task[c]
          /\ page' = page
      BY <1>1, <1>8, <2>2
    <3>3. Announced(stream, c) => Announced(stream', c)
      BY <1>6 DEF Extends
    <3> QED
      BY <2>1, <3>1, <3>2, <3>3 DEF Accounted
  <2>3. CASE c = t
    <3>1. type = "queued" => Announced(stream', c)
      <4> SUFFICES ASSUME type = "queued" PROVE Announced(stream', c)
        OBVIOUS
      <4> QED
        BY <1>4, <1>6, <2>3 DEF Announced, Extends
    <3>2. /\ emitted'[c] = IF type = "delta" THEN emitted[c] + 1 ELSE emitted[c]
          /\ InFlight(stream', c) = IF type = "delta" THEN InFlight(stream, c) + 1 ELSE InFlight(stream, c)
          /\ task'[c] # "absent" /\ task[c] \notin Terminal /\ page' = page
      BY <1>1, <1>8, <2>3
    <3>3. /\ task[c] = "absent" <=> type = "queued"
          /\ task[c] = "absent" => emitted[c] = 0 /\ InFlight(stream, c) = 0
      BY <1>9, <2>3
    <3>4. Announced(stream, c) => Announced(stream', c)
      BY <1>6 DEF Extends
    <3> QED
      BY <2>1, <2>3, <3>1, <3>2, <3>3, <3>4 DEF Accounted
  <2> QED
    BY <2>2, <2>3
<1> QED
  BY <1>2, <1>10, <1>11 DEF Unbroken

\* An event of the stream reaches the page: a token is either in flight or in the
\* text, the end of a task comes after its last, and a call that has not been
\* bound is bound by the first.
LEMMA DeliveringKeeps ==
  ASSUME DeliveryInv, TextInv, Deliver
  PROVE  TextInv'
<1>1. /\ stream # <<>> /\ page' = Handle(page, Head(stream)) /\ stream' = Tail(stream)
      /\ UNCHANGED <<conn, subscribed, task, emitted, drops>> /\ conn = "open"
  BY DEF Deliver
<1>2. emitted \in [Call -> Nat] /\ drops \in Nat
  BY DEF TextInv
<1> SUFFICES ASSUME drops = 0 PROVE Unbroken'
  BY <1>1, <1>2 DEF TextInv
<1>3. Unbroken /\ stream \in Seq(Event) /\ EventsAreTrue /\ PageInv(page) /\ InOrder(stream)
  BY DEF TextInv, Unbroken, DeliveryInv, DeliveryTypeOK
<1>4. /\ page \in PageType /\ DispatcherAgrees(page) /\ CallsInOrder(page)
  BY <1>3 DEF PageInv
<1>5. PICK e : e = Head(stream)
  OBVIOUS
<1>6. Remains(stream', stream, e)
  BY <1>1, <1>3, <1>5, Delivered
<1>7. \A c \in Call : Hears(page, page', c, e)
  BY <1>1, <1>3, <1>5, <1>6, Hearing DEF Remains
<1>8. InOrder(stream')
  <2> SUFFICES ASSUME NEW i \in DOMAIN stream', NEW j \in DOMAIN stream', i < j,
                      stream'[i].task = stream'[j].task
               PROVE  stream'[i].type \notin Terminal /\ stream'[j].type # "queued"
    BY DEF InOrder
  <2>1. /\ i + 1 \in DOMAIN stream /\ j + 1 \in DOMAIN stream /\ i + 1 < j + 1
        /\ stream'[i] = stream[i + 1] /\ stream'[j] = stream[j + 1]
    BY <1>6 DEF Remains
  <2> QED
    BY <1>3, <2>1 DEF InOrder
<1>9. \A i \in DOMAIN stream' : stream'[i].task = e.task =>
        e.type \notin Terminal /\ stream'[i].type # "queued"
  <2> SUFFICES ASSUME NEW i \in DOMAIN stream', stream'[i].task = e.task
               PROVE  e.type \notin Terminal /\ stream'[i].type # "queued"
    OBVIOUS
  <2>1. i + 1 \in DOMAIN stream /\ stream'[i] = stream[i + 1] /\ 1 < i + 1
    BY <1>6 DEF Remains
  <2> QED
    BY <1>3, <1>6, <2>1 DEF InOrder, Remains
<1>10. ASSUME NEW c \in Call PROVE Accounted(c)'
  <2>1. /\ Accounted(c) /\ page.text[c] \in Nat /\ c # None /\ emitted[c] \in Nat
        /\ InFlight(stream, c) \in Nat /\ InFlight(stream', c) \in Nat
    BY <1>2, <1>3, <1>4, <1>6, TokensAreFinite, Keys DEF Unbroken, PageType, Remains
  <2>2. Hears(page, page', c, e) /\ e.task \in Call /\ e.task # None
    BY <1>6, <1>7, Keys DEF Event, Remains
  <2>3. page.outcome[c] = "none" /\ page.bound[c] \in {None, c} =>
          /\ page.text[c] + InFlight(stream, c) = emitted[c]
          /\ page.bound[c] = None => page.text[c] = 0
    BY <1>3, Lacking
  <2>4. e = [task |-> c, type |-> "delta"] <=> e.task = c /\ e.type = "delta"
    BY <1>6 DEF Event, Remains
  <2>5. InFlight(stream, c) =
          IF e.task = c /\ e.type = "delta" THEN InFlight(stream', c) + 1 ELSE InFlight(stream', c)
    BY <1>6, <2>4 DEF Remains
  <2>6. Silent(stream, c) => Silent(stream', c) /\ e.task # c
    BY <1>6 DEF Silent, Remains
  <2>7. task[c] = "absent" => emitted[c] = 0 /\ Silent(stream', c) /\ e.task # c
    BY <2>1, <2>6 DEF Accounted
  <2>8. e.type \in Terminal => e.type # "delta" /\ task[e.task] \in Terminal
    BY <1>3, <1>6 DEF EventsAreTrue, Terminal, Remains
  <2>9. e.type \in Terminal /\ e.task = c => InFlight(stream', c) = 0
    <3> SUFFICES ASSUME e.type \in Terminal, e.task = c PROVE InFlight(stream', c) = 0
      OBVIOUS
    <3>1. Silent(stream', c)
      BY <1>9 DEF Silent
    <3> QED
      BY <3>1, SilenceHasNoTokens
  <2>10. CASE c # Found(page, e)
    <3>1. page'.text[c] = page.text[c] /\ page'.bound[c] = page.bound[c] /\ page'.outcome[c] = page.outcome[c]
      BY <2>2, <2>10 DEF Hears
    <3>2. ASSUME page.outcome[c] = "none", page.bound[c] = c PROVE e.task # c \/ e.type # "delta"
      <4>1. PendingIn(page, c)
        BY <1>4, <2>1, <3>2 DEF CallsInOrder, PendingIn, PageType
      <4>2. page.byTask[c] = c
        BY <1>4, <3>2, <4>1 DEF DispatcherAgrees
      <4> QED
        BY <2>1, <2>10, <4>2 DEF Found
    <3>3. ASSUME page.outcome[c] = "none", page.bound[c] = None, task[c] # "absent"
          PROVE  Announced(stream', c) /\ InFlight(stream', c) = emitted[c]
      <4>1. Announced(stream, c) /\ InFlight(stream, c) = emitted[c]
        BY <2>1, <3>3 DEF Accounted
      <4>2. PendingIn(page, c)
        <5>1. page.sub[c] # "none"
          BY <3>3 DEF DeliveryInv, NetworkAgrees
        <5> QED
          BY <1>4, <3>3, <5>1 DEF CallsInOrder, PendingIn, PageType
      <4>3. e.task = c => e.type # "queued"
        <5> SUFFICES ASSUME e.task = c, e.type = "queued" PROVE FALSE
          OBVIOUS
        <5>1. page.byKey[KeyOf(c)] = c /\ (page.byTask[c] \in Call \cup {None})
          BY <1>4, <4>2 DEF DispatcherAgrees, PageType
        <5>2. page.byTask[c] = None
          <6> SUFFICES ASSUME page.byTask[c] # None PROVE FALSE
            OBVIOUS
          <6>1. PICK d \in Call : d = page.byTask[c]
            BY <5>1
          <6>2. PendingIn(page, d) /\ page.bound[d] = c
            BY <1>4, <6>1 DEF DispatcherAgrees
          <6>3. KeyOf(c) = KeyOf(d)
            BY <1>4, <2>1, <6>2 DEF CallsInOrder
          <6>4. d = c
            BY <1>4, <4>2, <6>2, <6>3, OnePerKey
          <6> QED
            BY <2>1, <3>3, <6>2, <6>4
        <5> QED
          BY <2>10, <5>1, <5>2 DEF Found
      <4>4. e.task = c => e.type # "delta"
        <5> SUFFICES ASSUME e.task = c PROVE e.type # "delta"
          OBVIOUS
        <5>1. Announced(stream', c)
          BY <1>6, <4>1, <4>3 DEF Remains
        <5>2. PICK i \in DOMAIN stream' : stream'[i] = [task |-> c, type |-> "queued"]
          BY <5>1 DEF Announced
        <5> QED
          BY <1>9, <5>2
      <4> QED
        BY <1>6, <2>5, <4>1, <4>3, <4>4 DEF Remains
    <3> QED
      BY <1>1, <2>1, <2>3, <2>5, <2>7, <3>1, <3>2, <3>3 DEF Accounted
  <2>11. CASE c = Found(page, e) /\ page.bound[c] \notin {None, e.task}
    <3>1. page'.text[c] = page.text[c] /\ page'.bound[c] = page.bound[c] /\ page'.outcome[c] = "conflict"
      BY <2>2, <2>11 DEF Hears
    <3> QED
      BY <1>1, <2>7, <2>11, <3>1 DEF Accounted
  <2>12. CASE c = Found(page, e) /\ page.bound[c] \in {None, e.task}
    <3>1. /\ PendingIn(page, c)
          /\ page'.text[c] = IF e.type = "delta" THEN page.text[c] + 1 ELSE page.text[c]
          /\ page'.bound[c] = e.task
          /\ page'.outcome[c] = IF e.type \in Terminal THEN EndOf(e.type) ELSE "none"
      BY <2>2, <2>12 DEF Hears
    <3>2. page.outcome[c] = "none"
      BY <3>1 DEF PendingIn
    <3>3. e.task = c => /\ page'.text[c] + InFlight(stream', c) = emitted[c]
                        /\ e.type \in Terminal => page'.text[c] = emitted[c] /\ task[c] \in Terminal
      BY <2>1, <2>2, <2>3, <2>5, <2>8, <2>9, <2>12, <3>1, <3>2
    <3>4. page'.outcome[c] = "answer" => e.type \in Terminal
      BY <3>1
    <3> QED
      BY <1>1, <2>2, <2>7, <3>1, <3>3, <3>4 DEF Accounted
  <2> QED
    BY <2>10, <2>11, <2>12
<1> QED
  BY <1>1, <1>3, <1>6, <1>8, <1>10 DEF Unbroken, Remains

\* A page whose texts, bindings and outcomes stand is quiet; so are two quiet steps
\* the second of which binds nobody.
LEMMA SamePageIsQuiet ==
  ASSUME NEW p, NEW q, q.text = p.text, q.bound = p.bound, q.outcome = p.outcome
  PROVE  Quiet(p, q)
BY DEF Quiet

\* The calls that register were neither bound nor settled.
LEMMA RegisteringIsQuiet ==
  ASSUME NEW p, PageInv(p), NEW C \in SUBSET Call, \A c \in C : p.stage[c] = "connecting"
  PROVE  Quiet(p, Register(p, C))
<1>1. PICK q : q = Register(p, C)
  OBVIOUS
<1>2. q.bound = p.bound /\ \A d \in Call : Registers(p, q, C, d)
  BY <1>1, RegisterKeeps
<1>3. q.text = p.text
  BY <1>1, RegisterText, PagesHaveText DEF PageInv
<1>4. \A c \in C : p.outcome[c] = "none"
  BY DEF PageInv, CallsInOrder
<1>5. \A d \in Call : q.outcome[d] = p.outcome[d] \/ q.outcome[d] \notin {"none", "answer"}
  BY <1>2, <1>4 DEF Registers
<1> QED
  BY <1>1, <1>2, <1>3, <1>5 DEF Quiet

LEMMA AbortIsQuiet ==
  ASSUME NEW p, PageInv(p), NEW c \in Call, ActiveIn(p, c)
  PROVE  Quiet(p, Abort(p, c))
<1>1. PICK q : q = Abort(p, c)
  OBVIOUS
<1>2. /\ q.bound = p.bound
      /\ \A d \in Call : q.outcome[d] = p.outcome[d] \/ q.outcome[d] = "aborted"
  BY <1>1, AbortKeeps
<1>3. q.text = p.text
  BY <1>1, AbortText, PagesHaveText DEF PageInv
<1> QED
  BY <1>1, <1>2, <1>3 DEF Quiet

\* The connection: a stream is emptied before it is open, or is lost and counted.
LEMMA SubscribeText ==
  ASSUME DeliveryInv, TextInv, Subscribe
  PROVE  TextInv'
<1>1. Quiet(page, page')
  BY SamePageIsQuiet DEF Subscribe
<1>2. conn \in {"connecting", "gap"} /\ conn # "open"
  BY DEF Subscribe
<1> QED
  BY <1>1, <1>2, QuietKeeps DEF Subscribe

LEMMA OnOpenText ==
  ASSUME DeliveryInv, TextInv, OnOpen
  PROVE  TextInv'
<1>1. PICK C \in SUBSET Call : C = Waiting
  BY DEF Waiting
<1>2. \A c \in C : page.stage[c] = "connecting"
  BY <1>1 DEF Waiting
<1>3. page' = Register(page, C)
  BY <1>1 DEF OnOpen, Registered
<1>4. Quiet(page, page')
  BY <1>2, <1>3, RegisteringIsQuiet DEF DeliveryInv
<1>5. /\ UNCHANGED <<task, emitted, stream, drops>> /\ conn' = "open" /\ subscribed'
  BY DEF OnOpen
<1> QED
  BY <1>4, <1>5, QuietKeeps

LEMMA OnErrorUnopenedText ==
  ASSUME DeliveryInv, TextInv, OnErrorUnopened
  PROVE  TextInv'
<1>1. PICK C : C = Waiting
  OBVIOUS
<1>2. C = {c \in Call : page.stage[c] = "connecting"}
  BY <1>1 DEF Waiting
<1>3. page' = Refused(page, C)
  BY <1>1 DEF OnErrorUnopened, Refused
<1>4. page'.sub = page.sub /\ page'.bound = page.bound
      /\ \A d \in Call : page'.outcome[d] = IF d \in C THEN "unconnected" ELSE page.outcome[d]
  BY <1>2, <1>3, RefusalKeeps DEF DeliveryInv
<1>5. page'.text = page.text
  BY <1>3, PagesHaveText DEF Refused, DeliveryInv, PageInv
<1>6. Quiet(page, page')
  BY <1>4, <1>5 DEF Quiet
<1>7. /\ UNCHANGED <<task, emitted, drops>> /\ conn = "connecting" /\ conn' = "none" /\ stream' = <<>>
  BY DEF OnErrorUnopened
<1> QED
  BY <1>4, <1>6, <1>7, QuietKeeps

\* Once a connection is lost nothing is claimed any more.
LEMMA LossText ==
  ASSUME DeliveryInv, TextInv, OnErrorOpened \/ GivesUp
  PROVE  TextInv'
<1>1. emitted \in [Call -> Nat] /\ drops \in Nat /\ emitted' = emitted
  BY DEF TextInv, OnErrorOpened, GivesUp
<1>2. CASE OnErrorOpened
  <2>1. drops' \in Nat /\ drops' # 0
    BY <1>1, <1>2 DEF OnErrorOpened
  <2> QED
    BY <1>1, <2>1 DEF TextInv
<1>3. CASE GivesUp
  <2>1. drops' = drops /\ drops # 0
    BY <1>3 DEF GivesUp, TextInv, Unbroken
  <2> QED
    BY <1>1, <2>1 DEF TextInv
<1> QED
  BY <1>2, <1>3

\* A call begins: it waits for the stream, or registers on it.
LEMMA BeginText ==
  ASSUME DeliveryInv, TextInv, NEW c \in Call, Begin(c)
  PROVE  TextInv'
<1>1. PICK in : in = Starts(page, c)
  OBVIOUS
<1>2. /\ PageInv(in) /\ in.outcome = page.outcome /\ in.sub = page.sub /\ in.bound = page.bound
      /\ \A d \in Call : in.stage[d] = IF d = c THEN "connecting" ELSE page.stage[d]
  <2>1. PageInv(page) /\ MayStart(page, c)
    BY MayBeginStarts DEF DeliveryInv, Begin
  <2> QED
    BY <1>1, <2>1, StartKeeps
<1>3. in.text = page.text
  BY <1>1, PagesHaveText DEF Starts, DeliveryInv, PageInv
<1>4. page' = IF Opened THEN Register(in, {c}) ELSE in
  BY <1>1 DEF Begin, Starts
<1>5. /\ UNCHANGED <<subscribed, stream, task, emitted, drops>>
      /\ conn' = IF conn = "none" THEN "connecting" ELSE conn
  BY DEF Begin
<1>6. Quiet(page, page')
  <2>1. CASE Opened
    <3>1. Quiet(in, page')
      BY <1>2, <1>4, <2>1, RegisteringIsQuiet
    <3> QED
      BY <1>2, <1>3, <3>1 DEF Quiet
  <2>2. CASE ~Opened
    BY <1>2, <1>3, <1>4, <2>2, SamePageIsQuiet
  <2> QED
    BY <2>1, <2>2
<1>7. drops = 0 => /\ conn' = conn \/ conn' \in {"none", "connecting", "open"}
                   /\ conn' = "open" => subscribed'
                   /\ conn' # "open" => conn # "open" /\ page'.sub = page.sub
  <2> SUFFICES ASSUME drops = 0
               PROVE  /\ conn' = conn \/ conn' \in {"none", "connecting", "open"}
                      /\ conn' = "open" => subscribed'
                      /\ conn' # "open" => conn # "open" /\ page'.sub = page.sub
    OBVIOUS
  <2>1. conn \in {"none", "connecting", "open"} /\ (conn = "open" => subscribed)
    BY DEF TextInv, Unbroken
  <2> QED
    BY <1>2, <1>4, <1>5, <2>1 DEF Opened
<1>8. drops \in Nat
  BY DEF TextInv
<1>9. CASE drops = 0
  BY <1>5, <1>6, <1>7, <1>9, QuietKeeps
<1>10. CASE drops # 0
  BY <1>5, <1>10 DEF TextInv
<1> QED
  BY <1>9, <1>10

\* What a page's step leaves as it was, when it is the page's alone.
LEMMA PageText ==
  ASSUME DeliveryInv, TextInv, Quiet(page, page'), UNCHANGED <<conn, subscribed, stream, task, emitted, drops>>,
         \A c \in Call : page.sub[c] = "none" => page'.sub[c] = "none"
  PROVE  TextInv'
<1>1. CASE drops = 0
  <2>1. conn = "open" => subscribed
    BY <1>1 DEF TextInv, Unbroken
  <2> QED
    BY <2>1, QuietKeeps
<1>2. CASE drops # 0
  BY <1>2 DEF TextInv
<1> QED
  BY <1>1, <1>2

LEMMA PostReturnsText ==
  ASSUME DeliveryInv, TextInv, NEW c \in Call, PostReturns(c)
  PROVE  TextInv'
<1>1. PageInv(page) /\ page.sub[c] = "sent" /\ page \in PageType
      /\ UNCHANGED <<conn, subscribed, stream, task, emitted, drops>>
  BY DEF DeliveryInv, PostReturns, PageInv
<1>2. PICK back : back = [page EXCEPT !.sub[c] = "task"]
  OBVIOUS
<1>3. /\ PageInv(back) /\ back.outcome = page.outcome /\ back.bound = page.bound
      /\ page.stage[c] \in {"registered", "done"} /\ back.stage = page.stage
      /\ \A d \in Call : back.sub[d] = IF d = c THEN "task" ELSE page.sub[d]
  BY <1>1, <1>2, SubKeeps
<1>4. back.text = page.text
  BY <1>1, <1>2, PagesHaveText
<1>5. PICK mid : mid = Bind(back, c, c, "queued")
  OBVIOUS
<1>6. "queued" \in TaskState /\ back \in PageType
  BY <1>3 DEF TaskState, PageInv
<1>7. PageInv(mid) /\ mid.sub = back.sub
  BY <1>3, <1>5, <1>6, BindKeeps
<1>8. Quiet(back, mid)
  <2>1. CASE back.outcome[c] # "none"
    <3>1. mid = back
      BY <1>5, <2>1 DEF Bind
    <3> QED
      BY <3>1, SamePageIsQuiet
  <2>2. CASE back.outcome[c] = "none"
    <3>1. Binds(back, mid, c, c)
      BY <1>5, <1>6, <2>2, Binding
    <3> QED
      BY <2>2, <3>1 DEF Binds, Quiet
  <2> QED
    BY <2>1, <2>2
<1>9. page' = Finally(mid)
  BY <1>2, <1>5 DEF PostReturns
<1>10. page'.text = mid.text /\ page'.outcome = mid.outcome /\ page'.bound = mid.bound /\ page'.sub = mid.sub
  BY <1>7, <1>9, TextStands, PagesHaveText, Finishing DEF PageInv
<1>11. Quiet(page, page')
  BY <1>3, <1>4, <1>8, <1>10 DEF Quiet
<1>12. \A d \in Call : page.sub[d] = "none" => page'.sub[d] = "none"
  BY <1>1, <1>3, <1>7, <1>10
<1> QED
  BY <1>1, <1>11, <1>12, PageText

LEMMA PostFailsText ==
  ASSUME DeliveryInv, TextInv, NEW c \in Call, PostFails(c)
  PROVE  TextInv'
<1>1. PageInv(page) /\ page.sub[c] = "sent" /\ page \in PageType
      /\ UNCHANGED <<conn, subscribed, stream, task, emitted, drops>>
  BY DEF DeliveryInv, PostFails, PageInv
<1>2. PICK back : back = [page EXCEPT !.sub[c] = "rejected"]
  OBVIOUS
<1>3. /\ PageInv(back) /\ back.outcome = page.outcome /\ back.bound = page.bound
      /\ page.stage[c] \in {"registered", "done"} /\ back.stage = page.stage
      /\ \A d \in Call : back.sub[d] = IF d = c THEN "rejected" ELSE page.sub[d]
  BY <1>1, <1>2, SubKeeps
<1>4. back.text = page.text
  BY <1>1, <1>2, PagesHaveText
<1>5. PICK mid : mid = Settle(back, c, "refused")
  OBVIOUS
<1>6. "refused" \in Outcome /\ back \in PageType
  BY <1>3 DEF Outcome, PageInv
<1>7. mid \in PageType /\ mid.sub = back.sub /\ Quiet(back, mid)
  <2>1. CASE back.outcome[c] # "none"
    <3>1. mid = back
      BY <1>5, <2>1 DEF Settle
    <3> QED
      BY <1>6, <3>1, SamePageIsQuiet
  <2>2. CASE back.outcome[c] = "none"
    <3>1. /\ mid \in PageType /\ mid.sub = back.sub /\ mid.bound = back.bound
          /\ \A d \in Call : mid.outcome[d] = IF d = c THEN "refused" ELSE back.outcome[d]
      BY <1>5, <1>6, <2>2, Settling
    <3>2. mid.text = back.text
      BY <1>5, <1>6, TextStands, PagesHaveText
    <3> QED
      BY <3>1, <3>2 DEF Quiet
  <2> QED
    BY <2>1, <2>2
<1>8. page' = Finally(mid)
  BY <1>2, <1>5 DEF PostFails
<1>9. page'.text = mid.text /\ page'.outcome = mid.outcome /\ page'.bound = mid.bound /\ page'.sub = mid.sub
  BY <1>7, <1>8, TextStands, PagesHaveText, Finishing
<1>10. Quiet(page, page')
  BY <1>3, <1>4, <1>7, <1>9 DEF Quiet
<1>11. \A d \in Call : page.sub[d] = "none" => page'.sub[d] = "none"
  BY <1>1, <1>3, <1>7, <1>9
<1> QED
  BY <1>1, <1>10, <1>11, PageText

\* The stop button aborts, which gives no text.
LEMMA AbortingText ==
  ASSUME DeliveryInv, TextInv, NEW p, PageInv(p), p.text = page.text, p.bound = page.bound,
         p.outcome = page.outcome, p.sub = page.sub,
         NEW n \in Node, p.controller[n] # None, page' = Abort(p, p.controller[n]),
         UNCHANGED <<conn, subscribed, stream, task, emitted, drops>>
  PROVE  TextInv'
<1>h. p.controller \in [Node -> Call \cup {None}] /\ HookAgrees(p)
  BY DEF PageInv, PageType
<1>c. p.controller[n] \in Call
  BY <1>h
<1>1. p.controller[n] \in Call /\ ActiveIn(p, p.controller[n])
  BY <1>h, <1>c DEF HookAgrees
<1>2. PICK c \in Call : c = p.controller[n]
  BY <1>1
<1>3. ActiveIn(p, c) /\ page' = Abort(p, c)
  BY <1>1, <1>2
<1>4. Quiet(page, page')
  <2>1. Quiet(p, page')
    BY <1>3, AbortIsQuiet
  <2> QED
    BY <2>1 DEF Quiet
<1>5. \A d \in Call : page'.sub[d] = p.sub[d] \/ (p.sub[d] = "sent" /\ page'.sub[d] = "rejected")
  BY <1>3, AbortKeeps
<1>6. \A d \in Call : page.sub[d] = "none" => page'.sub[d] = "none"
  BY <1>5
<1> QED
  BY <1>4, <1>6, PageText

LEMMA PressStopText ==
  ASSUME DeliveryInv, TextInv, NEW n \in Node, PressStop(n)
  PROVE  TextInv'
<1>1. PageInv(page) /\ page.controller[n] # None /\ UNCHANGED <<conn, subscribed, stream, task, emitted, drops>>
  BY DEF DeliveryInv, PressStop
<1>2. page' = page \/ page' = Abort(page, page.controller[n])
  BY DEF PressStop
<1>3. CASE page' = page
  BY <1>1, <1>3, SamePageIsQuiet, PageText
<1>4. CASE page' = Abort(page, page.controller[n])
  BY <1>1, <1>4, AbortingText
<1> QED
  BY <1>2, <1>3, <1>4

LEMMA StopReturnsText ==
  ASSUME DeliveryInv, TextInv, NEW n \in Node, StopReturns(n)
  PROVE  TextInv'
<1>1. /\ PageInv(page) /\ task \in [Call -> TaskState] /\ stop[n].task \in Call
      /\ UNCHANGED <<conn, subscribed, stream, task, emitted, drops>>
  BY DEF DeliveryInv, DeliveryTypeOK, StopsAreTrue, StopReturns
<1>2. PICK t \in Call, s \in TaskState : t = stop[n].task /\ s = task[t]
  BY <1>1
<1>3. PICK known : known = Publish(page, t, s)
  OBVIOUS
<1>4. /\ PageInv(known) /\ known.outcome = page.outcome /\ known.sub = page.sub /\ known.bound = page.bound
      /\ known.controller = page.controller
  BY <1>1, <1>3, PublishKeeps
<1>5. known.text = page.text
  BY <1>1, <1>3, TextStands, PagesHaveText DEF PageInv
<1>6. page' = IF s = "cancelled" /\ page.controller[n] # None THEN Abort(known, page.controller[n]) ELSE known
  BY <1>2, <1>3 DEF StopReturns
<1>7. CASE s = "cancelled" /\ page.controller[n] # None
  BY <1>1, <1>4, <1>5, <1>6, <1>7, AbortingText
<1>8. CASE ~(s = "cancelled" /\ page.controller[n] # None)
  <2>1. page' = known
    BY <1>6, <1>8
  <2>2. Quiet(page, page')
    BY <1>4, <1>5, <2>1, SamePageIsQuiet
  <2> QED
    BY <1>1, <1>4, <2>1, <2>2, PageText
<1> QED
  BY <1>7, <1>8

\* Steps that touch neither the page nor the stream.
LEMMA ElsewhereText ==
  ASSUME DeliveryInv, TextInv, UNCHANGED <<page, conn, subscribed, stream, task, emitted, drops>>
  PROVE  TextInv'
BY SamePageIsQuiet, PageText

\* The server.
LEMMA MoveText ==
  ASSUME DeliveryInv, TextInv, NEW c \in Call, NEW from \in {"queued", "running"},
         NEW to \in {"running", "completed", "failed", "cancelled"}, ServerMoves(c, from, to)
  PROVE  TextInv'
<1>1. /\ task[c] = from /\ task' = [task EXCEPT ![c] = to] /\ Publishes(c, to)
      /\ UNCHANGED <<page, conn, subscribed, drops>> /\ emitted' = emitted
  BY DEF ServerMoves
<1>2. /\ task \in [Call -> TaskState] /\ page.sub[c] # "none"
  BY <1>1 DEF DeliveryInv, DeliveryTypeOK, NetworkAgrees
<1>3. /\ to \in TaskState \cup {"delta"} /\ task[c] \notin Terminal /\ (task[c] = "absent" <=> to = "queued")
      /\ to # "delta" /\ task'[c] # "absent" /\ \A d \in Call \ {c} : task'[d] = task[d]
  BY <1>1, <1>2 DEF TaskState, Terminal
<1> QED
  BY <1>1, <1>2, <1>3, PublishingKeeps

LEMMA AcceptText ==
  ASSUME DeliveryInv, TextInv, NEW c \in Call, ServerAccepts(c)
  PROVE  TextInv'
<1>1. /\ post[c] = "request" /\ task' = [task EXCEPT ![c] = "queued"] /\ Publishes(c, "queued")
      /\ UNCHANGED <<page, conn, subscribed, drops>> /\ emitted' = emitted
  BY DEF ServerAccepts
<1>2. /\ task \in [Call -> TaskState] /\ page.sub[c] # "none" /\ task[c] = "absent"
  BY <1>1 DEF DeliveryInv, DeliveryTypeOK, NetworkAgrees
<1>3. /\ "queued" \in TaskState \cup {"delta"} /\ task[c] \notin Terminal
      /\ task'[c] # "absent" /\ \A d \in Call \ {c} : task'[d] = task[d]
  BY <1>1, <1>2 DEF TaskState, Terminal
<1> QED
  BY <1>1, <1>2, <1>3, PublishingKeeps

LEMMA StreamText ==
  ASSUME DeliveryInv, TextInv, NEW c \in Call, ServerStreams(c)
  PROVE  TextInv'
<1>1. /\ task[c] = "running" /\ task' = task /\ Publishes(c, "delta")
      /\ emitted' = [emitted EXCEPT ![c] = @ + 1]
      /\ UNCHANGED <<page, conn, subscribed, drops>>
  BY DEF ServerStreams
<1>2. page.sub[c] # "none"
  BY <1>1 DEF DeliveryInv, NetworkAgrees
<1>3. "delta" \in TaskState \cup {"delta"} /\ task[c] \notin Terminal
  BY <1>1 DEF Terminal
<1> QED
  BY <1>1, <1>2, <1>3, PublishingKeeps

LEMMA TextInit ==
  Init => TextInv
<1> SUFFICES ASSUME Init PROVE TextInv
  OBVIOUS
<1>1. DOMAIN <<>> = {}
  OBVIOUS
<1>2. InOrder(stream) /\ \A c \in Call : Silent(stream, c)
  BY <1>1 DEF Init, InOrder, Silent
<1>3. None \notin Call
  BY Keys
<1>4. \A c \in Call : Accounted(c)
  BY <1>2, <1>3 DEF Init, Accounted
<1>5. \A c \in Call : page.sub[c] = "none"
  BY DEF Init
<1> QED
  BY <1>2, <1>4, <1>5 DEF Init, TextInv, Unbroken

LEMMA TextNext ==
  ASSUME DeliveryInv, TextInv, [Next]_vars
  PROVE  TextInv'
<1>1. CASE Subscribe \/ OnOpen \/ OnErrorUnopened \/ OnErrorOpened \/ GivesUp \/ Deliver
  BY <1>1, SubscribeText, OnOpenText, OnErrorUnopenedText, LossText, DeliveringKeeps
<1>2. ASSUME NEW c \in Call,
             \/ Begin(c) \/ PostReturns(c) \/ PostFails(c) \/ ServerAccepts(c) \/ ServerRefuses(c)
             \/ ServerStarts(c) \/ ServerStreams(c) \/ ServerEnds(c)
      PROVE  TextInv'
  <2>1. CASE ServerRefuses(c)
    BY <2>1, ElsewhereText DEF ServerRefuses
  <2>2. CASE ServerStarts(c)
    BY <2>2, MoveText DEF ServerStarts
  <2>3. CASE ServerEnds(c)
    <3>1. PICK to \in {"completed", "failed"} : ServerMoves(c, "running", to)
      BY <2>3 DEF ServerEnds
    <3> QED
      BY <3>1, MoveText
  <2> QED
    BY <1>2, <2>1, <2>2, <2>3, BeginText, PostReturnsText, PostFailsText, AcceptText, StreamText
<1>3. ASSUME NEW n \in Node,
             PressStop(n) \/ CancelReaches(n) \/ CancelAnswers(n) \/ StopReturns(n) \/ StopFails(n)
      PROVE  TextInv'
  <2>1. CASE CancelReaches(n)
    <3>1. PICK t \in Call : t = stop[n].task
      BY <2>1 DEF DeliveryInv, StopsAreTrue, CancelReaches
    <3>2. PICK from \in {"queued", "running"} : ServerMoves(t, from, "cancelled")
      BY <2>1, <3>1 DEF CancelReaches
    <3> QED
      BY <3>2, MoveText
  <2>2. CASE CancelAnswers(n) \/ StopFails(n)
    BY <2>2, ElsewhereText DEF CancelAnswers, StopFails
  <2> QED
    BY <1>3, <2>1, <2>2, PressStopText, StopReturnsText
<1>4. CASE UNCHANGED vars
  BY <1>4, ElsewhereText DEF vars
<1> QED
  BY <1>1, <1>2, <1>3, <1>4 DEF Next

\* While no connection is lost, a call that is answered by its own task has every
\* token of it, although responses and events overtake each other and a token
\* names no task record (taskEventDispatcher.ts).
THEOREM StreamsAreWhole == DeliverySpec => []StreamsWhole
<1>1. TextInv /\ DeliveryInv /\ [Next]_vars => TextInv'
  BY TextNext
<1>2. TextInv => StreamsWhole
  BY DEF TextInv, Unbroken, Accounted, StreamsWhole
<1> QED
  BY <1>1, <1>2, TextInit, DeliveryInvariant, PTL DEF DeliverySpec
=============================================================================
