--------------------------- MODULE EventDelivery ---------------------------
(***************************************************************************)
(* How the page learns what became of the tasks it asked for.  A call is   *)
(* one use of sendMessage, retryMessage or structureNode: it waits for the *)
(* event stream of the session, registers a pending request, submits it,   *)
(* binds it to a server task when either an event or the response names    *)
(* one, and settles on the task's last event, on a failed submission or on *)
(* an abort.  Stream and responses are separate channels and overtake each *)
(* other.  A call submits at most once, so its task carries its name.      *)
(*                                                                         *)
(* JavaScript runs to completion: what follows an event or a response up   *)
(* to the next await of the network is one step, written as operators on   *)
(* the page's record.                                                      *)
(***************************************************************************)
EXTENDS Naturals, Sequences, FiniteSets

CONSTANTS Call,       \* the calls, numbered in the order the page may begin them
          KindOf,     \* of each call: "send", "retry" or "structure"
          NodeOf,     \* the node a call is about
          None,
          Plans,      \* bounds of a behaviour: the calls the user makes, connections
                      \* lost after they were open, presses of the stop button
          MaxDeltas   \* bound: token events per task

ASSUME DeliveryAssumption ==
  /\ Call \subseteq Nat /\ None \notin Call
  /\ KindOf \in [Call -> {"send", "retry", "structure"}]
  /\ \A c, d \in Call :  \* every question is asked on a node of its own
       KindOf[c] = "send" /\ NodeOf[d] = NodeOf[c] => c <= d
  /\ Plans \subseteq [calls : SUBSET Call, drops : Nat, stops : Nat]

VARIABLES page,       \* what the browser page holds
          conn,       \* the EventSource of the session
          subscribed, \* the bus has a subscriber for it
          stream,     \* events on their way to the page, in order
          task,       \* the server's tasks, by the call that created them
          retryOf,    \* the task a retry names
          emitted,    \* token events published for a task
          post,       \* the submission of each call on the network
          stop,       \* the stopStreaming running for each node
          plan,       \* what is left of the bounds
          drops       \* connections lost so far

vars == <<page, conn, subscribed, stream, task, retryOf, emitted, post, stop, plan, drops>>

Node == {NodeOf[c] : c \in Call}
IsChat(c) == KindOf[c] # "structure"
KeyOf(c) == <<NodeOf[c], IsChat(c)>>
Key == {KeyOf(c) : c \in Call}
Terminal == {"completed", "failed", "cancelled"}
Rank(s) == CASE s = "absent" -> 0 [] s = "queued" -> 1 [] s = "running" -> 2 [] OTHER -> 3
NoStop == [phase |-> "none", task |-> None]

Init ==
  /\ page = [stage |-> [c \in Call |-> "idle"], outcome |-> [c \in Call |-> "none"],
             sub |-> [c \in Call |-> "none"], bound |-> [c \in Call |-> None],
             byKey |-> [q \in Key |-> None], byTask |-> [t \in Call |-> None],
             known |-> [t \in Call |-> "absent"], text |-> [c \in Call |-> 0],
             controller |-> [n \in Node |-> None], submission |-> [n \in Node |-> None],
             aborted |-> {}]
  /\ conn = "none" /\ subscribed = FALSE /\ stream = <<>>
  /\ task = [t \in Call |-> "absent"] /\ retryOf = [c \in Call |-> None]
  /\ emitted = [t \in Call |-> 0] /\ post = [c \in Call |-> "none"]
  /\ stop = [n \in Node |-> NoStop] /\ plan \in Plans /\ drops = 0

-----------------------------------------------------------------------------
(* The page: each operator takes its record p and returns the next one.    *)

Publish(p, t, s) ==
  IF Rank(s) >= Rank(p.known[t]) THEN [p EXCEPT !.known[t] = s] ELSE p

\* Seeded faults: a settled request keeps its key; the key has no node; events
\* bind no request; only the last event does; a stop gives up at once.
SettleKeepsKey(p, c, how) ==
  IF p.outcome[c] # "none" THEN p
  ELSE [p EXCEPT !.outcome[c] = how,
                 !.byTask = [t \in Call |-> IF t = p.bound[c] THEN None ELSE @[t]]]

\* complete and fail, with cleanup.
Settle(p, c, how) ==
  IF p.outcome[c] # "none" THEN p
  ELSE [p EXCEPT !.outcome[c] = how, !.byKey[KeyOf(c)] = None,
                 !.byTask = [t \in Call |-> IF t = p.bound[c] THEN None ELSE @[t]]]

Bind(p, c, t, s) ==
  CASE p.outcome[c] # "none" -> p
    [] p.outcome[c] = "none" /\ p.bound[c] \notin {None, t} -> Settle(p, c, "conflict")
    [] OTHER -> Publish([p EXCEPT !.bound[c] = t, !.byTask[t] = c], t, s)

\* The finally of runObservedChat, and the end of structureNode.
Finally(p) ==
  LET over == {c \in Call : /\ p.stage[c] = "registered" /\ p.outcome[c] # "none"
                            /\ p.sub[c] \in {"task", "rejected"}}
      Freed(m) == [n \in Node |-> IF m[n] \in over THEN None ELSE m[n]]
  IN  [p EXCEPT !.stage = [c \in Call |-> IF c \in over THEN "done" ELSE @[c]],
                !.submission = Freed(@), !.controller = Freed(@)]

\* register, then submit, of each call in C in the order they began: whose key
\* is taken is refused, an aborted one settles and leaves it; an aborted signal
\* stops the fetch of a send, not of a retry.
Register(p, C) ==
  LET taken(c) == \/ p.byKey[KeyOf(c)] # None
                  \/ \E d \in C \ p.aborted : d < c /\ KeyOf(d) = KeyOf(c)
      in       == {c \in C : ~taken(c)}
      Enters(q, c) == c \in in /\ KeyOf(c) = q
  IN  Finally([p EXCEPT
        !.stage = [c \in Call |-> IF c \notin C THEN @[c] ELSE IF c \in in THEN "registered" ELSE "done"],
        !.outcome = [c \in Call |-> CASE c \in C \ in -> "busy"
                                      [] c \in in \cap p.aborted -> "aborted"
                                      [] OTHER -> @[c]],
        !.sub = [c \in Call |-> IF c \notin in THEN @[c]
                                ELSE IF c \notin p.aborted \/ KindOf[c] = "retry" THEN "sent" ELSE "rejected"],
        !.byKey = [q \in Key |-> IF \E c \in Call \ p.aborted : Enters(q, c)
                                 THEN CHOOSE c \in Call \ p.aborted : Enters(q, c) ELSE @[q]],
        !.submission = [n \in Node |-> IF \E c \in Call : Enters(<<n, TRUE>>, c)
                                       THEN CHOOSE c \in Call : Enters(<<n, TRUE>>, c) ELSE @[n]],
        !.controller = [n \in Node |-> IF \E c \in C \ in : IsChat(c) /\ NodeOf[c] = n
                                       THEN None ELSE @[n]]])

\* The abort of a controller reaches the fetch of a send and the pending request.
Abort(p, c) ==
  LET out == [p EXCEPT !.aborted = @ \cup {c},
                       !.sub[c] = IF @ = "sent" /\ KindOf[c] = "send" THEN "rejected" ELSE @]
  IN  Finally(IF p.stage[c] = "registered" THEN Settle(out, c, "aborted") ELSE out)

FoundAnywhere(p, e) ==
  IF p.byTask[e.task] # None \/ e.type = "delta" \/ {p.byKey[q] : q \in Key} = {None}
  THEN p.byTask[e.task]
  ELSE p.byKey[CHOOSE q \in Key : p.byKey[q] # None]

\* A token event names no task record: it finds a request by its task only.
Found(p, e) ==
  IF p.byTask[e.task] # None \/ e.type = "delta" THEN p.byTask[e.task] ELSE p.byKey[KeyOf(e.task)]

EndOf(type) == CASE type = "completed" -> "answer" [] type = "failed" -> "failed" [] OTHER -> "aborted"

Observed(p, c, e) ==
  CASE e.type = "delta" -> [p EXCEPT !.text[c] = @ + 1]
    [] e.type \in Terminal -> Settle(p, c, EndOf(e.type))
    [] OTHER -> p

HandleBoundOnly(p, e) ==
  LET seen == IF e.type = "delta" THEN p ELSE Publish(p, e.task, e.type)
      c    == seen.byTask[e.task]
  IN  IF c = None THEN seen ELSE Finally(Observed(seen, c, e))

HandleBindsAtEnd(p, e) ==
  LET seen  == IF e.type = "delta" THEN p ELSE Publish(p, e.task, e.type)
      c     == IF e.type \in Terminal THEN Found(seen, e) ELSE seen.byTask[e.task]
      bound == IF c = None \/ e.type = "delta" THEN seen ELSE Bind(seen, c, e.task, e.type)
  IN  IF c = None \/ bound.bound[c] # e.task THEN bound ELSE Finally(Observed(bound, c, e))

Handle(p, e) ==
  LET seen  == IF e.type = "delta" THEN p ELSE Publish(p, e.task, e.type)
      c     == Found(seen, e)
      bound == IF c = None \/ seen.byTask[e.task] # None THEN seen
               ELSE Bind(seen, c, e.task, e.type)
  IN  IF c = None \/ bound.bound[c] # e.task THEN Finally(bound)
      ELSE Finally(Observed(bound, c, e))

-----------------------------------------------------------------------------
(* The stream.                                                             *)

Opened == conn \in {"open", "gap", "closed"}  \* the promise of ensureConnected is resolved

Waiting == {c \in Call : page.stage[c] = "connecting"}

\* Every call that waits for the stream registers.
Registered == Register(page, Waiting)

Submitted(p) == [c \in Call |-> IF p.sub[c] = "sent" /\ page.sub[c] = "none"
                                THEN "request" ELSE post[c]]

\* GET /v1/sessions/{id}/events: the subscription precedes the first byte.
Subscribe ==
  /\ conn \in {"connecting", "gap"} /\ ~subscribed
  /\ subscribed' = TRUE /\ stream' = <<>>
  /\ UNCHANGED <<page, conn, task, retryOf, emitted, post, stop, plan, drops>>

OnOpen ==
  /\ conn \in {"connecting", "gap"} /\ subscribed
  /\ conn' = "open" /\ page' = Registered /\ post' = Submitted(page')
  /\ UNCHANGED <<subscribed, stream, task, retryOf, emitted, stop, plan, drops>>

\* onerror before the first open: everybody who waits is refused.
OnErrorUnopened ==
  /\ conn = "connecting"
  /\ conn' = "none" /\ subscribed' = FALSE /\ stream' = <<>>
  /\ page' = [page EXCEPT
       !.stage = [c \in Call |-> IF c \in Waiting THEN "done" ELSE @[c]],
       !.outcome = [c \in Call |-> IF c \in Waiting THEN "unconnected" ELSE @[c]],
       !.controller = [n \in Node |-> IF @[n] \in Waiting THEN None ELSE @[n]]]
  /\ UNCHANGED <<task, retryOf, emitted, post, stop, plan, drops>>

\* onerror later: ignored.  The browser reconnects; what is published meanwhile is gone.
OnErrorOpened ==
  /\ conn = "open" /\ drops < plan.drops
  /\ conn' = "gap" /\ subscribed' = FALSE /\ stream' = <<>> /\ drops' = drops + 1
  /\ UNCHANGED <<page, task, retryOf, emitted, post, stop, plan>>

\* The browser gives up; the multiplexer keeps the connection in its table.
GivesUp ==
  /\ conn = "gap" /\ ~subscribed
  /\ conn' = "closed"
  /\ UNCHANGED <<page, subscribed, stream, task, retryOf, emitted, post, stop, plan, drops>>

Deliver ==
  /\ conn = "open" /\ stream # <<>>
  /\ page' = Handle(page, Head(stream)) /\ stream' = Tail(stream)
  /\ UNCHANGED <<conn, subscribed, task, retryOf, emitted, post, stop, plan, drops>>

-----------------------------------------------------------------------------
(* The server, as TaskLifecycle promises it; events only to a subscriber.  *)

Publishes(t, type) ==
  stream' = IF subscribed THEN Append(stream, [task |-> t, type |-> type]) ELSE stream

Retriable(c) ==
  /\ task[retryOf[c]] \in {"failed", "cancelled"}
  /\ \A d \in Call \ {c} : retryOf[d] = retryOf[c] => task[d] = "absent"

ServerAccepts(c) ==
  /\ post[c] = "request" /\ (KindOf[c] = "retry" => Retriable(c))
  /\ task' = [task EXCEPT ![c] = "queued"] /\ post' = [post EXCEPT ![c] = "accepted"]
  /\ Publishes(c, "queued")
  /\ UNCHANGED <<page, conn, subscribed, retryOf, emitted, stop, plan, drops>>

ServerRefuses(c) ==
  /\ post[c] = "request"
  /\ post' = [post EXCEPT ![c] = "refused"]
  /\ UNCHANGED <<page, conn, subscribed, stream, task, retryOf, emitted, stop, plan, drops>>

ServerMoves(c, from, to) ==
  /\ task[c] = from
  /\ task' = [task EXCEPT ![c] = to] /\ Publishes(c, to)
  /\ UNCHANGED <<page, conn, subscribed, retryOf, emitted, post, stop, plan, drops>>

ServerStarts(c) == ServerMoves(c, "queued", "running")
ServerEnds(c) == \E to \in {"completed", "failed"} : ServerMoves(c, "running", to)

ServerStreams(c) ==
  /\ task[c] = "running" /\ IsChat(c) /\ emitted[c] < MaxDeltas
  /\ emitted' = [emitted EXCEPT ![c] = @ + 1] /\ Publishes(c, "delta")
  /\ UNCHANGED <<page, conn, subscribed, task, retryOf, post, stop, plan, drops>>

-----------------------------------------------------------------------------
(* Calls and their submissions.                                            *)

\* The tasks of a node the page knows to have failed or been cancelled; the last attempt.
Retryable(n) == {t \in Call : NodeOf[t] = n /\ IsChat(t) /\ page.known[t] \in {"failed", "cancelled"}}

\* A retry follows a settled, unanswered chat; a card the answer, one at a time.
MayBegin(c) ==
  LET earlier == {d \in Call : d < c /\ NodeOf[d] = NodeOf[c]}
  IN  /\ c \in plan.calls /\ page.stage[c] = "idle"
      /\ CASE KindOf[c] = "send" -> TRUE
           [] KindOf[c] = "retry" ->
                /\ Retryable(NodeOf[c]) # {}
                /\ \A d \in earlier : page.stage[d] = "done" /\ page.outcome[d] # "answer"
           [] OTHER ->
                /\ \E d \in earlier : page.stage[d] = "done" /\ page.outcome[d] = "answer"
                /\ \A d \in Call : KeyOf(d) = KeyOf(c) => page.stage[d] \in {"idle", "done"}

Begin(c) ==
  LET in == [page EXCEPT !.stage[c] = "connecting",
                         !.controller[NodeOf[c]] = IF IsChat(c) THEN c ELSE @]
  IN  /\ MayBegin(c)
      /\ page' = IF Opened THEN Register(in, {c}) ELSE in
      /\ conn' = IF conn = "none" THEN "connecting" ELSE conn
      /\ post' = Submitted(page')
      /\ retryOf' = IF KindOf[c] # "retry" THEN retryOf
                    ELSE [retryOf EXCEPT ![c] = CHOOSE t \in Retryable(NodeOf[c]) :
                                                  \A u \in Retryable(NodeOf[c]) : u <= t]
      /\ UNCHANGED <<subscribed, stream, task, emitted, stop, plan, drops>>

\* Whoever awaits the submission of c: a stop goes on to cancel its task, or fails with it.
StopAfter(c, next) ==
  [n \in Node |-> IF stop[n] = [phase |-> "waits", task |-> c] THEN next ELSE stop[n]]

PostReturns(c) ==
  /\ page.sub[c] = "sent" /\ post[c] = "accepted"
  /\ page' = Finally(Bind([page EXCEPT !.sub[c] = "task"], c, c, "queued"))
  /\ post' = [post EXCEPT ![c] = "none"]
  /\ stop' = StopAfter(c, [phase |-> "cancelling", task |-> c])
  /\ UNCHANGED <<conn, subscribed, stream, task, retryOf, emitted, plan, drops>>

\* Refused, or lost on the way there (it may still arrive) or back.
PostFails(c) ==
  /\ page.sub[c] = "sent" /\ post[c] \in {"request", "accepted", "refused"}
  /\ page' = Finally(Settle([page EXCEPT !.sub[c] = "rejected"], c, "refused"))
  /\ \E left \in {"none"} \cup ({post[c]} \cap {"request"}) : post' = [post EXCEPT ![c] = left]
  /\ stop' = StopAfter(c, NoStop)
  /\ UNCHANGED <<conn, subscribed, stream, task, retryOf, emitted, plan, drops>>

-----------------------------------------------------------------------------
(* The stop button.                                                        *)

PressStopAtOnce(n) ==
  /\ page.controller[n] # None /\ stop[n] = NoStop /\ plan.stops > 0
  /\ plan' = [plan EXCEPT !.stops = @ - 1]
  /\ page' = Abort(page, page.controller[n])
  /\ UNCHANGED <<conn, subscribed, stream, task, retryOf, emitted, post, stop, drops>>

PressStop(n) ==
  LET c == page.submission[n]
  IN  /\ page.controller[n] # None /\ stop[n] = NoStop /\ plan.stops > 0
      /\ plan' = [plan EXCEPT !.stops = @ - 1]
      /\ IF c = None
         THEN page' = Abort(page, page.controller[n]) /\ stop' = stop
         ELSE /\ stop' = [stop EXCEPT ![n] = [task |-> c,
                            phase |-> IF page.sub[c] = "sent" THEN "waits" ELSE "cancelling"]]
              /\ page' = page
      /\ UNCHANGED <<conn, subscribed, stream, task, retryOf, emitted, post, drops>>

\* The cancel reaches a task that has not ended; it is answered once the task has.
CancelReaches(n) ==
  /\ stop[n].phase = "cancelling"
  /\ \E from \in {"queued", "running"} : ServerMoves(stop[n].task, from, "cancelled")

CancelAnswers(n) ==
  /\ stop[n].phase = "cancelling" /\ task[stop[n].task] \in Terminal
  /\ stop' = [stop EXCEPT ![n].phase = "answered"]
  /\ UNCHANGED <<page, conn, subscribed, stream, task, retryOf, emitted, post, plan, drops>>

\* The answer is published; a cancelled task aborts the controller the node has now.
StopReturns(n) ==
  LET t == stop[n].task
      known == Publish(page, t, task[t])
  IN  /\ stop[n].phase = "answered"
      /\ stop' = [stop EXCEPT ![n] = NoStop]
      /\ page' = IF task[t] = "cancelled" /\ page.controller[n] # None
                 THEN Abort(known, page.controller[n]) ELSE known
      /\ UNCHANGED <<conn, subscribed, stream, task, retryOf, emitted, post, plan, drops>>

StopFails(n) ==
  /\ stop[n].phase \in {"cancelling", "answered"}
  /\ stop' = [stop EXCEPT ![n] = NoStop]
  /\ UNCHANGED <<page, conn, subscribed, stream, task, retryOf, emitted, post, plan, drops>>

-----------------------------------------------------------------------------
Next ==
  \/ Subscribe \/ OnOpen \/ OnErrorUnopened \/ OnErrorOpened \/ GivesUp \/ Deliver
  \/ \E c \in Call : \/ Begin(c) \/ PostReturns(c) \/ PostFails(c)
                     \/ ServerAccepts(c) \/ ServerRefuses(c)
                     \/ ServerStarts(c) \/ ServerStreams(c) \/ ServerEnds(c)
  \/ \E n \in Node : \/ PressStop(n) \/ CancelReaches(n) \/ CancelAnswers(n)
                     \/ StopReturns(n) \/ StopFails(n)

(* The stream opens and delivers, a submission is answered and the answer  *)
(* read, the server works on its tasks (Runtime); nothing is assumed of    *)
(* the user.  Each condition is stated on the variable the step moves.     *)
Subscribes == conn \in {"connecting", "gap"} /\ subscribed' = TRUE
Opens == conn \in {"connecting", "gap"} /\ subscribed /\ conn' = "open"
Delivers == conn = "open" /\ stream # <<>> /\ stream' = Tail(stream)
Answers == \E c \in Call, a \in {"accepted", "refused"} :
             post[c] = "request" /\ post' = [post EXCEPT ![c] = a]
Reads == \E c \in Call : /\ page.sub[c] = "sent" /\ post[c] \in {"accepted", "refused"}
                         /\ post' = [post EXCEPT ![c] = "none"]
Works == \E c \in Call, to \in {"running", "completed", "failed"} :
           /\ task[c] = IF to = "running" THEN "queued" ELSE "running"
           /\ task' = [task EXCEPT ![c] = to]

DeliverySpec ==
  /\ Init /\ [][Next]_vars
  /\ WF_subscribed(Subscribes) /\ WF_conn(Opens) /\ WF_stream(Delivers)
  /\ WF_post(Answers) /\ WF_post(Reads) /\ WF_task(Works)

-----------------------------------------------------------------------------
Active == {c \in Call : page.stage[c] \in {"connecting", "registered"}}
Pending == {c \in Call : page.stage[c] = "registered" /\ page.outcome[c] = "none"}

(* The tables of dispatcher and hook agree: a key leads to the pending     *)
(* request of that node and kind, a task to the pending request bound to   *)
(* it, a node to its active chat, and nothing of a settled call is left    *)
(* for the next one to stumble over.                                       *)
TablesAgree ==
  /\ \A q \in Key : LET c == page.byKey[q] IN c # None => c \in Pending /\ KeyOf(c) = q
  /\ \A c \in Pending : page.byKey[KeyOf(c)] = c
  /\ \A t, c \in Call : page.byTask[t] = c <=> c \in Pending /\ page.bound[c] = t
  /\ \A n \in Node : LET c == page.controller[n] IN
       /\ c # None => c \in Active
       /\ page.submission[n] \in {c, None}
  /\ \A c \in Active : IsChat(c) => page.controller[NodeOf[c]] = c
  /\ \A c \in Call : page.outcome[c] # "busy"

(* A call settles once, and with an answer or a failure only if a task of  *)
(* its own node and kind ended so.  That it is the very task the call      *)
(* created is not so: a task whose response was lost answers the next      *)
(* retry of the node, if it ends before the server refuses that.           *)
SettlesOnce ==
  [][\A c \in Call :
       IF page.outcome[c] # "none" THEN page'.outcome[c] = page.outcome[c]
       ELSE page'.outcome[c] \in {"answer", "failed"} =>
              /\ KeyOf(page'.bound[c]) = KeyOf(c)
              /\ page'.outcome[c] = EndOf(task[page'.bound[c]])]_vars

(* The stop button never abandons the task of a sent question: the call    *)
(* is aborted only if its task is cancelled or was never submitted.        *)
StoppedSendsAreCancelled ==
  \A c \in Call : KindOf[c] = "send" /\ page.outcome[c] = "aborted" =>
    post[c] # "request" /\ task[c] \in {"absent", "cancelled"}

(* What the comment in stopStreaming takes for granted, SSE normally       *)
(* settles the observer first and the response is a fallback: whoever the  *)
(* response aborts is the observer of the cancelled task, of a retry too.  *)
AbortedIsCancelled ==
  \A c \in Call : page.outcome[c] = "aborted" =>
    post[c] # "request" /\ task[c] \in {"absent", "cancelled"}

(* While no connection is lost, a call that ends with the answer of its    *)
(* own task was given every token of it, although token events name no     *)
(* task record: the tree keeps the streamed text, not the task's result.   *)
StreamsWhole ==
  \A c \in Call : page.outcome[c] = "answer" /\ IsChat(c) /\ drops = 0 /\ page.bound[c] = c =>
    page.text[c] = emitted[c]

(* The calls end, all of them, unless a connection was lost, in which case *)
(* the event that would end one may be gone: the bus keeps no replay.      *)
EveryCallEnds == Active # {} ~> Active = {} \/ drops > 0
=============================================================================
