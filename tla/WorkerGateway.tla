--------------------------- MODULE WorkerGateway ---------------------------
(***************************************************************************)
(* The HTTP services the Router calls: the real gateway in front of vLLM   *)
(* (runtime/real_worker/app.py) and the mock (runtime/mock_worker/app.py). *)
(* Each bounds its concurrent requests by a semaphore and counts the       *)
(* requests that wait and run; the counts are what /health reports.        *)
(*                                                                         *)
(* The two differ in where they take the permit.  The real gateway takes   *)
(* it in the handler, before the response exists, and gives it back in the *)
(* finally of the response's generator; the mock does both in the          *)
(* generator.  A server starts a response's generator only if the client   *)
(* is still there, and never cancels a handler because a client left.      *)
(*                                                                         *)
(* A request is named by the task it serves.  The 409 of a task received   *)
(* twice is left out: the Router sends each task once.                     *)
(***************************************************************************)
EXTENDS TaskIds, Sequences, SequencesExt, FiniteSets, Integers

CONSTANTS
  None,              \* no worker
  Chat,              \* the tasks served by /v1/chat; the others by /v1/structure
  Worker,            \* the configured endpoints
  Real,              \* those that are real gateways; the others are mocks
  MaxConcurrency     \* config.max_concurrency of each worker

ASSUME WorkerAssumption ==
  /\ Real \subseteq Worker /\ Chat \subseteq Task /\ None \notin Worker
  /\ MaxConcurrency \in [Worker -> Nat \ {0}]

VARIABLES
  request,      \* request[t]: its stage, and its worker
  connected,    \* the requests whose client still waits for the answer
  line,         \* line[w]: the waiters of w's semaphore, oldest first
  permits,      \* permits[w]: the value of w's semaphore
  running,      \* running[w]
  waiting,      \* waiting[w]
  lost          \* lost[w]: the permits of w no request will ever give back

workerVars == <<request, connected, line, permits, running, waiting, lost>>

Stage == {"none", "sent", "waiting", "granted", "setup", "ready", "streaming", "over"}

NoRequest == [stage |-> "none", at |-> None]

WorkerInit ==
  /\ request = [t \in Task |-> NoRequest]
  /\ connected = {}
  /\ line = [w \in Worker |-> <<>>]
  /\ permits = MaxConcurrency
  /\ running = [w \in Worker |-> 0]
  /\ waiting = [w \in Worker |-> 0]
  /\ lost = [w \in Worker |-> 0]

Served(t) == request[t].at

IsReal(t) == Served(t) \in Real

\* The handler of a mock's chat answers before it asks for a permit.
PermitInStream(t) == t \in Chat /\ ~IsReal(t)

Staged(t, stage) ==
  IF stage = "over" /\ t \notin connected THEN NoRequest
  ELSE [stage |-> stage, at |-> Served(t)]

Moves(t, stage) == request' = [request EXCEPT ![t] = Staged(t, stage)]

Smaller(a, b) == IF a < b THEN a ELSE b

At(w, stages) == {t \in Task : request[t].stage \in stages /\ Served(t) = w}

ReportedLoad(w) == running[w] + waiting[w]

\* asyncio.Semaphore: t leaves for stage; queue are the waiters then, value the
\* free permits, and the first n of the queue are given one.
Wakes(t, stage, queue, value, n) ==
  LET w == Served(t) IN
  /\ line' = [line EXCEPT ![w] = SubSeq(queue, n + 1, Len(queue))]
  /\ permits' = [permits EXCEPT ![w] = value - n]
  /\ request' = [u \in Task |->
       IF u = t THEN Staged(t, stage)
       ELSE IF \E i \in 1..n : queue[i] = u
         THEN [request[u] EXCEPT !.stage = "granted"] ELSE request[u]]

\* acquire() wakes as many waiters as there are permits when it returns or is
\* cancelled; release() wakes one.
WakesAll(t, stage, queue, value) ==
  Wakes(t, stage, queue, value, Smaller(value, Len(queue)))

\* What follows a permit: the upstream call, or the mock's stream.
AfterPermit(t) == IF IsReal(t) THEN "setup" ELSE "streaming"

\* begin / execution: count the request, then the semaphore.  A free permit is
\* taken without suspending, but not past a waiter that has yet to resume.
Begin(t) ==
  LET w == Served(t) IN
  /\ IF permits[w] > 0 /\ At(w, {"granted"}) = {}
       THEN /\ permits' = [permits EXCEPT ![w] = @ - 1]
            /\ running' = [running EXCEPT ![w] = @ + 1]
            /\ Moves(t, AfterPermit(t)) /\ UNCHANGED <<line, waiting>>
       ELSE /\ line' = [line EXCEPT ![w] = Append(@, t)]
            /\ waiting' = [waiting EXCEPT ![w] = @ + 1]
            /\ Moves(t, "waiting") /\ UNCHANGED <<permits, running>>
  /\ UNCHANGED <<connected, lost>>

\* The router opens the request on worker w.
Send(t, w) ==
  /\ request[t].stage = "none"
  /\ request' = [request EXCEPT ![t] = [stage |-> "sent", at |-> w]]
  /\ connected' = connected \cup {t}
  /\ UNCHANGED <<line, permits, running, waiting, lost>>

\* The client reads the end of the answer, or drops the connection: cancelled,
\* timed out, or unhappy with what it read.
Disconnects(t) ==
  /\ connected' = connected \ {t}
  /\ request' = IF request[t].stage = "over"
                  THEN [request EXCEPT ![t] = NoRequest] ELSE request
  /\ UNCHANGED <<line, permits, running, waiting, lost>>

\* The handler runs.  A mock refuses when it is unhealthy.
Receive(t) ==
  /\ request[t].stage = "sent"
  /\ \/ ~PermitInStream(t) /\ Begin(t)
     \/ /\ PermitInStream(t)
        /\ Moves(t, "ready") /\ UNCHANGED <<connected, line, permits, running, waiting, lost>>
     \/ /\ ~IsReal(t)
        /\ Moves(t, "over") /\ UNCHANGED <<connected, line, permits, running, waiting, lost>>

\* The waiter that was given a permit resumes.
Resume(t) ==
  LET w == Served(t) IN
  /\ request[t].stage = "granted"
  /\ ~PermitInStream(t) \/ t \in connected
  /\ waiting' = [waiting EXCEPT ![w] = @ - 1]
  /\ running' = [running EXCEPT ![w] = @ + 1]
  /\ WakesAll(t, AfterPermit(t), line[w], permits[w])
  /\ UNCHANGED <<connected, lost>>

\* Mutant: the release wakes nobody.
FinishForgetsWaiters(t) ==
  LET w == Served(t) IN
  /\ running' = [running EXCEPT ![w] = @ - 1]
  /\ Wakes(t, "over", line[w], permits[w] + 1, 0)
  /\ UNCHANGED <<connected, waiting, lost>>

\* finish / the end of execution: the permit goes back.
Finish(t) ==
  LET w == Served(t) IN
  /\ running' = [running EXCEPT ![w] = @ - 1]
  /\ Wakes(t, "over", line[w], permits[w] + 1, Smaller(1, Len(line[w])))
  /\ UNCHANGED <<connected, waiting, lost>>

\* vLLM answers the real gateway's chat: with a failure the request is over,
\* else the response object exists.
ChatAnswers(t) ==
  /\ request[t].stage = "setup" /\ t \in Chat
  /\ \/ Finish(t)
     \/ /\ Moves(t, "ready")
        /\ UNCHANGED <<connected, line, permits, running, waiting, lost>>

\* It answers with a card, or fails; either way the request is over.
StructureAnswers(t) ==
  request[t].stage = "setup" /\ t \notin Chat /\ Finish(t)

\* The server starts the generator of a response whose client is there.
StartStream(t) ==
  /\ request[t].stage = "ready" /\ t \in connected
  /\ IF IsReal(t)
       THEN Moves(t, "streaming")
            /\ UNCHANGED <<connected, line, permits, running, waiting, lost>>
       ELSE Begin(t)

\* The response of a client that left is dropped: its generator never starts,
\* and what its finally would give back stays taken.
DropResponse(t) ==
  /\ request[t].stage = "ready" /\ t \notin connected
  /\ Moves(t, "over")
  /\ lost' = IF IsReal(t) THEN [lost EXCEPT ![Served(t)] = @ + 1] ELSE lost
  /\ UNCHANGED <<connected, line, permits, running, waiting>>

\* A stream ends by itself, by an error, or because the client left.
EndStream(t) == request[t].stage = "streaming" /\ Finish(t)

\* The mock's stream is cancelled while it waits for its permit; a permit it
\* was already given goes to the next waiter.
CancelWait(t) ==
  LET w == Served(t) IN
  /\ PermitInStream(t) /\ t \notin connected
  /\ request[t].stage \in {"waiting", "granted"}
  /\ waiting' = [waiting EXCEPT ![w] = @ - 1]
  /\ \/ /\ request[t].stage = "waiting"
        /\ WakesAll(t, "over", RemoveFirst(line[w], t), permits[w])
     \/ /\ request[t].stage = "granted"
        /\ WakesAll(t, "over", line[w], permits[w] + 1)
  /\ UNCHANGED <<connected, running, lost>>

WorkerStep(t) ==
  \/ Receive(t) \/ Resume(t) \/ ChatAnswers(t) \/ StructureAnswers(t)
  \/ StartStream(t) \/ DropResponse(t) \/ EndStream(t) \/ CancelWait(t)

(***************************************************************************)
(* Properties.                                                             *)
(***************************************************************************)

\* The requests that hold a permit of w and know it.
Holders(w) ==
  At(w, {"setup", "streaming"})
    \cup {t \in At(w, {"ready"}) : IsReal(t)}

\* Every permit of a worker is free, held by a request, on its way to one, or
\* lost with a response that never started; the two counters /health reports
\* say exactly that.  The waiters are exactly those in line, and none waits
\* beside a free permit unless a waiter that will wake the rest is about to
\* resume.
PermitsAccounted ==
  \A w \in Worker :
    /\ permits[w] + running[w] + Cardinality(At(w, {"granted"})) = MaxConcurrency[w]
    /\ running[w] = Cardinality(Holders(w)) + lost[w]
    /\ waiting[w] = Cardinality(At(w, {"waiting", "granted"}))
    /\ Range(line[w]) = At(w, {"waiting"}) /\ IsInjective(line[w])
    /\ line[w] # <<>> => permits[w] = 0 \/ At(w, {"granted"}) # {}
=============================================================================
