------------------------- MODULE ExecutionRegistry -------------------------
(***************************************************************************)
(* The index of live asyncio execution handles                             *)
(* (runtime/app/execution_registry.py).                                    *)
(*                                                                         *)
(* An asyncio.Task passes through these stages:                            *)
(*   "none"    the registry has no entry for the task                      *)
(*   "created" asyncio.create_task returned; the coroutine has not run yet *)
(*   "running" the coroutine has started and is suspended at an await      *)
(*   "done"    the coroutine has ended; its done callbacks are scheduled   *)
(* Handle.cancel() does not stop anything by itself: it makes the NEXT     *)
(* step of the handle raise CancelledError.  Until that step the handle is *)
(* in `interrupted'.                                                       *)
(***************************************************************************)
EXTENDS TaskIds

VARIABLES
  handle,            \* handle[t]: stage of the handle in _handles
  cancelRequested,   \* _cancel_requested: cancel() was called on the handle
  interrupted        \* a CancelledError waits for the handle's next step

handleVars == <<handle, cancelRequested, interrupted>>

HandleStage == {"none", "created", "running", "done"}

\* Tasks whose handle exists and is not done (ExecutionHandleRegistry.get
\* returns it and done() is false).
Unfinished == {t \in Task : handle[t] \in {"created", "running"}}

HandleTypeOK ==
  /\ handle \in [Task -> HandleStage]
  /\ cancelRequested \in SUBSET Task
  /\ interrupted \in SUBSET Task

HandleInit ==
  /\ handle = [t \in Task |-> "none"]
  /\ cancelRequested = {}
  /\ interrupted = {}

\* start(): one asyncio.Task per task of `batch'.
StartHandles(batch) ==
  /\ handle' = [t \in Task |-> IF t \in batch THEN "created" ELSE handle[t]]
  /\ UNCHANGED <<cancelRequested, interrupted>>

\* request_cancel() for every task of `targets': a missing or finished handle
\* is left alone, and cancel() is called at most once per handle.
RequestCancel(targets) ==
  LET fresh == (targets \cap Unfinished) \ cancelRequested
  IN  /\ cancelRequested' = cancelRequested \cup fresh
      /\ interrupted' = interrupted \cup fresh
      /\ UNCHANGED handle

\* The first step of a handle.  A handle cancelled before it ever ran ends at
\* once: asyncio throws CancelledError into the coroutine before its first
\* line, so the body of the coroutine is never entered.
HandleBegins(t) ==
  /\ handle[t] = "created" /\ t \notin interrupted
  /\ handle' = [handle EXCEPT ![t] = "running"]
  /\ UNCHANGED <<cancelRequested, interrupted>>

\* CancelledError is raised where the coroutine is suspended; what it does then,
\* and when it ends, is up to the coroutine.
HandleInterrupted(t) ==
  /\ handle[t] = "running" /\ t \in interrupted
  /\ interrupted' = interrupted \ {t}
  /\ UNCHANGED <<handle, cancelRequested>>

\* The coroutine ends, either before its first line (see above) or after it.
HandleEnds(t) ==
  /\ t \in Unfinished
  /\ handle' = [handle EXCEPT ![t] = "done"]
  /\ interrupted' = interrupted \ {t}
  /\ UNCHANGED cancelRequested

\* _on_done(): the done callback drops the entry.
HandleForgotten(t) ==
  /\ handle[t] = "done"
  /\ handle' = [handle EXCEPT ![t] = "none"]
  /\ cancelRequested' = cancelRequested \ {t}
  /\ UNCHANGED interrupted
=============================================================================
