------------------------------ MODULE ServeApp ------------------------------
(***************************************************************************)
(* The OpenAI-compatible server (cli/serve.py): one event loop on which    *)
(* every request has a handler coroutine that waits for a future, a task   *)
(* that runs the rollout and resolves it, and a watcher that resolves it   *)
(* with an empty response when the client is gone.  Shutting down drains   *)
(* the tasks before the rollout session ends and the engine closes.        *)
(***************************************************************************)
EXTENDS Naturals, FiniteSets

CONSTANT Clients      \* the requests that may arrive

VARIABLES life,       \* where the application is between startup and the end of shutdown
          engine,     \* "open", "in session" or "closed"
          closing,    \* ServeState.closing
          active,     \* ServeState.active_tasks
          drain,      \* the tasks that shutdown is gathering
          handler,    \* the handler coroutine of a request
          task,       \* its rollout task
          promise,    \* its future: "pending", "response", "empty" or "error"
          gone        \* PendingRequest.cancelled

app == <<life, engine, closing, active, drain>>
requests == <<handler, task, promise, gone>>
svars == <<app, requests>>

SInit ==
    /\ life = "starting" /\ engine = "open" /\ closing = FALSE
    /\ active = {} /\ drain = {}
    /\ handler = [c \in Clients |-> "idle"]
    /\ task    = [c \in Clients |-> "none"]
    /\ promise = [c \in Clients |-> "pending"]
    /\ gone    = [c \in Clients |-> FALSE]

\* startup: the session of the server's life opens, or the engine closes and it does not start.
Startup ==
    /\ life = "starting"
    /\ \/ life' = "up" /\ engine' = "in session"
       \/ life' = "down" /\ engine' = "closed"
    /\ UNCHANGED <<closing, active, drain, requests>>

\* chat_completions up to its wait: an invalid request or a closing server answers at once.
Receive(c) ==
    /\ life \in {"up", "draining", "ending"} /\ handler[c] = "idle"
    /\ \/ handler' = [handler EXCEPT ![c] = "refused"] /\ UNCHANGED <<active, task>>
       \/ /\ ~closing
          /\ handler' = [handler EXCEPT ![c] = "waiting"]
          /\ task' = [task EXCEPT ![c] = "ready"]
          /\ active' = active \cup {c}
    /\ UNCHANGED <<life, engine, closing, drain, promise, gone>>

Resolve(c, value) == promise' = [promise EXCEPT ![c] = IF @ = "pending" THEN value ELSE @]

EndTask(c) == /\ task' = [task EXCEPT ![c] = "done"]
              /\ active' = active \ {c}

\* _run_request_rollout: a request that nobody waits for is not sent to the engine.
StartRollout(c) ==
    /\ task[c] = "ready"
    /\ \/ /\ gone[c] \/ promise[c] # "pending"
          /\ EndTask(c)
       \/ /\ ~gone[c] /\ promise[c] = "pending"
          /\ task' = [task EXCEPT ![c] = "engine"] /\ UNCHANGED active
    /\ UNCHANGED <<life, engine, closing, drain, handler, promise, gone>>

\* The engine answers or raises; a future resolved meanwhile keeps its value.
FinishRollout(c) ==
    /\ task[c] = "engine"
    /\ EndTask(c)
    /\ \E value \in {"response", "error"} : Resolve(c, value)
    /\ UNCHANGED <<life, engine, closing, drain, handler, gone>>

\* _watch_disconnect runs while the handler waits.
Disconnect(c) ==
    /\ handler[c] = "waiting" /\ promise[c] = "pending"
    /\ gone' = [gone EXCEPT ![c] = TRUE]
    /\ Resolve(c, "empty")
    /\ UNCHANGED <<app, handler, task>>

\* The awaiter is cancelled by its framework: the shielded future is left alone.
CancelHandler(c) ==
    /\ handler[c] = "waiting"
    /\ gone' = [gone EXCEPT ![c] = TRUE]
    /\ handler' = [handler EXCEPT ![c] = "answered"]
    /\ UNCHANGED <<app, task, promise>>

Reply(c) ==
    /\ handler[c] = "waiting" /\ promise[c] # "pending"
    /\ handler' = [handler EXCEPT ![c] = "answered"]
    /\ UNCHANGED <<app, task, promise, gone>>

\* The plausible mistake: the drain begins before new requests are refused.
ShutdownLate ==
    /\ life = "up" /\ life' = "draining" /\ drain' = active
    /\ UNCHANGED <<engine, closing, active, requests>>

\* shutdown: no task is created after closing is set, so the gathered set is complete.
Shutdown ==
    /\ life = "up" /\ life' = "draining"
    /\ closing' = TRUE
    /\ drain' = active
    /\ UNCHANGED <<engine, active, requests>>

Drained ==
    /\ life = "draining" /\ \A c \in drain : task[c] = "done"
    /\ life' = "ending"
    /\ UNCHANGED <<engine, closing, active, drain, requests>>

\* end_rollout_session_async, then close, also when ending the session raises.
CloseEngine ==
    /\ life = "ending"
    /\ engine' = "closed" /\ life' = "down"
    /\ UNCHANGED <<closing, active, drain, requests>>

RequestStep(c) == StartRollout(c) \/ FinishRollout(c) \/ Reply(c)
SNext == \/ Startup \/ Shutdown \/ Drained \/ CloseEngine
         \/ \E c \in Clients : Receive(c) \/ RequestStep(c) \/ Disconnect(c) \/ CancelHandler(c)

\* The loop runs its tasks and the engine answers the calls it was given.
SFairness == /\ WF_svars(Drained) /\ WF_svars(CloseEngine)
             /\ \A c \in Clients : WF_svars(RequestStep(c))
SSpec == SInit /\ [][SNext]_svars /\ SFairness

\* The engine is never closed under a rollout, and none starts once the drain has ended.
NoRolloutCut == \A c \in Clients : task[c] = "engine" => engine = "in session" /\ life # "ending"

\* Whatever clients do, a request that was taken is answered and a shutdown comes to its end.
ServingEnds ==
    /\ \A c \in Clients : handler[c] = "waiting" ~> handler[c] = "answered"
    /\ life = "draining" ~> engine = "closed"
=============================================================================
