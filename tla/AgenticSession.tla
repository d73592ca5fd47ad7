--------------------------- MODULE AgenticSession ---------------------------
(***************************************************************************)
(* A rollout session of the trainer and the OpenAI-compatible proxy that   *)
(* serves an agent inside it (api/agentic.py RolloutSession, driven by     *)
(* PolicyOnlyTrainer through asyncio.run).  Three kinds of thread meet:    *)
(* the event loop, which runs the session and one coroutine per request;   *)
(* the accept thread of the HTTP server; and one handler thread per        *)
(* request, which waits for its coroutine with a timeout of its own.       *)
(* Leaving the session blocks the event loop while the server stops, and   *)
(* handlers keep scheduling work on it meanwhile.                          *)
(***************************************************************************)
EXTENDS Naturals, Sequences, FiniteSets, SequencesExt

CONSTANTS Reqs,        \* the requests the agent may send
          MaxThreads   \* max_threads of the HTTP server
ASSUME ThreadAssumption == MaxThreads \in Nat \ {0}
\* A request is none of the other commands of the backend.
ASSUME ReqsAssumption == Reqs \cap {"BEGIN", "END", "SYNC", "prompts"} = {}

VARIABLES proxy,     \* whether the session serves requests, or its caller rolls out directly
          main,      \* where the session's coroutine is
          depth,     \* Trainer._rollout_session_depth
          cmds,      \* what the backend has been asked to do, in order
          listening, \* the accept loop runs
          slots,     \* free slots of the server's thread semaphore
          kind,      \* what is in a request: what the handler cannot read or refuses, a "long" prompt, or a "chat"
          thread,    \* the handler thread of a request
          chat,      \* its coroutine _complete_chat
          work,      \* its shielded task _run_chat_request
          cancelled, \* pending.cancelled
          out,       \* pending.response or pending.error
          future,    \* what the handler's concurrent future holds
          status     \* the HTTP status written, 0 before

session == <<proxy, main, depth, cmds, listening>>
server  == <<slots, kind, thread, status>>
loopJob == <<chat, work, cancelled, out, future>>
vars == <<session, server, loopJob>>

Init ==
    /\ proxy \in BOOLEAN
    /\ main = "start" /\ depth = 0 /\ cmds = << >>
    /\ listening = FALSE /\ slots = MaxThreads
    /\ kind   = [r \in Reqs |-> "chat"]
    /\ thread = [r \in Reqs |-> "idle"]
    /\ chat   = [r \in Reqs |-> "none"]
    /\ work   = [r \in Reqs |-> "none"]
    /\ cancelled = [r \in Reqs |-> FALSE]
    /\ out    = [r \in Reqs |-> "none"]
    /\ future = [r \in Reqs |-> "pending"]
    /\ status = [r \in Reqs |-> 0]

\* asyncio.run drives the loop except while __aexit__ blocks it and after it is closed.
LoopRuns == main \notin {"stopping", "closed"}

Submit(c) == cmds' = Append(cmds, c)

(***************************************************************************)
(* The session's own coroutine.                                            *)
(***************************************************************************)
\* begin_rollout_session_async: the depth is counted once the backend has answered.
BeginSession ==
    /\ main = "start"
    /\ Submit("BEGIN") /\ main' = "beginning"
    /\ UNCHANGED <<proxy, depth, listening, server, loopJob>>

BeginReturns ==
    /\ main = "beginning"
    /\ \/ main' = "entered" /\ depth' = depth + 1
       \/ main' = "unwound" /\ UNCHANGED depth       \* the backend raised
    /\ UNCHANGED <<proxy, cmds, listening, server, loopJob>>

\* The plausible mistake: the depth is released when the backend has answered.
EndSessionLate(next) == Submit("END") /\ main' = next /\ UNCHANGED depth

\* end_rollout_session_async: the depth is released before the backend is asked.
EndSession(next) ==
    /\ depth' = depth - 1
    /\ Submit("END")
    /\ main' = next

StartProxy ==
    /\ main = "entered" /\ proxy
    /\ \/ main' = "syncing" /\ listening' = TRUE /\ Submit("SYNC") /\ UNCHANGED depth
       \/ EndSession("ending") /\ UNCHANGED listening    \* the port or the thread failed
    /\ UNCHANGED <<proxy, server, loopJob>>

SyncReturns ==
    /\ main = "syncing"
    /\ main' \in {"agent", "stopping"}      \* a failed barrier leaves the session at once
    /\ UNCHANGED <<proxy, depth, cmds, listening, server, loopJob>>

\* Without a proxy the body of the session is one rollout of the whole batch.
PromptRollout ==
    /\ main = "entered" /\ ~proxy /\ depth > 0
    /\ Submit("prompts") /\ main' = "rolling"
    /\ UNCHANGED <<proxy, depth, listening, server, loopJob>>

\* run_agent returns or raises, whatever became of the requests it sent.
LeaveBody ==
    /\ main \in {"agent", "rolling"}
    /\ main' = "stopping"
    /\ UNCHANGED <<proxy, depth, cmds, listening, server, loopJob>>

\* server.shutdown, server_close and the join block the loop; then the session ends.
StopServer ==
    /\ main = "stopping"
    /\ listening' = FALSE
    /\ EndSession("ending")
    /\ UNCHANGED <<proxy, server, loopJob>>

EndReturns ==
    /\ main = "ending"
    /\ main' = "unwound"
    /\ UNCHANGED <<proxy, depth, cmds, listening, server, loopJob>>

SetOut(r, value) == out' = [out EXCEPT ![r] = IF cancelled[r] THEN @ ELSE value]

\* asyncio.run cancels every task that is left and closes the loop.  A callback that was
\* queued too late to be cancelled is dropped with its future pending.
CloseLoop ==
    /\ main = "unwound"
    /\ main' = "closed"
    /\ \E dropped \in SUBSET {r \in Reqs : chat[r] = "queued"} :
         LET ends(r) == chat[r] \in {"queued", "shielding"} /\ r \notin dropped IN
         /\ chat' = [r \in Reqs |-> IF ends(r) THEN "done" ELSE chat[r]]
         /\ future' = [r \in Reqs |-> IF ends(r) THEN "cancelled" ELSE future[r]]
    /\ work' = [r \in Reqs |-> IF work[r] = "none" THEN "none" ELSE "done"]
    /\ out' = [r \in Reqs |-> IF work[r] \in {"ready", "rollout"} /\ ~cancelled[r]
                              THEN "error" ELSE out[r]]
    /\ UNCHANGED <<proxy, depth, cmds, listening, server, cancelled>>

(***************************************************************************)
(* The accept thread and the handler threads.                              *)
(***************************************************************************)
\* A slot is taken before the thread starts; it is given back if it cannot start.
Accept(r) ==
    /\ listening /\ thread[r] = "idle" /\ slots > 0
    /\ \/ /\ thread' = [thread EXCEPT ![r] = "reading"] /\ slots' = slots - 1
          /\ \E k \in {"unreadable", "refused", "long", "chat"} : kind' = [kind EXCEPT ![r] = k]
       \/ thread' = [thread EXCEPT ![r] = "done"] /\ UNCHANGED <<slots, kind>>
    /\ UNCHANGED <<session, status, loopJob>>

\* _write_json, and the thread ends: its slot is free again.
Answer(r, code) ==
    /\ status' = [status EXCEPT ![r] = code]
    /\ thread' = [thread EXCEPT ![r] = "done"]
    /\ slots' = slots + 1
    /\ UNCHANGED kind

\* A wrong path (404), bad JSON or a streaming request (400) never reaches the loop.
Refuse(r) ==
    /\ thread[r] = "reading" /\ kind[r] = "refused"
    /\ \E code \in {400, 404} : Answer(r, code)
    /\ UNCHANGED <<session, loopJob>>

\* Only JSONDecodeError is caught: a Content-Length that is no number, a body that is not UTF-8
\* or JSON that is no object ends the handler.  Its connection is closed without an answer.
HandlerDies(r) ==
    /\ thread[r] = "reading" /\ kind[r] = "unreadable"
    /\ thread' = [thread EXCEPT ![r] = "done"] /\ slots' = slots + 1
    /\ UNCHANGED <<session, loopJob, kind, status>>

\* run_coroutine_threadsafe works while the loop is blocked, and raises once it is closed.
Schedule(r) ==
    /\ thread[r] = "reading" /\ kind[r] \in {"long", "chat"}
    /\ \/ /\ main # "closed"
          /\ thread' = [thread EXCEPT ![r] = "waiting"]
          /\ chat' = [chat EXCEPT ![r] = "queued"]
          /\ UNCHANGED <<slots, kind, status>>
       \/ main = "closed" /\ Answer(r, 500) /\ UNCHANGED chat
    /\ UNCHANGED <<session, work, cancelled, out, future>>

HandlerGetsResult(r) ==
    /\ thread[r] = "waiting" /\ future[r] # "pending"
    /\ Answer(r, IF future[r] = "response" THEN 200
                 ELSE IF future[r] = "bad value" THEN 400 ELSE 500)
    /\ UNCHANGED <<session, loopJob>>

\* future.result(timeout): the coroutine is left to itself.
HandlerTimesOut(r) ==
    /\ thread[r] = "waiting" /\ future[r] = "pending"
    /\ Answer(r, 500)
    /\ UNCHANGED <<session, loopJob>>

(***************************************************************************)
(* The coroutine of a request and its shielded task.                       *)
(***************************************************************************)
\* _complete_chat builds the pending request and waits for its task.
StartChat(r) ==
    /\ LoopRuns /\ chat[r] = "queued"
    /\ \/ /\ chat' = [chat EXCEPT ![r] = "shielding"]
          /\ work' = [work EXCEPT ![r] = "ready"] /\ UNCHANGED future
       \/ /\ chat' = [chat EXCEPT ![r] = "done"]        \* a field of the body does not convert
          /\ \E raised \in {"bad value", "error"} : future' = [future EXCEPT ![r] = raised]
          /\ UNCHANGED work
    /\ UNCHANGED <<session, server, cancelled, out>>

\* _run_chat_request up to its rollout: a cancelled request does nothing, a prompt over the
\* context is answered empty, and outside a session rollout_token_batch_async raises.
RunChat(r) ==
    /\ LoopRuns /\ work[r] = "ready"
    /\ IF cancelled[r]
       THEN work' = [work EXCEPT ![r] = "done"] /\ UNCHANGED <<out, cmds>>
       ELSE \/ /\ kind[r] = "long"
               /\ work' = [work EXCEPT ![r] = "done"]
               /\ SetOut(r, "response") /\ UNCHANGED cmds
            \/ /\ kind[r] = "chat" /\ depth > 0
               /\ work' = [work EXCEPT ![r] = "rollout"]
               /\ Submit(r) /\ UNCHANGED out
            \/ /\ kind[r] = "chat" /\ depth <= 0
               /\ work' = [work EXCEPT ![r] = "done"]
               /\ SetOut(r, "error") /\ UNCHANGED cmds
    /\ UNCHANGED <<proxy, main, depth, listening, server, chat, cancelled, future>>

\* The rollout returns or raises, or its response cannot be built.
RolloutReturns(r) ==
    /\ LoopRuns /\ work[r] = "rollout"
    /\ work' = [work EXCEPT ![r] = "done"]
    /\ \E value \in {"response", "error", "bad value"} : SetOut(r, value)
    /\ UNCHANGED <<session, server, chat, cancelled, future>>

\* The plausible mistake: the timeout falls through to the return of the response.
ChatTimesOutSilently(r) ==
    /\ LoopRuns /\ chat[r] = "shielding" /\ work[r] # "done"
    /\ cancelled' = [cancelled EXCEPT ![r] = TRUE]
    /\ chat' = [chat EXCEPT ![r] = "done"]
    /\ future' = [future EXCEPT ![r] = "response"]
    /\ UNCHANGED <<session, server, work, out>>

\* wait_for gives up: the task goes on, its result will be dropped.
ChatTimesOut(r) ==
    /\ LoopRuns /\ chat[r] = "shielding" /\ work[r] # "done"
    /\ cancelled' = [cancelled EXCEPT ![r] = TRUE]
    /\ chat' = [chat EXCEPT ![r] = "done"]
    /\ future' = [future EXCEPT ![r] = "error"]
    /\ UNCHANGED <<session, server, work, out>>

ChatReturns(r) ==
    /\ LoopRuns /\ chat[r] = "shielding" /\ work[r] = "done"
    /\ chat' = [chat EXCEPT ![r] = "done"]
    /\ future' = [future EXCEPT ![r] = IF out[r] = "none" THEN "error" ELSE out[r]]
    /\ UNCHANGED <<session, server, work, cancelled, out>>

HandlerStep(r) == Refuse(r) \/ HandlerDies(r) \/ Schedule(r) \/ HandlerGetsResult(r)
                  \/ HandlerTimesOut(r)
LoopStep(r) == StartChat(r) \/ RunChat(r) \/ RolloutReturns(r) \/ ChatTimesOut(r) \/ ChatReturns(r)
MainStep == \/ BeginSession \/ BeginReturns \/ StartProxy \/ SyncReturns \/ PromptRollout
            \/ LeaveBody \/ StopServer \/ EndReturns \/ CloseLoop

Next == MainStep \/ \E r \in Reqs : Accept(r) \/ HandlerStep(r) \/ LoopStep(r)

\* Handler threads are scheduled and their timers fire.  Nothing is assumed of the event loop.
Fairness == \A r \in Reqs : WF_vars(HandlerStep(r))
Spec == Init /\ [][Next]_vars /\ Fairness

(***************************************************************************)
(* Properties.                                                             *)
(***************************************************************************)
\* The backend sees every rollout between the BEGIN and the END of a session, also one whose
\* request was scheduled while the loop was blocked, or was started after the agent returned.
RolloutsInsideSession ==
    /\ \A i \in DOMAIN cmds : cmds[i] \in Reqs \cup {"prompts", "SYNC"} =>
         /\ \E j \in 1..i : cmds[j] = "BEGIN"
         /\ \A j \in 1..i : cmds[j] # "END"
    /\ \A i, j \in DOMAIN cmds : cmds[i] = cmds[j] => i = j

\* A client is told 200 only for a response of its own: never after its wait timed out, and
\* only when the prompt was filtered or its rollout was submitted.
AnswersAreGenuine ==
    \A r \in Reqs : status[r] = 200 =>
        /\ ~cancelled[r] /\ out[r] = "response"
        /\ kind[r] = "long" \/ r \in ToSet(cmds)

\* Every request that a thread has taken gives its slot back and is answered, even when the
\* loop is closed with its callback still queued.  Only one whose body cannot be read is not:
\* its connection is closed.
EveryRequestAnswered ==
    \A r \in Reqs :
        thread[r] = "reading" ~> thread[r] = "done" /\ (status[r] = 0 <=> kind[r] = "unreadable")
=============================================================================
