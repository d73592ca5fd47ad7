---------------------------- MODULE CodingAgent ----------------------------
(***************************************************************************)
(* The training loop of the coding agent (agent/agent_loop.py): one        *)
(* workspace per item, made in threads; then turns in lockstep, where      *)
(* every unfinished item asks the policy at the same time, the answers are *)
(* recorded, and the tools they call run in threads of their own.          *)
(***************************************************************************)
EXTENDS WorkspaceTools

CONSTANTS Items,
          TurnLimit(_),         \* an item's max_turns, 8 when it has none
          Calls,                \* the tool calls the policy may make
          MODEL_QUERY_RETRIES   \* attempts at one query, 5

VARIABLES phase,     \* "making", "asking", "tools", "returned", "failed"
          space,     \* item -> its directory: "none", "unlisted" (made by its
                     \* thread, not yet in the list), "open", "closed", "left"
          files,     \* item -> what it holds
          turn,
          messages,  \* item -> the conversation
          done,
          query,     \* item -> attempts made at this turn's query, and answer
          tool,      \* item -> this turn's call and its result
          turns      \* the trajectory: [item, messages, response]
bvars == <<phase, space, files, turn, messages, done, query, tool, turns>>

NoAnswer == <<"none">>
Idle     == [state |-> "idle", call |-> DefaultCall, reply |-> NoAnswer]
Start    == 1 :> <<"a">>       \* the task's files
Active   == {i \in Items : ~done[i] /\ turn < TurnLimit(i)}
TurnsEnd == Max({TurnLimit(i) : i \in Items} \union {0})

BInit == /\ phase = "making" /\ space = [i \in Items |-> "none"]
         /\ files = [i \in Items |-> Start] /\ turn = 0
         /\ messages = [i \in Items |-> <<<<"system">>, <<"task", i>>>>]
         /\ done = [i \in Items |-> FALSE]
         /\ query = [i \in Items |-> [tries |-> 0, answer |-> NoAnswer]]
         /\ tool = [i \in Items |-> Idle] /\ turns = <<>>

\* The finally of run_agentic_coding_loop: the listed workspaces are removed.
CloseListed == space' = [i \in Items |->
                          IF space[i] = "open" THEN "closed" ELSE space[i]]
Fails == phase' = "failed" /\ CloseListed

\* CodingWorkspace.from_task in its thread, which a failure elsewhere does not
\* stop; a task without files, or with a path outside, removes its directory.
MakeWorkspace(i) ==
  /\ space[i] = "none" /\ space' = [space EXCEPT ![i] = "unlisted"]
  /\ UNCHANGED <<phase, files, turn, messages, done, query, tool, turns>>
ListWorkspace(i) ==
  /\ phase = "making" /\ space[i] = "unlisted"
  /\ space' = [space EXCEPT ![i] = "open"]
  /\ UNCHANGED <<phase, files, turn, messages, done, query, tool, turns>>
BadTask(i) ==
  /\ phase = "making" /\ space[i] = "none"
  /\ phase' = "failed"
  /\ space' = [j \in Items |-> CASE j = i -> "closed"
                                 [] j # i /\ space[j] = "open" -> "closed"
                                 [] OTHER -> space[j]]
  /\ UNCHANGED <<files, turn, messages, done, query, tool, turns>>
StartTurns ==
  /\ phase = "making" /\ \A i \in Items : space[i] = "open"
  /\ phase' = "asking"
  /\ UNCHANGED <<space, files, turn, messages, done, query, tool, turns>>

\* create_chat_completion_with_retry: an answer holds at most the first of
\* the tool calls the policy wrote; a timeout, a lost connection or a busy
\* server is asked again after a delay, any other error is raised at once.
Waiting(i) == phase = "asking" /\ i \in Active /\ query[i].answer = NoAnswer
Answers(i, answer) ==
  /\ Waiting(i) /\ query' = [query EXCEPT ![i].answer = answer]
  /\ UNCHANGED <<phase, space, files, turn, messages, done, tool, turns>>
Retries(i) ==
  /\ Waiting(i) /\ query[i].tries + 1 < MODEL_QUERY_RETRIES
  /\ query' = [query EXCEPT ![i].tries = @ + 1]
  /\ UNCHANGED <<phase, space, files, turn, messages, done, tool, turns>>
QueryRaises(i) ==
  /\ Waiting(i) /\ Fails
  /\ UNCHANGED <<files, turn, messages, done, query, tool, turns>>

_first_tool_call(answer) == answer # <<"talk">>
\* The turn is recorded with a copy of the messages it was asked with; the
\* plausible bug records the list after the answer has joined it.
Snapshot(i) == messages[i]
SharedList(i) == Append(messages[i], query[i].answer)
TurnMessages(i) == Snapshot(i)

Record(log, i) == Append(log, [item |-> i, messages |-> TurnMessages(i),
                               response |-> query[i].answer])
Nudge == <<"nudge">>
InOrderOf(S) == SetToSortSeq(S, LAMBDA a, b : a < b)

\* All answers are there: each is recorded and joins its conversation, with a
\* nudge when it calls no tool; the tools of the others start.
TakeAnswers ==
  LET calling == {i \in Active : _first_tool_call(query[i].answer)}
      said(i) == IF i \in calling THEN <<query[i].answer>>
                 ELSE <<query[i].answer, Nudge>>
  IN  /\ phase = "asking" /\ Active # {}
      /\ \A i \in Active : query[i].answer # NoAnswer
      /\ turns' = FoldLeft(Record, turns, InOrderOf(Active))
      /\ messages' = [i \in Items |-> IF i \in Active THEN messages[i] \o said(i)
                                      ELSE messages[i]]
      /\ tool' = [i \in Items |-> IF i \in calling
                    THEN [Idle EXCEPT !.state = "running", !.call = query[i].answer[2]]
                    ELSE Idle]
      /\ query' = [i \in Items |-> [tries |-> 0, answer |-> NoAnswer]]
      /\ IF calling = {} THEN turn' = turn + 1 /\ UNCHANGED phase
         ELSE phase' = "tools" /\ UNCHANGED turn
      /\ UNCHANGED <<space, files, done>>

\* A tool in its thread.  One that runs on after the loop has failed finds its
\* workspace removed, and a tool that writes makes the directory again.
ToolRuns(i) ==
  /\ tool[i].state = "running" /\ ~Escapes(tool[i].call)
  /\ LET held == IF space[i] = "open" THEN files[i] ELSE [p \in {} |-> <<>>]
         answer == _execute_tool_call(held, tool[i].call)
     IN  /\ files' = [files EXCEPT ![i] = answer.files]
         /\ tool' = [tool EXCEPT ![i].state = "done", ![i].reply = answer.reply]
         /\ space' = [space EXCEPT ![i] =
                        IF @ = "closed" /\ answer.files # held THEN "left" ELSE @]
  /\ UNCHANGED <<phase, turn, messages, done, query, turns>>

\* An argument of a type the tool cannot convert raises what run_tool does not
\* catch, and the gather ends the loop with it.
RaisesThrough(i) ==
  /\ phase = "tools" /\ tool[i].state = "running" /\ Escapes(tool[i].call)
  /\ Fails /\ tool' = [tool EXCEPT ![i].state = "done"]
  /\ UNCHANGED <<files, turn, messages, done, query, turns>>

\* The plausible bug: the exception is lost and the gather waits for ever.
RaisesUnseen(i) == tool[i].state = "running" /\ Escapes(tool[i].call) /\ UNCHANGED bvars
ToolRaises(i) == RaisesThrough(i)

\* Results go back to the states whose tools made them.
TakeResults ==
  LET ran == {i \in Items : tool[i].state = "done"}
  IN  /\ phase = "tools" /\ \A i \in Items : tool[i].state # "running"
      /\ messages' = [i \in Items |-> IF i \in ran
                        THEN Append(messages[i], <<"tool", tool[i].call.name, tool[i].reply>>)
                        ELSE messages[i]]
      /\ done' = [i \in Items |-> done[i] \/ (i \in ran /\ tool[i].call.name = "submit")]
      /\ tool' = [i \in Items |-> Idle]
      /\ turn' = turn + 1 /\ phase' = "asking"
      /\ UNCHANGED <<space, files, query, turns>>

Returns ==
  /\ phase = "asking" /\ (Active = {} \/ turn >= TurnsEnd)
  /\ phase' = "returned" /\ CloseListed
  /\ UNCHANGED <<files, turn, messages, done, query, tool, turns>>

BNext == \/ \E i \in Items :
              \/ MakeWorkspace(i) \/ ListWorkspace(i) \/ BadTask(i)
              \/ \E c \in Calls : Answers(i, <<"call", c>>)
              \/ Answers(i, <<"talk">>)
              \/ Retries(i) \/ QueryRaises(i) \/ ToolRuns(i) \/ ToolRaises(i)
         \/ StartTurns \/ TakeAnswers \/ TakeResults \/ Returns

(***************************************************************************)
(* Properties.                                                             *)
(***************************************************************************)
\* What a conversation says after the opening of a turn: the recorded answer,
\* then the nudge or the result of the tool it called, which is what that
\* tool answers in the item's own workspace.
TurnOf(i, n) == LET own == SelectSeq(turns, LAMBDA t : t.item = i) IN own[n]
TurnsOf(i) == Len(SelectSeq(turns, LAMBDA t : t.item = i))

RECURSIVE Replay(_, _)
Replay(i, n) ==  \* the messages and files after the first n turns of the item
  IF n = 0 THEN [said |-> <<<<"system">>, <<"task", i>>>>, files |-> Start]
  ELSE LET was == Replay(i, n - 1)
           response == TurnOf(i, n).response
           ran == _execute_tool_call(was.files, response[2])
       IN  IF response = <<"talk">>
           THEN [was EXCEPT !.said = @ \o <<response, Nudge>>]
           ELSE [said  |-> was.said \o <<response, <<"tool", response[2].name, ran.reply>>>>,
                 files |-> ran.files]

\* Every turn of the trajectory was asked with exactly the conversation that
\* the item's earlier turns and its own tools produced: the tokens the policy
\* is trained on are those of the prompt it answered.
TurnsAreWhatTheModelSaw ==
  \A i \in Items : \A n \in 1 .. TurnsOf(i) :
    TurnOf(i, n).messages = Replay(i, n - 1).said

\* The loop returns or fails, whatever the tools answer and however often a
\* query fails.
EveryBatchEnds == <>(phase \in {"returned", "failed"})
=============================================================================
