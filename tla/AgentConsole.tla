---------------------------- MODULE AgentConsole ----------------------------
(***************************************************************************)
(* The operations agent of the command line (cli/agent.py) over the        *)
(* conversation loop (agent_loop.run_conversation_turns): turns of the     *)
(* model and of its tools until a submit or the turn limit, then a second  *)
(* query of the same model as the judge of the submit, whose refusal goes  *)
(* back into the conversation.                                             *)
(***************************************************************************)
EXTENDS Integers, Sequences

CONSTANTS MaxTurns,      \* max_turns, 1_000_000
          MaxSubmits     \* bound on the submits of one job

VARIABLES step,          \* "model", "tool", "main", "judge", "exit"
          turnsLeft,
          call,          \* the tool call being executed
          history,       \* the messages, by role
          submitted,     \* <<number, status>>, or NoSubmit
          submits,       \* submits so far
          refused,       \* the last submit the judge refused
          exitCode
avars == <<step, turnsLeft, call, history, submitted, submits, refused, exitCode>>

NoSubmit == <<0, "none">>
NoCall == [submit |-> FALSE, parses |-> TRUE, status |-> "none"]
\* What the model can answer: a submit, whose arguments may not parse, or
\* another tool; no call at all is handled by its own action.
ToolCalls == {NoCall} \union
             [submit : {TRUE}, parses : {TRUE}, status : {"solved", "blocked"}] \union
             {[submit |-> TRUE, parses |-> FALSE, status |-> "none"]}

AInit == /\ step = "model" /\ turnsLeft = MaxTurns /\ call = NoCall
         /\ history = <<"system", "user">> /\ submitted = NoSubmit
         /\ submits = 0 /\ refused = 0 /\ exitCode = 99

Ends(code) == step' = "exit" /\ exitCode' = code

\* A turn of the model: a tool call is executed next, an answer without one
\* is met by a nudge.
ModelCalls(c) ==
  /\ step = "model" /\ turnsLeft > 0
  /\ (c.submit /\ c.parses) => submits < MaxSubmits
  /\ step' = "tool" /\ call' = c /\ history' = Append(history, "assistant")
  /\ turnsLeft' = turnsLeft - 1
  /\ UNCHANGED <<submitted, submits, refused, exitCode>>
ModelTalks ==
  /\ step = "model" /\ turnsLeft > 0
  /\ history' = history \o <<"assistant", "user">> /\ turnsLeft' = turnsLeft - 1
  /\ UNCHANGED <<step, call, submitted, submits, refused, exitCode>>
OutOfTurns ==
  /\ step = "model" /\ turnsLeft = 0 /\ step' = "main"
  /\ UNCHANGED <<turnsLeft, call, history, submitted, submits, refused, exitCode>>
\* Five failed queries, or one that is not worth a retry, end the command.
QueryFails ==
  /\ step \in {"model", "judge"} /\ Ends(1)
  /\ UNCHANGED <<turnsLeft, call, history, submitted, submits, refused>>

\* The loop stops at a call named submit, even one whose arguments did not
\* parse, which submitted nothing.
RunsTool ==
  /\ step = "tool" /\ history' = Append(history, "tool")
  /\ IF call.submit /\ call.parses
     THEN submits' = submits + 1 /\ submitted' = <<submits + 1, call.status>>
     ELSE UNCHANGED <<submits, submitted>>
  /\ step' = IF call.submit THEN "main" ELSE "model"
  /\ UNCHANGED <<turnsLeft, call, refused, exitCode>>

StopsWithoutSubmit ==
  /\ step = "main" /\ submitted = NoSubmit /\ Ends(2)
  /\ UNCHANGED <<turnsLeft, call, history, submitted, submits, refused>>
AskJudge ==
  /\ step = "main" /\ submitted # NoSubmit /\ step' = "judge"
  /\ UNCHANGED <<turnsLeft, call, history, submitted, submits, refused, exitCode>>

\* bool() of what the judge wrote: a non-empty string, "false" too, is true;
\* an answer that is not a JSON object is a refusal.
Truthy(done) == done \in {"true", "a string"}
JudgeAccepts(done) ==
  /\ step = "judge" /\ Truthy(done)
  /\ Ends(IF submitted[2] = "solved" THEN 0 ELSE 1)
  /\ UNCHANGED <<turnsLeft, call, history, submitted, submits, refused>>

\* A refusal clears the submit and starts a new round of turns.
ClearSubmit == submitted' = NoSubmit
KeepSubmit == UNCHANGED submitted
ForgetSubmit == ClearSubmit
JudgeRefuses(done) ==
  /\ step = "judge" /\ ~Truthy(done)
  /\ ForgetSubmit /\ refused' = submitted[1]
  /\ history' = Append(history, "user") /\ turnsLeft' = MaxTurns /\ step' = "model"
  /\ UNCHANGED <<call, submits, exitCode>>

ANext == \/ \E c \in ToolCalls : ModelCalls(c)
         \/ ModelTalks \/ OutOfTurns \/ QueryFails \/ RunsTool
         \/ StopsWithoutSubmit \/ AskJudge
         \/ \E done \in {"true", "a string", "false", "garbled"} :
              JudgeAccepts(done) \/ JudgeRefuses(done)

\* The command exits with success only for a submit that says solved, made
\* after every refusal, and the last thing in the conversation: no earlier
\* submit is judged a second time.
SolvedMeansJudged ==
  /\ step = "judge" => submitted[1] > refused
  /\ exitCode = 0 => /\ submitted = <<submits, "solved">> /\ submits > refused
                     /\ history[Len(history)] = "tool"
=============================================================================
