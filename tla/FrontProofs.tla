----------------------------- MODULE FrontProofs -----------------------------
(***************************************************************************)
(* The fronts of the rollout engine and of the agent are safe for any      *)
(* number of requests, clients, turns, submits and jobs: the server, the   *)
(* command under its terminal, the console with its judge, the session     *)
(* with its proxy, and the dashboard.  Each has an inductive invariant of  *)
(* its own and one lemma that every step keeps it.                         *)
(***************************************************************************)
EXTENDS AgenticSession, ServeApp, AgentConsole, ToolCommand, DashboardAgent, InductionFacts

(***************************************************************************)
(* The server.                                                             *)
(***************************************************************************)
\* The active set is the tasks that are not done; from the moment requests are refused it is
\* inside the set that shutdown waits for; and the session is open while either is non-empty.
SInv ==
  /\ life \in {"starting", "up", "draining", "ending", "down"}
  /\ task \in [Clients -> {"none", "ready", "engine", "done"}]
  /\ active = {c \in Clients : task[c] \in {"ready", "engine"}}
  /\ life \in {"up", "draining", "ending"} => engine = "in session"
  /\ life \in {"draining", "ending"} => closing /\ active \subseteq drain
  /\ life \in {"starting", "ending", "down"} => active = {}

\* What the server starts from satisfies the invariant.
LEMMA ServeStarts == SInit => SInv
  BY DEF SInit, SInv

\* Every step of the server keeps it.
LEMMA ServeStep == ASSUME SInv, [SNext]_svars PROVE SInv'
<1> USE DEF SInv
<1>1. CASE Startup BY <1>1 DEF Startup, requests
<1>2. CASE Shutdown BY <1>2 DEF Shutdown, requests
<1>3. CASE Drained
  <2>1. active = {} BY <1>3 DEF Drained
  <2> QED BY <1>3, <2>1 DEF Drained, requests
<1>4. CASE CloseEngine BY <1>4 DEF CloseEngine, requests
<1>5. ASSUME NEW c \in Clients, Receive(c) PROVE SInv'
  BY <1>5 DEF Receive
<1>6. ASSUME NEW c \in Clients, StartRollout(c) PROVE SInv'
  BY <1>6 DEF StartRollout, EndTask
<1>7. ASSUME NEW c \in Clients, FinishRollout(c) PROVE SInv'
  BY <1>7 DEF FinishRollout, EndTask
<1>8. ASSUME NEW c \in Clients, Disconnect(c) \/ CancelHandler(c) \/ Reply(c) PROVE SInv'
  BY <1>8 DEF Disconnect, CancelHandler, Reply, app
<1>9. CASE UNCHANGED svars BY <1>9 DEF svars, app, requests
<1> QED BY <1>1, <1>2, <1>3, <1>4, <1>5, <1>6, <1>7, <1>8, <1>9 DEF SNext, RequestStep

\* The engine is never closed under a rollout, and none starts once the drain has ended.
THEOREM RolloutsAreNotCut == SSpec => []NoRolloutCut
<1>1. SInv => NoRolloutCut BY DEF SInv, NoRolloutCut
<1> QED BY ServeStarts, ServeStep, <1>1, PTL DEF SSpec

(***************************************************************************)
(* A command under its terminal.                                           *)
(***************************************************************************)
\* Only the kill ends the shell with -9, a report waits for the end of the shell, and the
\* code that is reported is the shell's own unless the command was cut.
CInv ==
  /\ at \in {"loop", "select", "read", "poll", "wait", "wait again", "reply", "replied", "raised"}
  /\ alive \in BOOLEAN /\ timed_out \in BOOLEAN /\ interrupt_requested \in BOOLEAN
  /\ deadline \in BOOLEAN /\ exit_status \in {-9, 0, 1}
  /\ at \in {"reply", "replied"} => ~alive
  /\ at = "replied" => IF timed_out THEN returncode \in {124, 130} ELSE returncode = exit_status

\* Every step of the command, of its shell and of its user keeps it.
LEMMA CommandStep == ASSUME CInv, [CNext]_cvars PROVE CInv'
<1> USE DEF CInv
<1>1. CASE World
  <2>1. CASE Writes BY <2>1 DEF Writes
  <2>2. CASE LetsGo BY <2>2 DEF LetsGo
  <2>3. CASE DeadlinePasses BY <2>3 DEF DeadlinePasses
  <2>4. CASE Interrupts BY <2>4 DEF Interrupts
  <2>5. ASSUME NEW code \in {-9, 0, 1}, Exits(code) PROVE CInv'
    BY <2>5 DEF Exits
  <2> QED BY <1>1, <2>1, <2>2, <2>3, <2>4, <2>5 DEF World, KillLands
<1>2. CASE CheckLimits BY <1>2 DEF CheckLimits, CutWhen
<1>3. CASE Select \/ Poll \/ ReadChunk BY <1>3 DEF Select, Poll, ReadChunk
<1>4. CASE Wait
  <2>1. CASE WaitOnce /\ ~alive BY <2>1 DEF WaitOnce
  <2>2. CASE WaitOnce /\ alive BY <2>2 DEF WaitOnce
  <2>3. CASE WaitAgain BY <2>3 DEF WaitAgain
  <2> QED BY <1>4, <2>1, <2>2, <2>3 DEF Wait
<1>5. CASE Report BY <1>5 DEF Report
<1>6. CASE UNCHANGED cvars BY <1>6 DEF cvars
<1> QED BY <1>1, <1>2, <1>3, <1>4, <1>5, <1>6 DEF CNext, Watch

\* A command reports success only when the shell ended by itself with status 0, whatever the
\* shell, the clock and the user do and however much is written.
THEOREM CommandsTellTheTruth == CInit /\ [][CNext]_cvars => []CommandsReportTheirEnd
<1>1. CInit => CInv BY DEF CInit, CInv
<1>2. CInv => CommandsReportTheirEnd BY DEF CInv, CommandsReportTheirEnd
<1> QED BY <1>1, <1>2, CommandStep, PTL

(***************************************************************************)
(* The console and its judge.                                              *)
(***************************************************************************)
Roles == {"system", "user", "assistant", "tool"}

\* A submit that waits for the judge is the newest, newer than every refusal, and nothing was
\* said after it; while the model or a tool works there is none.
AInv ==
  /\ step \in {"model", "tool", "main", "judge", "exit"}
  /\ submits \in Nat /\ refused \in 0 .. submits /\ call \in ToolCalls
  /\ history \in Seq(Roles)
  /\ step \in {"model", "tool"} => submitted = NoSubmit
  /\ submitted # NoSubmit => /\ submitted \in {<<submits, "solved">>, <<submits, "blocked">>}
                             /\ submits > refused
                             /\ history # << >> /\ history[Len(history)] = "tool"
  /\ step = "judge" => submitted # NoSubmit
  /\ exitCode = 0 => step = "exit" /\ submitted = <<submits, "solved">> /\ submits > refused

\* Every step of the conversation keeps it.
LEMMA ConsoleStep == ASSUME AInv, [ANext]_avars PROVE AInv'
<1> USE DEF AInv
<1>0. "tool" \in Roles /\ "assistant" \in Roles /\ "user" \in Roles BY DEF Roles
<1>1. ASSUME NEW c \in ToolCalls, ModelCalls(c) PROVE AInv'
  <2>1. history' \in Seq(Roles) BY <1>0, <1>1 DEF ModelCalls
  <2> QED BY <1>1, <2>1 DEF ModelCalls
<1>2. CASE ModelTalks
  <2>1. <<"assistant", "user">> \in Seq(Roles) BY <1>0
  <2>2. history' \in Seq(Roles) BY <1>2, <2>1 DEF ModelTalks
  <2> QED BY <1>2, <2>2 DEF ModelTalks
<1>3. CASE OutOfTurns BY <1>3 DEF OutOfTurns
<1>4. CASE QueryFails BY <1>4 DEF QueryFails, Ends
<1>5. CASE RunsTool
  <2>1. history' \in Seq(Roles) /\ Len(history') = Len(history) + 1 /\ history'[Len(history')] = "tool"
    BY <1>0, <1>5 DEF RunsTool
  <2>2. call.submit /\ call.parses => call.status \in {"solved", "blocked"}
    <3>1. CASE call = NoCall BY <3>1 DEF NoCall
    <3>2. CASE call \in [submit : {TRUE}, parses : {TRUE}, status : {"solved", "blocked"}]
      <4>1. call.status \in {"solved", "blocked"} BY <3>2
      <4> QED BY <4>1
    <3>3. CASE call = [submit |-> TRUE, parses |-> FALSE, status |-> "none"]
      <4>1. call.parses = FALSE BY <3>3
      <4> QED BY <4>1
    <3> QED BY <3>1, <3>2, <3>3 DEF ToolCalls
  <2>3. CASE call.submit /\ call.parses
    BY <1>5, <2>1, <2>2, <2>3 DEF RunsTool, NoSubmit
  <2>4. CASE ~(call.submit /\ call.parses)
    BY <1>5, <2>1, <2>4 DEF RunsTool
  <2> QED BY <2>3, <2>4
<1>6. CASE StopsWithoutSubmit BY <1>6 DEF StopsWithoutSubmit, Ends
<1>7. CASE AskJudge BY <1>7 DEF AskJudge
<1>8. ASSUME NEW done, JudgeAccepts(done) PROVE AInv'
  BY <1>8 DEF JudgeAccepts, Ends, NoSubmit
<1>9. ASSUME NEW done, JudgeRefuses(done) PROVE AInv'
  <2>1. history' \in Seq(Roles) BY <1>0, <1>9 DEF JudgeRefuses
  <2>2. refused' \in 0 .. submits' BY <1>9 DEF JudgeRefuses
  <2> QED BY <1>9, <2>1, <2>2 DEF JudgeRefuses, ForgetSubmit, ClearSubmit
<1>10. CASE UNCHANGED avars BY <1>10 DEF avars
<1> QED BY <1>1, <1>2, <1>3, <1>4, <1>5, <1>6, <1>7, <1>8, <1>9, <1>10 DEF ANext

\* The console exits with success only for a submit that says solved, made after every
\* refusal and the last thing in the conversation, for any limit on turns and submits.
THEOREM ConsoleIsJudged == AInit /\ [][ANext]_avars => []SolvedMeansJudged
<1>1. AInit => AInv
  <2>1. <<"system", "user">> \in Seq(Roles) BY DEF Roles
  <2> QED BY <2>1 DEF AInit, AInv, NoSubmit, ToolCalls
<1>2. AInv => SolvedMeansJudged BY DEF AInv, SolvedMeansJudged, NoSubmit
<1> QED BY <1>1, <1>2, ConsoleStep, PTL

(***************************************************************************)
(* The session and its proxy.                                              *)
(***************************************************************************)
Commands == Reqs \cup {"BEGIN", "END", "SYNC", "prompts"}
Open == main \in {"entered", "syncing", "agent", "rolling", "stopping"}

\* What the backend has been asked to do tells where the session is: the depth is one exactly
\* while it is open, BEGIN came first and END is what ends it, and no command is sent twice.
CommandsTellTheSession ==
  /\ main \in {"start", "beginning", "unwound", "ending", "closed"} \/ Open
  /\ depth = IF Open THEN 1 ELSE 0
  /\ cmds \in Seq(Commands)
  /\ main = "start" <=> cmds = << >>
  /\ Open => "END" \notin ToSet(cmds)
  /\ cmds # << >> => cmds[1] = "BEGIN"
  /\ "END" \in ToSet(cmds) => main \in {"ending", "unwound", "closed"}
  /\ {"SYNC", "prompts"} \cap ToSet(cmds) # {} => main \notin {"start", "beginning", "entered"}
  /\ \A i, j \in DOMAIN cmds : cmds[i] = cmds[j] => i = j
  /\ \A i, j \in DOMAIN cmds : cmds[j] = "END" => i <= j

\* Where a request is: its coroutine starts after its handler thread, its task after the
\* coroutine, its command is sent by the task, and a response exists for nothing else.
InOrder(r, k, t, s, c, w, x, o, f, sent) ==
  /\ c # "none" => t \notin {"idle", "reading"}
  /\ w # "none" => c \in {"shielding", "done"}
  /\ r \in sent => w \in {"rollout", "done"}
  /\ w = "rollout" => r \in sent
  /\ o # "none" => w = "done"
  /\ o = "response" => k = "long" \/ r \in sent
  /\ x => c = "done" /\ f # "response"
  /\ f # "pending" => c = "done"
  /\ f = "response" => o = "response"
  /\ s = 200 => t = "done" /\ f = "response"
RequestIsInOrder(r) ==
  InOrder(r, kind[r], thread[r], status[r], chat[r], work[r], cancelled[r], out[r], future[r], ToSet(cmds))

Kinds == {"unreadable", "refused", "long", "chat"}
Threads == {"idle", "reading", "waiting", "done"}
Chats == {"none", "queued", "shielding", "done"}
Works == {"none", "ready", "rollout", "done"}
Outs == {"none", "response", "error", "bad value"}
Futures == {"pending", "response", "error", "bad value", "cancelled"}
Statuses == {0, 200, 400, 404, 500}
RequestTypes ==
  /\ kind \in [Reqs -> Kinds] /\ thread \in [Reqs -> Threads] /\ status \in [Reqs -> Statuses]
  /\ chat \in [Reqs -> Chats] /\ work \in [Reqs -> Works] /\ cancelled \in [Reqs -> BOOLEAN]
  /\ out \in [Reqs -> Outs] /\ future \in [Reqs -> Futures]

SessionInv == CommandsTellTheSession /\ RequestTypes /\ \A r \in Reqs : RequestIsInOrder(r)

\* What appending a command that was not sent before does to the list.
LEMMA CommandAppended ==
  ASSUME cmds \in Seq(Commands), NEW c \in Commands, c \notin ToSet(cmds), cmds' = Append(cmds, c),
         \A i, j \in DOMAIN cmds : cmds[i] = cmds[j] => i = j
  PROVE  /\ cmds' \in Seq(Commands) /\ cmds' # << >>
         /\ cmds'[1] = IF cmds = << >> THEN c ELSE cmds[1]
         /\ ToSet(cmds') = ToSet(cmds) \cup {c}
         /\ \A i, j \in DOMAIN cmds' : cmds'[i] = cmds'[j] => i = j
         /\ DOMAIN cmds' = DOMAIN cmds \cup {Len(cmds')}
         /\ Len(cmds') = Len(cmds) + 1 /\ cmds'[Len(cmds')] = c
         /\ \A i \in DOMAIN cmds : i < Len(cmds') /\ cmds'[i] = cmds[i]
<1>1. /\ cmds' \in Seq(Commands) /\ Len(cmds') = Len(cmds) + 1 /\ cmds'[Len(cmds')] = c
      /\ \A i \in DOMAIN cmds : i < Len(cmds') /\ cmds'[i] = cmds[i]
      /\ DOMAIN cmds = 1 .. Len(cmds) /\ DOMAIN cmds' = 1 .. Len(cmds) + 1 /\ Len(cmds) \in Nat
  OBVIOUS
<1>2. DOMAIN cmds' = DOMAIN cmds \cup {Len(cmds')} BY <1>1
<1>3. ToSet(cmds') = ToSet(cmds) \cup {c} BY <1>1, <1>2 DEF ToSet
<1>4. \A i \in DOMAIN cmds : cmds[i] # c BY DEF ToSet
<1>5. \A i, j \in DOMAIN cmds' : cmds'[i] = cmds'[j] => i = j BY <1>1, <1>2, <1>4
<1> QED BY <1>1, <1>2, <1>3, <1>5

\* Only the session's own coroutine and a request's task send commands; the other steps of a
\* request leave the session alone.
LEMMA SessionKept ==
  ASSUME SessionInv, UNCHANGED session PROVE CommandsTellTheSession'
  BY DEF SessionInv, CommandsTellTheSession, session, Open

\* The commands of the session itself.
LEMMA MainKeepsSession ==
  ASSUME SessionInv, MainStep PROVE CommandsTellTheSession'
<1> USE DEF SessionInv
<1>0. /\ {"BEGIN", "END", "SYNC", "prompts"} \subseteq Commands BY DEF Commands
<1> SUFFICES CommandsTellTheSession' OBVIOUS
<1>1. CASE BeginSession
  <2>1. cmds = << >> BY <1>1 DEF BeginSession, CommandsTellTheSession
  <2>2. "BEGIN" \notin ToSet(cmds) BY <2>1 DEF ToSet
  <2> QED BY <1>0, <1>1, <2>1, <2>2, CommandAppended DEF BeginSession, Submit, CommandsTellTheSession, Open
<1>2. CASE BeginReturns
  BY <1>2 DEF BeginReturns, CommandsTellTheSession, Open
<1>3. ASSUME "END" \notin ToSet(cmds), Open, EndSession("ending") PROVE CommandsTellTheSession'
  <2>1. cmds' = Append(cmds, "END") BY <1>3 DEF EndSession, Submit
  <2>2. main' = "ending" /\ depth' = 0 BY <1>3 DEF EndSession, CommandsTellTheSession
  <2>3. /\ cmds' \in Seq(Commands) /\ cmds' # << >>
        /\ cmds'[1] = IF cmds = << >> THEN "END" ELSE cmds[1]
        /\ ToSet(cmds') = ToSet(cmds) \cup {"END"}
        /\ \A i, j \in DOMAIN cmds' : cmds'[i] = cmds'[j] => i = j
        /\ DOMAIN cmds' = DOMAIN cmds \cup {Len(cmds')}
        /\ Len(cmds') = Len(cmds) + 1 /\ cmds'[Len(cmds')] = "END"
        /\ \A i \in DOMAIN cmds : i < Len(cmds') /\ cmds'[i] = cmds[i]
    BY <1>0, <1>3, <2>1, CommandAppended DEF CommandsTellTheSession
  <2>4. \A i, j \in DOMAIN cmds' : cmds'[j] = "END" => i <= j
    BY <2>3 DEF CommandsTellTheSession
  <2> QED BY <1>3, <2>2, <2>3, <2>4 DEF CommandsTellTheSession, Open
<1>4. CASE StartProxy
  <2>1. CASE EndSession("ending")
    BY <1>3, <1>4, <2>1 DEF StartProxy, CommandsTellTheSession, Open
  <2>2. CASE main' = "syncing" /\ Submit("SYNC") /\ UNCHANGED depth
    <3>1. "SYNC" \notin ToSet(cmds) BY <1>4 DEF StartProxy, CommandsTellTheSession
    <3>2. \A i, j \in DOMAIN cmds' : cmds'[j] = "END" => i <= j
      BY <1>0, <1>4, <2>2, <3>1, CommandAppended DEF StartProxy, Submit, CommandsTellTheSession, Open, ToSet
    <3> QED BY <1>0, <1>4, <2>2, <3>1, <3>2, CommandAppended DEF StartProxy, Submit, CommandsTellTheSession, Open
  <2> QED BY <1>4, <2>1, <2>2 DEF StartProxy
<1>5. CASE PromptRollout
  <2>1. "prompts" \notin ToSet(cmds) BY <1>5 DEF PromptRollout, CommandsTellTheSession
  <2>2. \A i, j \in DOMAIN cmds' : cmds'[j] = "END" => i <= j
    BY <1>0, <1>5, <2>1, CommandAppended DEF PromptRollout, Submit, CommandsTellTheSession, Open, ToSet
  <2> QED BY <1>0, <1>5, <2>1, <2>2, CommandAppended DEF PromptRollout, Submit, CommandsTellTheSession, Open
<1>6. CASE SyncReturns \/ LeaveBody
  BY <1>6 DEF SyncReturns, LeaveBody, CommandsTellTheSession, Open
<1>7. CASE StopServer
  BY <1>3, <1>7 DEF StopServer, CommandsTellTheSession, Open
<1>8. CASE EndReturns \/ CloseLoop
  BY <1>8 DEF EndReturns, CloseLoop, CommandsTellTheSession, Open
<1> QED BY <1>1, <1>2, <1>4, <1>5, <1>6, <1>7, <1>8 DEF MainStep

\* The session's own coroutine leaves every request in order, also when it closes the loop.
LEMMA MainKeepsRequests ==
  ASSUME SessionInv, MainStep PROVE RequestTypes' /\ \A r \in Reqs : RequestIsInOrder(r)'
<1>0. RequestTypes /\ CommandsTellTheSession /\ \A r \in Reqs : RequestIsInOrder(r) BY DEF SessionInv
<1>1. \A r \in Reqs : r \in ToSet(cmds)' <=> r \in ToSet(cmds)
  <2>1. ASSUME NEW c \in {"BEGIN", "END", "SYNC", "prompts"}, cmds' = Append(cmds, c)
        PROVE  \A r \in Reqs : r \in ToSet(cmds)' <=> r \in ToSet(cmds)
    <3>0. cmds \in Seq(Commands) BY <1>0 DEF CommandsTellTheSession
    <3>1. DOMAIN cmds' = DOMAIN cmds \cup {Len(cmds) + 1} /\ cmds'[Len(cmds) + 1] = c
          /\ \A i \in DOMAIN cmds : cmds'[i] = cmds[i]
      BY <2>1, <3>0
    <3>2. c \notin Reqs BY ReqsAssumption
    <3> QED BY <3>1, <3>2 DEF ToSet
  <2>2. \/ cmds' = cmds
        \/ \E c \in {"BEGIN", "END", "SYNC", "prompts"} : cmds' = Append(cmds, c)
    BY DEF MainStep, BeginSession, BeginReturns, StartProxy, SyncReturns, PromptRollout,
           LeaveBody, StopServer, EndReturns, CloseLoop, EndSession, Submit
  <2> QED BY <2>1, <2>2 DEF ToSet
<1>2. CASE CloseLoop
  <2>1. PICK dropped \in SUBSET Reqs :
          /\ \A r \in dropped : chat[r] = "queued"
          /\ chat' = [r \in Reqs |-> IF chat[r] \in {"queued", "shielding"} /\ r \notin dropped
                                      THEN "done" ELSE chat[r]]
          /\ future' = [r \in Reqs |-> IF chat[r] \in {"queued", "shielding"} /\ r \notin dropped
                                        THEN "cancelled" ELSE future[r]]
    BY <1>2, Zenon DEF CloseLoop
  <2>2. /\ work' = [r \in Reqs |-> IF work[r] = "none" THEN "none" ELSE "done"]
        /\ out' = [r \in Reqs |-> IF work[r] \in {"ready", "rollout"} /\ ~cancelled[r]
                                   THEN "error" ELSE out[r]]
        /\ UNCHANGED <<cancelled, kind, thread, status>>
    BY <1>2 DEF CloseLoop, server
  <2>3. RequestTypes'
    <3>1. chat' \in [Reqs -> Chats] BY <1>0, <2>1 DEF RequestTypes, Chats, Works, Outs, Futures
    <3>2. future' \in [Reqs -> Futures] BY <1>0, <2>1 DEF RequestTypes, Chats, Works, Outs, Futures
    <3>3. work' \in [Reqs -> Works] BY <1>0, <2>2 DEF RequestTypes, Chats, Works, Outs, Futures
    <3>4. out' \in [Reqs -> Outs] BY <1>0, <2>2 DEF RequestTypes, Chats, Works, Outs, Futures
    <3> QED BY <1>0, <2>2, <3>1, <3>2, <3>3, <3>4 DEF RequestTypes
  <2>4. ASSUME NEW r \in Reqs PROVE RequestIsInOrder(r)'
    <3>1. RequestIsInOrder(r) /\ (r \in ToSet(cmds)' <=> r \in ToSet(cmds)) BY <1>0, <1>1
    <3>2. \/ chat'[r] = chat[r] /\ future'[r] = future[r]
          \/ chat[r] \in {"queued", "shielding"} /\ chat'[r] = "done" /\ future'[r] = "cancelled"
      BY <2>1
    <3>3. /\ work'[r] = (IF work[r] = "none" THEN "none" ELSE "done")
          /\ out'[r] = (IF work[r] \in {"ready", "rollout"} /\ ~cancelled[r] THEN "error" ELSE out[r])
          /\ cancelled'[r] = cancelled[r] /\ kind'[r] = kind[r]
          /\ thread'[r] = thread[r] /\ status'[r] = status[r]
      BY <2>2
    <3>4. work[r] \in {"none", "ready", "rollout", "done"} BY <1>0 DEF RequestTypes, Chats, Works, Outs, Futures
    <3> QED BY <3>1, <3>2, <3>3, <3>4 DEF RequestIsInOrder, InOrder
  <2> QED BY <2>3, <2>4
<1>3. CASE ~CloseLoop
  <2>1. UNCHANGED <<kind, thread, status, chat, work, cancelled, out, future>>
    BY <1>3 DEF MainStep, BeginSession, BeginReturns, StartProxy, SyncReturns, PromptRollout,
                LeaveBody, StopServer, EndReturns, server, loopJob
  <2>2. RequestTypes' BY <1>0, <2>1 DEF RequestTypes
  <2>3. ASSUME NEW r \in Reqs PROVE RequestIsInOrder(r)'
    <3>1. RequestIsInOrder(r) /\ (r \in ToSet(cmds)' <=> r \in ToSet(cmds)) BY <1>0, <1>1
    <3> QED BY <2>1, <3>1 DEF RequestIsInOrder, InOrder
  <2> QED BY <2>2, <2>3
<1> QED BY <1>2, <1>3

\* What a step of request r does to the list of commands and to the other requests.
LEMMA RequestKeepsSession ==
  ASSUME SessionInv, NEW r \in Reqs, Accept(r) \/ HandlerStep(r) \/ LoopStep(r)
  PROVE  /\ CommandsTellTheSession'
         /\ \/ UNCHANGED cmds
            \/ work[r] = "ready" /\ work'[r] = "rollout" /\ ToSet(cmds') = ToSet(cmds) \cup {r}
<1> USE DEF SessionInv
<1>1. CASE UNCHANGED session
  BY <1>1, SessionKept DEF session
<1>2. CASE RunChat(r) /\ ~UNCHANGED session
  <2>1. work[r] = "ready" /\ depth > 0 /\ Submit(r) /\ work' = [work EXCEPT ![r] = "rollout"]
        /\ UNCHANGED <<proxy, main, depth, listening>>
    BY <1>2 DEF RunChat, session
  <2>2. Open /\ main # "start" /\ cmds # << >> /\ cmds \in Seq(Commands)
        /\ \A i, j \in DOMAIN cmds : cmds[i] = cmds[j] => i = j
    BY <2>1 DEF CommandsTellTheSession, Open
  <2>3. r \notin ToSet(cmds) /\ r \in Commands /\ r \notin {"BEGIN", "END", "SYNC", "prompts"}
    BY <2>1, ReqsAssumption DEF RequestIsInOrder, InOrder, Commands
  <2>4. /\ cmds' \in Seq(Commands) /\ cmds' # << >>
        /\ cmds'[1] = cmds[1]
        /\ ToSet(cmds') = ToSet(cmds) \cup {r}
        /\ \A i, j \in DOMAIN cmds' : cmds'[i] = cmds'[j] => i = j
        /\ \A i \in DOMAIN cmds' : cmds'[i] \in ToSet(cmds')
    BY <2>1, <2>2, <2>3, CommandAppended DEF Submit, ToSet
  <2>5. "END" \notin ToSet(cmds') BY <2>2, <2>3, <2>4 DEF CommandsTellTheSession
  <2>6. \A i, j \in DOMAIN cmds' : cmds'[j] = "END" => i <= j BY <2>4, <2>5
  <2>7. ToSet(cmds)' = ToSet(cmds') BY DEF ToSet
  <2>8. {"SYNC", "prompts"} \cap ToSet(cmds') = {"SYNC", "prompts"} \cap ToSet(cmds) BY <2>3, <2>4
  <2>9. CommandsTellTheSession'
    BY <2>1, <2>2, <2>4, <2>5, <2>6, <2>7, <2>8 DEF CommandsTellTheSession, Open
  <2> QED BY <2>1, <2>4, <2>9 DEF RequestTypes
<1> QED BY <1>1, <1>2 DEF Accept, HandlerStep, LoopStep, Refuse, HandlerDies, Schedule, HandlerGetsResult,
         HandlerTimesOut, StartChat, RolloutReturns, ChatTimesOut, ChatReturns, session

\* What a step makes of the request r.
Becomes(r, k, t, s, c, w, x, o, f) ==
  /\ kind' = [kind EXCEPT ![r] = k] /\ thread' = [thread EXCEPT ![r] = t]
  /\ status' = [status EXCEPT ![r] = s] /\ chat' = [chat EXCEPT ![r] = c]
  /\ work' = [work EXCEPT ![r] = w] /\ cancelled' = [cancelled EXCEPT ![r] = x]
  /\ out' = [out EXCEPT ![r] = o] /\ future' = [future EXCEPT ![r] = f]

\* A step that puts one request where it is in order leaves every request in order.
LEMMA OneMoves ==
  ASSUME SessionInv, NEW r \in Reqs, NEW k \in Kinds, NEW t \in Threads, NEW s \in Statuses,
         NEW c \in Chats, NEW w \in Works, NEW x \in BOOLEAN, NEW o \in Outs, NEW f \in Futures,
         Becomes(r, k, t, s, c, w, x, o, f), InOrder(r, k, t, s, c, w, x, o, f, ToSet(cmds')),
         \A q \in Reqs \ {r} : q \in ToSet(cmds') <=> q \in ToSet(cmds)
  PROVE  RequestTypes' /\ \A q \in Reqs : RequestIsInOrder(q)'
<1>0. RequestTypes BY DEF SessionInv
<1>1. RequestTypes' BY <1>0 DEF RequestTypes, Becomes
<1>2. ToSet(cmds)' = ToSet(cmds') BY DEF ToSet
<1>3. RequestIsInOrder(r)'
  <2>1. /\ kind'[r] = k /\ thread'[r] = t /\ status'[r] = s /\ chat'[r] = c
        /\ work'[r] = w /\ cancelled'[r] = x /\ out'[r] = o /\ future'[r] = f
    BY <1>0 DEF RequestTypes, Becomes
  <2> QED BY <1>2, <2>1 DEF RequestIsInOrder, InOrder
<1>4. ASSUME NEW q \in Reqs \ {r} PROVE RequestIsInOrder(q)'
  <2>1. /\ kind'[q] = kind[q] /\ thread'[q] = thread[q] /\ status'[q] = status[q] /\ chat'[q] = chat[q]
        /\ work'[q] = work[q] /\ cancelled'[q] = cancelled[q] /\ out'[q] = out[q] /\ future'[q] = future[q]
    BY <1>0 DEF RequestTypes, Becomes
  <2>2. RequestIsInOrder(q) BY DEF SessionInv
  <2> QED BY <1>2, <2>1, <2>2 DEF RequestIsInOrder, InOrder
<1> QED BY <1>1, <1>3, <1>4

\* A step of a request, whatever it is, leaves every request in order.
LEMMA RequestKeepsRequests ==
  ASSUME SessionInv, NEW r \in Reqs, Accept(r) \/ HandlerStep(r) \/ LoopStep(r)
  PROVE  RequestTypes' /\ \A q \in Reqs : RequestIsInOrder(q)'
<1> DEFINE k == kind[r]  t == thread[r]  s == status[r]  c == chat[r]  w == work[r]
           x == cancelled[r]  o == out[r]  f == future[r]  sent == ToSet(cmds)
<1>0. /\ k \in Kinds /\ t \in Threads /\ s \in Statuses /\ c \in Chats /\ w \in Works
      /\ x \in BOOLEAN /\ o \in Outs /\ f \in Futures
      /\ InOrder(r, k, t, s, c, w, x, o, f, sent)
  BY DEF SessionInv, RequestTypes, RequestIsInOrder
<1>1. /\ kind = [kind EXCEPT ![r] = k] /\ thread = [thread EXCEPT ![r] = t]
      /\ status = [status EXCEPT ![r] = s] /\ chat = [chat EXCEPT ![r] = c]
      /\ work = [work EXCEPT ![r] = w] /\ cancelled = [cancelled EXCEPT ![r] = x]
      /\ out = [out EXCEPT ![r] = o] /\ future = [future EXCEPT ![r] = f]
  BY DEF SessionInv, RequestTypes
<1> HIDE DEF k, t, s, c, w, x, o, f, sent
<1>2. ASSUME UNCHANGED session,
             NEW k1 \in Kinds, NEW t1 \in Threads, NEW s1 \in Statuses, NEW c1 \in Chats,
             NEW w1 \in Works, NEW x1 \in BOOLEAN, NEW o1 \in Outs, NEW f1 \in Futures,
             Becomes(r, k1, t1, s1, c1, w1, x1, o1, f1), InOrder(r, k1, t1, s1, c1, w1, x1, o1, f1, sent)
      PROVE  RequestTypes' /\ \A q \in Reqs : RequestIsInOrder(q)'
  <2>1. ToSet(cmds') = sent BY <1>2 DEF session, sent
  <2> QED BY <1>2, <2>1, OneMoves DEF sent
<1>3. CASE Accept(r)
  <2>1. PICK k1 \in Kinds, t1 \in {"reading", "done"} : Becomes(r, k1, t1, s, c, w, x, o, f)
    BY <1>0, <1>1, <1>3 DEF Accept, Becomes, loopJob, Kinds
  <2>2. t = "idle" /\ UNCHANGED session BY <1>3 DEF Accept, t
  <2> QED BY <1>0, <1>2, <2>1, <2>2 DEF InOrder, Threads
<1>4. ASSUME t \in {"reading", "waiting"}, NEW s1 \in Statuses, s1 = 200 => f = "response",
             Answer(r, s1), UNCHANGED <<session, loopJob>>
      PROVE  RequestTypes' /\ \A q \in Reqs : RequestIsInOrder(q)'
  <2>1. Becomes(r, k, "done", s1, c, w, x, o, f) BY <1>1, <1>4 DEF Answer, Becomes, loopJob
  <2> QED BY <1>0, <1>2, <1>4, <2>1 DEF InOrder, Threads
<1>5. CASE Refuse(r)
  BY <1>4, <1>5 DEF Refuse, Statuses, t
<1>14. CASE HandlerDies(r)
  <2>1. Becomes(r, k, "done", s, c, w, x, o, f) BY <1>1, <1>14 DEF HandlerDies, Becomes, loopJob
  <2>2. t = "reading" /\ UNCHANGED session BY <1>14 DEF HandlerDies, t
  <2> QED BY <1>0, <1>2, <2>1, <2>2 DEF InOrder, Threads
<1>6. CASE Schedule(r)
  <2>1. CASE thread' = [thread EXCEPT ![r] = "waiting"]
    <3>1. Becomes(r, k, "waiting", s, "queued", w, x, o, f) /\ t = "reading"
      BY <1>1, <1>6, <2>1 DEF Schedule, Answer, Becomes, Threads, t, SessionInv, RequestTypes
    <3> QED BY <1>0, <1>2, <1>6, <3>1 DEF InOrder, Threads, Chats, Schedule
  <2>2. CASE Answer(r, 500) /\ UNCHANGED chat
    BY <1>4, <1>6, <2>2 DEF Schedule, Statuses, t, loopJob
  <2> QED BY <1>6, <2>1, <2>2 DEF Schedule
<1>7. CASE HandlerGetsResult(r)
  <2> DEFINE code == IF f = "response" THEN 200 ELSE IF f = "bad value" THEN 400 ELSE 500
  <2>1. Answer(r, code) BY <1>7 DEF HandlerGetsResult, f
  <2>2. code \in Statuses /\ (code = 200 => f = "response") BY DEF Statuses
  <2> HIDE DEF code
  <2> QED BY <1>4, <1>7, <2>1, <2>2 DEF HandlerGetsResult, t
<1>8. CASE HandlerTimesOut(r)
  BY <1>4, <1>8 DEF HandlerTimesOut, Statuses, t
<1>9. CASE StartChat(r)
  <2>1. c = "queued" /\ UNCHANGED session BY <1>9 DEF StartChat, c
  <2>2. \/ Becomes(r, k, t, s, "shielding", "ready", x, o, f)
        \/ \E raised \in {"bad value", "error"} : Becomes(r, k, t, s, "done", w, x, o, raised)
    BY <1>1, <1>9 DEF StartChat, Becomes, server
  <2>3. /\ InOrder(r, k, t, s, "shielding", "ready", x, o, f, sent)
        /\ \A raised \in {"bad value", "error"} : InOrder(r, k, t, s, "done", w, x, o, raised, sent)
    BY <1>0, <2>1 DEF InOrder, Works
  <2>4. "shielding" \in Chats /\ "done" \in Chats /\ "ready" \in Works /\ {"bad value", "error"} \subseteq Futures
    BY DEF Chats, Works, Futures
  <2> QED BY <1>0, <1>2, <2>1, <2>2, <2>3, <2>4
<1>10. CASE RunChat(r)
  <2>1. w = "ready" BY <1>10 DEF RunChat, w
  <2>2. CASE Submit(r) /\ work' = [work EXCEPT ![r] = "rollout"] /\ UNCHANGED out
    <3>1. Becomes(r, k, t, s, c, "rollout", x, o, f)
      BY <1>1, <1>10, <2>2 DEF RunChat, Becomes, server
    <3>2. ToSet(cmds') = sent \cup {r}
      <4>1. r \notin ToSet(cmds) BY <1>0, <2>1 DEF InOrder, sent
      <4> QED BY <2>2, <4>1, CommandAppended DEF Submit, SessionInv, CommandsTellTheSession, Commands, sent
    <3>3. InOrder(r, k, t, s, c, "rollout", x, o, f, sent \cup {r}) BY <1>0, <2>1 DEF InOrder
    <3> QED BY <1>0, <3>1, <3>2, <3>3, OneMoves, SMTT(30) DEF Works, sent
  <2>3. CASE UNCHANGED cmds /\ work' = [work EXCEPT ![r] = "done"]
    <3>1. PICK o1 \in Outs : /\ Becomes(r, k, t, s, c, "done", x, o1, f)
                             /\ o1 \in {o, "response", "error"}
                             /\ o1 = "response" /\ o # "response" => k = "long"
      <4>1. \/ out' = out
            \/ k = "long" /\ ~x /\ out' = [out EXCEPT ![r] = "response"]
            \/ out' = [out EXCEPT ![r] = "error"]
        <5>1. cmds # Append(cmds, r) BY DEF SessionInv, CommandsTellTheSession
        <5> QED BY <1>1, <1>10, <2>3, <5>1 DEF RunChat, SetOut, Submit, k, x, o
      <4>2. \A o1 : out' = [out EXCEPT ![r] = o1] => Becomes(r, k, t, s, c, "done", x, o1, f)
        BY <1>1, <1>10, <2>3 DEF RunChat, Becomes, server
      <4> QED BY <1>0, <1>1, <4>1, <4>2 DEF Outs
    <3>2. UNCHANGED session BY <1>10, <2>3 DEF RunChat, session
    <3>3. InOrder(r, k, t, s, c, "done", x, o1, f, sent) BY <1>0, <2>1, <3>1 DEF InOrder
    <3> QED BY <1>0, <1>2, <3>1, <3>2, <3>3 DEF Works
  <2> QED BY <1>10, <2>2, <2>3 DEF RunChat
<1>11. CASE RolloutReturns(r)
  <2>1. PICK o1 \in Outs : Becomes(r, k, t, s, c, "done", x, o1, f)
    <3>1. PICK o1 \in Outs : out' = [out EXCEPT ![r] = o1]
      BY <1>0, <1>1, <1>11 DEF RolloutReturns, SetOut, Outs, o
    <3> QED BY <1>1, <1>11, <3>1 DEF RolloutReturns, Becomes, server
  <2>2. w = "rollout" /\ UNCHANGED session BY <1>11 DEF RolloutReturns, w
  <2>3. InOrder(r, k, t, s, c, "done", x, o1, f, sent) BY <1>0, <2>2 DEF InOrder
  <2> QED BY <1>0, <1>2, <2>1, <2>2, <2>3 DEF Works
<1>12. CASE ChatTimesOut(r)
  <2>1. Becomes(r, k, t, s, "done", w, TRUE, o, "error")
    BY <1>1, <1>12 DEF ChatTimesOut, Becomes, server
  <2>2. c = "shielding" /\ UNCHANGED session BY <1>12 DEF ChatTimesOut, c
  <2>3. InOrder(r, k, t, s, "done", w, TRUE, o, "error", sent) BY <1>0, <2>2 DEF InOrder
  <2> QED BY <1>0, <1>2, <2>1, <2>2, <2>3 DEF Chats, Futures
<1>13. CASE ChatReturns(r)
  <2> DEFINE f1 == IF o = "none" THEN "error" ELSE o
  <2>1. Becomes(r, k, t, s, "done", w, x, o, f1)
    BY <1>1, <1>13 DEF ChatReturns, Becomes, server, o
  <2>2. c = "shielding" /\ UNCHANGED session BY <1>13 DEF ChatReturns, c
  <2>3. f1 \in Futures /\ InOrder(r, k, t, s, "done", w, x, o, f1, sent)
    BY <1>0, <2>2 DEF InOrder, Outs, Futures
  <2> HIDE DEF f1
  <2> QED BY <1>0, <1>2, <2>1, <2>2, <2>3 DEF Chats
<1> QED BY <1>3, <1>5, <1>6, <1>7, <1>8, <1>9, <1>10, <1>11, <1>12, <1>13, <1>14 DEF HandlerStep, LoopStep

\* Every step of the session, its proxy and its clients keeps the invariant.
LEMMA SessionStep == ASSUME SessionInv, [Next]_vars PROVE SessionInv'
<1>1. CASE MainStep BY <1>1, MainKeepsSession, MainKeepsRequests DEF SessionInv
<1>2. ASSUME NEW r \in Reqs, Accept(r) \/ HandlerStep(r) \/ LoopStep(r) PROVE SessionInv'
  BY <1>2, RequestKeepsSession, RequestKeepsRequests DEF SessionInv
<1>3. CASE UNCHANGED vars
  BY <1>3, SessionKept DEF vars, session, server, loopJob, SessionInv, RequestTypes, RequestIsInOrder, ToSet
<1> QED BY <1>1, <1>2, <1>3 DEF Next

\* The first state.
LEMMA SessionStarts == Init => SessionInv
<1> SUFFICES ASSUME Init PROVE SessionInv OBVIOUS
<1>1. ToSet(cmds) = {} BY DEF Init, ToSet
<1>2. CommandsTellTheSession BY <1>1 DEF Init, CommandsTellTheSession, Open
<1> QED BY <1>1, <1>2 DEF Init, SessionInv, RequestTypes, RequestIsInOrder, InOrder,
                     Kinds, Threads, Chats, Works, Outs, Futures, Statuses

\* The backend sees every rollout between the BEGIN and the END of a session, and no command
\* twice, for any number of requests and of threads and whatever the backend answers.
THEOREM SessionHoldsItsRollouts == Spec => []RolloutsInsideSession
<1>1. SessionInv => RolloutsInsideSession
  <2> SUFFICES ASSUME SessionInv PROVE RolloutsInsideSession OBVIOUS
  <2>1. cmds \in Seq(Commands) /\ (cmds # << >> => cmds[1] = "BEGIN")
        /\ \A i, j \in DOMAIN cmds : cmds[j] = "END" => i <= j
    BY DEF SessionInv, CommandsTellTheSession
  <2>2. ASSUME NEW i \in DOMAIN cmds, cmds[i] \in Reqs \cup {"prompts", "SYNC"}
        PROVE  (\E j \in 1..i : cmds[j] = "BEGIN") /\ (\A j \in 1..i : cmds[j] # "END")
    <3>1. i \in Nat /\ i >= 1 /\ 1..i \subseteq DOMAIN cmds BY <2>1
    <3>2. cmds[1] = "BEGIN" BY <2>1
    <3>3. cmds[i] # "END" BY <2>2, ReqsAssumption
    <3>4. ASSUME NEW j \in 1..i, cmds[j] = "END" PROVE FALSE
      <4>1. j = i BY <2>1, <3>1, <3>4
      <4> QED BY <3>3, <3>4, <4>1
    <3> QED BY <3>1, <3>2, <3>4
  <2> QED BY <2>2 DEF RolloutsInsideSession, SessionInv, CommandsTellTheSession
<1> QED BY <1>1, SessionStarts, SessionStep, PTL DEF Spec

\* A client is told 200 only for a response of its own, never after its wait timed out, and
\* only when its prompt was filtered or its rollout was submitted.
THEOREM AnswersMeanRollouts == Spec => []AnswersAreGenuine
<1>1. SessionInv => AnswersAreGenuine BY DEF SessionInv, RequestIsInOrder, InOrder, AnswersAreGenuine, RequestTypes
<1> QED BY <1>1, SessionStarts, SessionStep, PTL DEF Spec
(***************************************************************************)
(* The dashboard.                                                          *)
(***************************************************************************)
\* A sequence, by its elements.
IsSeq(s) == Len(s) \in Nat /\ s = [i \in 1 .. Len(s) |-> s[i]]

\* The ways in which the table and the list of processes change.
LEMMA Mapped ==
  ASSUME NEW n \in Nat, NEW s, s = [i \in 1 .. n |-> s[i]]
  PROVE  IsSeq(s) /\ Len(s) = n /\ DOMAIN s = 1 .. n
<1>1. s \in [1 .. n -> {s[i] : i \in 1 .. n}] OBVIOUS
<1>2. Len(s) = n BY <1>1, SeqOfFunction
<1> QED BY <1>2 DEF IsSeq

\* A sequence is one of its own elements.
LEMMA InSeq ==
  ASSUME NEW s, IsSeq(s)
  PROVE  s \in Seq({s[i] : i \in 1 .. Len(s)}) /\ DOMAIN s = 1 .. Len(s) /\ Len(s) \in Nat
<1>1. s \in [1 .. Len(s) -> {s[i] : i \in 1 .. Len(s)}] /\ Len(s) \in Nat BY DEF IsSeq
<1> QED BY <1>1, SeqOfFunction DEF IsSeq

\* Every sequence is what its elements say.
LEMMA OfSeq == ASSUME NEW X, NEW s \in Seq(X) PROVE IsSeq(s)
BY SeqIsFunction DEF IsSeq

\* The empty sequence.
LEMMA NothingInSeq == IsSeq(<< >>) /\ Len(<< >>) = 0 /\ 1 .. Len(<< >>) = {}
<1>1. << >> \in Seq(Nat) OBVIOUS
<1>2. IsSeq(<< >>) BY ONLY <1>1, OfSeq
<1>3. Len(<< >>) = 0 OBVIOUS
<1> QED BY <1>2, <1>3

\* Appending leaves what was there in place.
LEMMA Appended ==
  ASSUME NEW s, IsSeq(s), NEW x
  PROVE  /\ IsSeq(Append(s, x)) /\ Len(Append(s, x)) = Len(s) + 1
         /\ Append(s, x)[Len(s) + 1] = x /\ \A i \in 1 .. Len(s) : Append(s, x)[i] = s[i]
<1> DEFINE X == {s[i] : i \in 1 .. Len(s)} \cup {x}
<1>1. Len(s) \in Nat /\ s \in [1 .. Len(s) -> X] BY DEF IsSeq
<1>2. s \in Seq(X) /\ x \in X BY <1>1, SeqOfFunction
<1> HIDE DEF X
<1>3. Append(s, x) \in Seq(X) BY <1>2
<1>4. IsSeq(Append(s, x)) BY <1>3, OfSeq
<1> QED BY <1>1, <1>2, <1>4

Replaced(s, j, x) == [s EXCEPT ![j] = x]
\* Replacing an element leaves the others in place.
LEMMA ReplacedIs ==
  ASSUME NEW s, IsSeq(s), NEW j \in 1 .. Len(s), NEW x
  PROVE  /\ IsSeq(Replaced(s, j, x)) /\ Len(Replaced(s, j, x)) = Len(s) /\ Replaced(s, j, x)[j] = x
         /\ \A i \in 1 .. Len(s) : i # j => Replaced(s, j, x)[i] = s[i]
<1> DEFINE t == Replaced(s, j, x)
<1>1. Len(s) \in Nat /\ DOMAIN s = 1 .. Len(s) BY DEF IsSeq
<1>2. t = [i \in 1 .. Len(s) |-> t[i]] BY <1>1 DEF Replaced
<1>3. t[j] = x /\ \A i \in 1 .. Len(s) : i # j => t[i] = s[i] BY <1>1 DEF Replaced
<1> HIDE DEF t
<1>4. IsSeq(t) /\ Len(t) = Len(s) BY ONLY <1>1, <1>2, Mapped
<1> QED BY <1>3, <1>4 DEF t

\* In a concatenation, both sequences are in place.
LEMMA Chained ==
  ASSUME NEW s, IsSeq(s), NEW t, IsSeq(t)
  PROVE  /\ IsSeq(s \o t) /\ Len(s \o t) = Len(s) + Len(t)
         /\ \A i \in 1 .. Len(s) : (s \o t)[i] = s[i]
         /\ \A i \in 1 .. Len(s) + Len(t) : i \notin 1 .. Len(s) =>
              i - Len(s) \in 1 .. Len(t) /\ (s \o t)[i] = t[i - Len(s)]
<1> DEFINE X == {s[i] : i \in 1 .. Len(s)} \cup {t[i] : i \in 1 .. Len(t)}
<1>1. Len(s) \in Nat /\ s \in [1 .. Len(s) -> X] /\ Len(t) \in Nat /\ t \in [1 .. Len(t) -> X] BY DEF IsSeq
<1>2. s \in Seq(X) /\ t \in Seq(X) BY <1>1, SeqOfFunction
<1> HIDE DEF X
<1>3. s \o t \in Seq(X) BY <1>2, ConcatElements
<1>4. IsSeq(s \o t) BY <1>3, OfSeq
<1>5. Len(s \o t) = Len(s) + Len(t) /\ \A i \in 1 .. Len(s) : (s \o t)[i] = s[i] BY <1>2, ConcatElements
<1>6. \A i \in Len(s) + 1 .. Len(s) + Len(t) : (s \o t)[i] = t[i - Len(s)] BY <1>2, ConcatElements
<1>7. \A i \in 1 .. Len(s) + Len(t) : i \notin 1 .. Len(s) =>
        i \in Len(s) + 1 .. Len(s) + Len(t) /\ i - Len(s) \in 1 .. Len(t) BY <1>1
<1> QED BY <1>4, <1>5, <1>6, <1>7

\* Jobs, processes and what a handler is doing are records.
IsJob(job) ==
  DOMAIN job = {"kind", "command", "launch_config", "metrics_dir", "pid", "process", "status", "stage", "step", "returncode",
                "metrics", "samples", "timeperf", "watch", "mixed"}
IsProc(proc) == DOMAIN proc = {"state", "code", "child", "command", "dir", "wrote", "read", "term"}
IsHandler(doing) == DOMAIN doing = {"at", "job", "pid", "process", "items"}

Endings == {"stopped", "failed", "succeeded", "exited"}

\* Whatever else happens to a job, its process and its watcher stay, and so does being stopped,
\* having been launched, and having ended.
Steady(a, b) ==
  /\ IsJob(b) /\ b.pid = a.pid /\ b.process = a.process /\ b.watch = a.watch
  /\ a.status = "stopped" => b.status = "stopped"
  /\ b.status = a.status \/ b.status \in Endings \cup {"running"}
  /\ a.watch = "done" /\ a.status \in Endings => b.status \in Endings

\* Two steady changes are one.
LEMMA SteadyTwice ==
  ASSUME NEW a, NEW b, NEW c, Steady(a, b), Steady(b, c) PROVE Steady(a, c)
BY DEF Steady

\* Whatever is read from a job's files, its process, its watcher and its end stay (_load_metric_files).
LEMMA LoadedIsSteady ==
  ASSUME NEW a, IsJob(a), NEW b \in Loaded(a)
  PROVE  Steady(a, b)
<1> DEFINE ps == Sources(a)
<1>5. CASE ps = {}
  <2>1. b = a BY <1>5 DEF Loaded
  <2> QED BY <2>1 DEF Steady
<1> SUFFICES ASSUME ps # {} PROVE Steady(a, b) BY <1>5
<1>1. PICK c \in _load_dashboard_state(a, ps), files \in SetToSeqs(ps) :
        b = [_load_rollout_samples(_load_tensorboard_scalars(c, files), files) EXCEPT !.mixed = @ \/ a.pid = NoPid]
  BY DEF Loaded
<1>2. Steady(a, c)
  <2> DEFINE said == UNION {{Output[i].step : i \in TailOf(Written(p, "state"), 1)} : p \in ps}
  <2>1. CASE c = a BY <2>1 DEF Steady
  <2>2. CASE \E x \in said :
               c = [a EXCEPT !.stage = x, !.step = Max({@, x}),
                             !.status = IF @ \in {"stopped", "failed", "succeeded", "exited"}
                                        THEN @ ELSE "running"]
    <3>1. PICK x \in said :
             c = [a EXCEPT !.stage = x, !.step = Max({@, x}),
                           !.status = IF @ \in {"stopped", "failed", "succeeded", "exited"}
                                      THEN @ ELSE "running"]
      BY <2>2
    <3>2. /\ IsJob(c) /\ c.pid = a.pid /\ c.process = a.process /\ c.watch = a.watch
          /\ c.status = IF a.status \in {"stopped", "failed", "succeeded", "exited"} THEN a.status ELSE "running"
      BY <3>1 DEF IsJob
    <3> QED BY <3>2 DEF Steady, Endings
  <2>3. c = a \/ \E x \in said :
               c = [a EXCEPT !.stage = x, !.step = Max({@, x}),
                             !.status = IF @ \in {"stopped", "failed", "succeeded", "exited"}
                                        THEN @ ELSE "running"]
    BY <1>1 DEF _load_dashboard_state
  <2> QED BY <2>1, <2>2, <2>3
<1> DEFINE d == _load_tensorboard_scalars(c, files)  e == _load_rollout_samples(d, files)
<1>6. Steady(c, d) BY <1>2 DEF _load_tensorboard_scalars, Steady, IsJob
<1>7. Steady(d, e) BY <1>6 DEF _load_rollout_samples, Steady, IsJob
<1>8. b = [e EXCEPT !.mixed = @ \/ a.pid = NoPid] BY <1>1
<1> HIDE DEF d, e
<1>9. Steady(e, b) BY <1>7, <1>8 DEF Steady, IsJob
<1> QED BY <1>2, <1>6, <1>7, <1>9, SteadyTwice

-----------------------------------------------------------------------------
Gone(ps, p) == ps[p].state = "gone"
Over(ps, p) == ps[p].state \in {"zombie", "gone"}
PidsIn(s, n) == IsSeq(s) /\ \A i \in 1 .. Len(s) : s[i] \in 1 .. n

ProcOk(proc, n) ==
  /\ IsProc(proc) /\ proc.state \in {"boots", "registers", "works", "zombie", "gone"}
  /\ proc.state \in {"zombie", "gone"} => proc.code # NoCode
  /\ PidsIn(proc.read, n)
ProcsOk(ps) == IsSeq(ps) /\ \A p \in 1 .. Len(ps) : ProcOk(ps[p], Len(ps))

\* A watched job is the one of its process; what its watcher has seen the end of has one.
JobOk(job, ps) ==
  /\ IsJob(job) /\ job.status \in {"created", "running"} \cup Endings
  /\ job.pid \in 0 .. Len(ps) /\ job.process \in 0 .. Len(ps)
  /\ job.watch # "none" => job.process # NoPid /\ job.process = job.pid /\ job.status # "created"
  /\ job.watch \in {"reaped", "done"} => Gone(ps, job.process)
  /\ job.watch = "done" => job.status \in Endings
  /\ job.watch \in {"none", "waits", "reaped", "done"}
JobsOk(js, ps) == IsSeq(js) /\ \A j \in 1 .. Len(js) : JobOk(js[j], ps)

\* Processes are added, and end; a signal is not taken back.
Grows(ps, qs) ==
  /\ Len(ps) \in Nat /\ Len(qs) \in Nat /\ Len(ps) <= Len(qs)
  /\ \A p \in 1 .. Len(ps) : /\ Gone(ps, p) => Gone(qs, p)
                             /\ Over(ps, p) => Over(qs, p)
                             /\ ps[p].term => qs[p].term

\* A steady change keeps a job in order.
LEMMA SteadyIsOk == ASSUME NEW a, NEW b, NEW ps, JobOk(a, ps), Steady(a, b) PROVE JobOk(b, ps)
BY DEF JobOk, Steady, Endings

\* What was in order stays so while processes come and end.
LEMMA OkAsTheyGrow ==
  ASSUME NEW ps, NEW qs, Grows(ps, qs)
  PROVE  /\ \A job : JobOk(job, ps) => JobOk(job, qs)
         /\ \A s : PidsIn(s, Len(ps)) => PidsIn(s, Len(qs))
<1>1. \A n \in 0 .. Len(ps) : n \in 0 .. Len(qs) BY DEF Grows
<1>2. \A n \in 1 .. Len(ps) : n \in 1 .. Len(qs) BY DEF Grows
<1>3. ASSUME NEW job, JobOk(job, ps) PROVE JobOk(job, qs)
  <2>1. job.pid \in 0 .. Len(qs) /\ job.process \in 0 .. Len(qs) BY <1>1, <1>3 DEF JobOk
  <2>2. job.watch \in {"reaped", "done"} => job.process \in 1 .. Len(ps)
    BY <1>3 DEF JobOk, NoPid, Grows
  <2>3. job.watch \in {"reaped", "done"} => Gone(qs, job.process) BY <1>3, <2>2 DEF JobOk, Grows
  <2> QED BY <1>3, <2>1, <2>3 DEF JobOk
<1>4. ASSUME NEW s, PidsIn(s, Len(ps)) PROVE PidsIn(s, Len(qs)) BY <1>2, <1>4 DEF PidsIn
<1> QED BY <1>3, <1>4

Launches == {"spawn", "note", "launch"}
\* The one handler that launches job j, and how far it is.
LaunchOk(h) ==
  handlers[h].at \in Launches =>
    LET j == handlers[h].job
    IN  /\ j \in 1 .. Len(jobs) /\ jobs[j].watch = "none"
        /\ \A g \in Handlers : handlers[g].at \in Launches /\ handlers[g].job = j => g = h
        /\ handlers[h].at = "spawn" => jobs[j].pid = NoPid /\ jobs[j].process = NoPid
        /\ handlers[h].at = "note" => jobs[j].pid = NoPid /\ jobs[j].process # NoPid
        /\ handlers[h].at = "launch" => jobs[j].process = jobs[j].pid /\ jobs[j].process # NoPid
LaunchedOk(j) == ~Launching(j) => jobs[j].process \in {NoPid, jobs[j].pid}

\* A stop reaches the process of the job it is for.
Signalling(h, j) ==
  /\ handlers[h].at = "signal" /\ handlers[h].job = j
  /\ handlers[h].pid = jobs[j].pid /\ handlers[h].process = jobs[j].process
StopOk(j) ==
  /\ j \in 1 .. Len(jobs) /\ jobs[j].status = "stopped" /\ ~Launching(j)
  /\ \/ \E h \in Handlers : Signalling(h, j)
     \/ jobs[j].pid = NoPid \/ Over(procs, jobs[j].pid) \/ procs[jobs[j].pid].term

FileOk == JobsOk(state_file, procs) /\ \A j \in 1 .. Len(state_file) :
            state_file[j].watch = "none" /\ state_file[j].process = NoPid
RegistryOk == PidsIn(registry, Len(procs)) /\ \A h \in Handlers : PidsIn(handlers[h].items, Len(procs))
HandlersOk == DOMAIN handlers = Handlers /\ \A h \in Handlers : IsHandler(handlers[h])
LookOk(h) == handlers[h].at = "summaries" => handlers[h].job \in 1 .. Len(jobs)
DownOk == ~up => jobs = <<>> /\ stops = {} /\ \A h \in Handlers : handlers[h] = AtRest

DashInv ==
  /\ ProcsOk(procs) /\ JobsOk(jobs, procs) /\ FileOk /\ RegistryOk /\ HandlersOk /\ DownOk
  /\ (\A h \in Handlers : LaunchOk(h)) /\ (\A h \in Handlers : LookOk(h))
  /\ (\A j \in 1 .. Len(jobs) : LaunchedOk(j)) /\ (\A j \in stops : StopOk(j))

-----------------------------------------------------------------------------
\* A step that is no part of a launch, and after which the signals are still to be sent.
Stays(a, b) ==
  /\ b.pid = a.pid /\ b.process = a.process
  /\ a.watch = "none" => b.watch = "none"
  /\ a.status = "stopped" => b.status = "stopped"
SameTask(a, b) == b.at = a.at /\ b.job = a.job /\ b.pid = a.pid /\ b.process = a.process
Sent(doing) ==
  LET p == IF doing.process # NoPid THEN doing.process ELSE doing.pid
  IN  p \notin 1 .. Len(procs) \/ Over(procs', p) \/ procs'[p].term
Calm ==
  /\ \A g \in Handlers : {handlers'[g].at, handlers[g].at} \intersect Launches # {}
                             => SameTask(handlers[g], handlers'[g])
  /\ \A g \in Handlers : handlers[g].at = "signal" => SameTask(handlers[g], handlers'[g]) \/ Sent(handlers[g])
  /\ \A g \in Handlers : handlers'[g].at = "summaries" =>
                            SameTask(handlers[g], handlers'[g]) \/ handlers'[g].job \in 1 .. Len(jobs)
  /\ Len(jobs) \in Nat /\ Len(jobs') \in Nat /\ Len(jobs) <= Len(jobs')
  /\ \A j \in 1 .. Len(jobs) : Stays(jobs[j], jobs'[j])
  /\ \A j \in 1 .. Len(jobs') : j \notin 1 .. Len(jobs) => jobs'[j].process = NoPid
  /\ \A j \in stops' \ stops : StopOk(j)'

\* A calm step keeps the invariant.
LEMMA CalmKeeps ==
  ASSUME DashInv, Calm, Grows(procs, procs'),
         ProcsOk(procs'), JobsOk(jobs', procs'), FileOk', RegistryOk', HandlersOk', DownOk'
  PROVE  DashInv'
<1>1. \A g \in Handlers : \A j : handlers'[g].at \in Launches /\ handlers'[g].job = j
                             <=> handlers[g].at \in Launches /\ handlers[g].job = j
  BY DEF Calm, SameTask
<1>2. \A j : Launching(j) <=> \E g \in Handlers : handlers[g].at \in Launches /\ handlers[g].job = j
  BY DEF Launching, Launches
<1>3. \A j : Launching(j)' <=> \E g \in Handlers : handlers'[g].at \in Launches /\ handlers'[g].job = j
  BY DEF Launching, Launches
<1>4. \A j : Launching(j)' <=> Launching(j) BY <1>1, <1>2, <1>3
<1>5. ASSUME NEW h \in Handlers PROVE LaunchOk(h)'
  <2> SUFFICES ASSUME handlers'[h].at \in Launches PROVE LaunchOk(h)' BY DEF LaunchOk
  <2> DEFINE j == handlers[h].job
  <2>1. SameTask(handlers[h], handlers'[h]) BY DEF Calm
  <2>2. handlers[h].at \in Launches /\ handlers'[h].job = j /\ handlers'[h].at = handlers[h].at
    BY <2>1 DEF SameTask
  <2>3. LaunchOk(h) BY DEF DashInv
  <2>4. j \in 1 .. Len(jobs) /\ jobs[j].watch = "none" BY <2>2, <2>3 DEF LaunchOk
  <2>5. j \in 1 .. Len(jobs') /\ Stays(jobs[j], jobs'[j]) BY <2>4 DEF Calm
  <2>6. \A g \in Handlers : handlers'[g].at \in Launches /\ handlers'[g].job = j => g = h
    <3>1. \A g \in Handlers : handlers[g].at \in Launches /\ handlers[g].job = j => g = h
      BY <2>2, <2>3 DEF LaunchOk
    <3> HIDE DEF j
    <3> QED BY <1>1, <3>1
  <2> HIDE DEF j
  <2> QED BY <2>2, <2>3, <2>4, <2>5, <2>6 DEF LaunchOk, Stays, j
<1>6. ASSUME NEW j \in 1 .. Len(jobs') PROVE LaunchedOk(j)'
  <2>1. CASE j \in 1 .. Len(jobs)
    <3>1. Stays(jobs[j], jobs'[j]) /\ LaunchedOk(j) BY <2>1 DEF Calm, DashInv
    <3> QED BY <1>4, <3>1 DEF LaunchedOk, Stays
  <2>2. CASE j \notin 1 .. Len(jobs) BY <2>2 DEF Calm, LaunchedOk
  <2> QED BY <2>1, <2>2
<1>7. ASSUME NEW j \in stops' PROVE StopOk(j)'
  <2> SUFFICES ASSUME j \in stops PROVE StopOk(j)' BY DEF Calm
  <2>1. StopOk(j) BY DEF DashInv
  <2>2. j \in 1 .. Len(jobs) BY <2>1 DEF StopOk
  <2>3. j \in 1 .. Len(jobs') /\ Stays(jobs[j], jobs'[j]) BY <2>2 DEF Calm
  <2>4. jobs'[j].status = "stopped" /\ ~Launching(j)' BY <1>4, <2>1, <2>3 DEF StopOk, Stays
  <2>5. CASE \E h \in Handlers : Signalling(h, j)
    <3>1. PICK h \in Handlers : Signalling(h, j) BY <2>5
    <3>2. CASE SameTask(handlers[h], handlers'[h])
      <4>1. Signalling(h, j)' BY <2>3, <3>1, <3>2 DEF Signalling, SameTask, Stays
      <4> QED BY <2>3, <2>4, <4>1 DEF StopOk
    <3>3. CASE Sent(handlers[h])
      <4>1. LaunchedOk(j) BY <2>2 DEF DashInv
      <4>2. handlers[h].process \in {NoPid, jobs[j].pid} /\ handlers[h].pid = jobs[j].pid
        BY <2>1, <3>1, <4>1 DEF StopOk, LaunchedOk, Signalling
      <4>3. jobs[j].pid \notin 1 .. Len(procs) \/ Over(procs', jobs[j].pid) \/ procs'[jobs[j].pid].term
        BY <3>3, <4>2 DEF Sent
      <4>5. JobOk(jobs[j], procs) /\ Len(procs) \in Nat BY <2>2 DEF DashInv, JobsOk, Grows
      <4>6. jobs[j].pid \notin 1 .. Len(procs) => jobs[j].pid = NoPid BY <4>5 DEF JobOk, NoPid
      <4>4. jobs'[j].pid = jobs[j].pid BY <2>3 DEF Stays
      <4> QED BY <2>3, <2>4, <4>3, <4>4, <4>6 DEF StopOk
    <3> QED BY <3>1, <3>2, <3>3 DEF Calm, Signalling
  <2>6. CASE jobs[j].pid = NoPid BY <2>3, <2>4, <2>6 DEF StopOk, Stays
  <2>7. CASE jobs[j].pid # NoPid /\ (Over(procs, jobs[j].pid) \/ procs[jobs[j].pid].term)
    <3>1. JobOk(jobs[j], procs) BY <2>2 DEF DashInv, JobsOk
    <3>2. jobs[j].pid \in 1 .. Len(procs) BY <2>7, <3>1 DEF JobOk, NoPid, Grows
    <3>3. Over(procs', jobs[j].pid) \/ procs'[jobs[j].pid].term BY <2>7, <3>2 DEF Grows
    <3>4. jobs'[j].pid = jobs[j].pid BY <2>3 DEF Stays
    <3> QED BY <2>3, <2>4, <3>3, <3>4 DEF StopOk
  <2> QED BY <2>1, <2>5, <2>6, <2>7 DEF StopOk
<1>8. ASSUME NEW h \in Handlers PROVE LookOk(h)'
  <2>1. CASE SameTask(handlers[h], handlers'[h]) BY <2>1 DEF DashInv, LookOk, SameTask, Calm
  <2>2. CASE ~SameTask(handlers[h], handlers'[h]) BY <2>2 DEF LookOk, Calm
  <2> QED BY <2>1, <2>2
<1> QED BY <1>5, <1>6, <1>7, <1>8 DEF DashInv

\* A step of the handler h that launches job j: j enters the table, gets its process, or is left.
Launchs(h, j) ==
  /\ \A g \in Handlers : g # h => handlers'[g] = handlers[g]
  /\ handlers[h].at # "signal" /\ handlers'[h].at # "summaries"
  /\ Len(jobs) \in Nat /\ Len(jobs') \in Nat /\ Len(jobs) <= Len(jobs') /\ j \in 1 .. Len(jobs')
  /\ IF handlers[h].at \in Launches THEN handlers[h].job = j ELSE j \notin 1 .. Len(jobs)
  /\ \A i \in 1 .. Len(jobs') : i # j => i \in 1 .. Len(jobs) /\ jobs'[i] = jobs[i]
  /\ IF handlers'[h].at \in Launches
     THEN /\ handlers'[h].job = j /\ jobs'[j].watch = "none"
          /\ handlers'[h].at = "spawn" => jobs'[j].pid = NoPid /\ jobs'[j].process = NoPid
          /\ handlers'[h].at = "note" => jobs'[j].pid = NoPid /\ jobs'[j].process # NoPid
          /\ handlers'[h].at = "launch" => jobs'[j].process = jobs'[j].pid /\ jobs'[j].process # NoPid
     ELSE jobs'[j].process \in {NoPid, jobs'[j].pid}
  /\ stops' = stops

\* A step of a launch keeps the invariant.
LEMMA LaunchKeeps ==
  ASSUME DashInv, NEW h \in Handlers, NEW j, Launchs(h, j), Grows(procs, procs'),
         ProcsOk(procs'), JobsOk(jobs', procs'), FileOk', RegistryOk', HandlersOk', DownOk'
  PROVE  DashInv'
<1>1. \A g \in Handlers : g # h => (handlers'[g] = handlers[g] /\ ~(handlers[g].at \in Launches /\ handlers[g].job = j))
  <2>1. SUFFICES ASSUME NEW g \in Handlers, g # h, handlers[g].at \in Launches, handlers[g].job = j PROVE FALSE
    BY DEF Launchs
  <2>2. LaunchOk(g) BY DEF DashInv
  <2>3. j \in 1 .. Len(jobs) BY <2>1, <2>2 DEF LaunchOk
  <2>4. handlers[h].at \in Launches /\ handlers[h].job = j BY <2>3 DEF Launchs
  <2> QED BY <2>1, <2>2, <2>4 DEF LaunchOk
<1>2. \A i : Launching(i) <=> \E g \in Handlers : handlers[g].at \in Launches /\ handlers[g].job = i
  BY DEF Launching, Launches
<1>3. \A i : Launching(i)' <=> \E g \in Handlers : handlers'[g].at \in Launches /\ handlers'[g].job = i
  BY DEF Launching, Launches
<1>4. \A i : i # j /\ i \in 1 .. Len(jobs) => (Launching(i)' <=> Launching(i))
  <2>1. SUFFICES ASSUME NEW i, i # j, i \in 1 .. Len(jobs)
                 PROVE \A g \in Handlers : handlers'[g].at \in Launches /\ handlers'[g].job = i
                                             <=> handlers[g].at \in Launches /\ handlers[g].job = i
    BY <1>2, <1>3
  <2>2. SUFFICES ASSUME NEW g \in Handlers
                 PROVE handlers'[g].at \in Launches /\ handlers'[g].job = i
                         <=> handlers[g].at \in Launches /\ handlers[g].job = i
    OBVIOUS
  <2>3. CASE g = h BY <2>1, <2>3 DEF Launchs
  <2>4. CASE g # h BY <1>1, <2>4
  <2> QED BY <2>3, <2>4
<1>5. ASSUME NEW g \in Handlers PROVE LaunchOk(g)'
  <2> SUFFICES ASSUME handlers'[g].at \in Launches PROVE LaunchOk(g)' BY DEF LaunchOk
  <2>1. CASE g = h
    <3>1. handlers'[h].job = j /\ j \in 1 .. Len(jobs') BY <2>1 DEF Launchs
    <3>2. \A f \in Handlers : handlers'[f].at \in Launches /\ handlers'[f].job = j => f = h
      BY <1>1
    <3> QED BY <2>1, <3>1, <3>2 DEF LaunchOk, Launchs
  <2>2. CASE g # h
    <3> DEFINE i == handlers[g].job
    <3>1. handlers'[g] = handlers[g] /\ i # j /\ LaunchOk(g) BY <1>1, <2>2 DEF DashInv
    <3>2. i \in 1 .. Len(jobs) /\ jobs[i].watch = "none" BY <3>1 DEF LaunchOk
    <3>3. i \in 1 .. Len(jobs') /\ jobs'[i] = jobs[i] BY <3>1, <3>2 DEF Launchs
    <3>4. \A f \in Handlers : handlers'[f].at \in Launches /\ handlers'[f].job = i => f = g
      <4>1. SUFFICES ASSUME NEW f \in Handlers, handlers'[f].at \in Launches, handlers'[f].job = i PROVE f = g
        OBVIOUS
      <4>2. f # h BY <3>1, <4>1 DEF Launchs
      <4>3. handlers[f].at \in Launches /\ handlers[f].job = i BY <1>1, <4>1, <4>2
      <4> QED BY <3>1, <4>3 DEF LaunchOk
    <3> HIDE DEF i
    <3> QED BY <3>1, <3>2, <3>3, <3>4 DEF LaunchOk, i
  <2> QED BY <2>1, <2>2
<1>6. ASSUME NEW i \in 1 .. Len(jobs') PROVE LaunchedOk(i)'
  <2>1. CASE i = j
    <3>1. CASE handlers'[h].at \in Launches
      <4>1. Launching(j)' BY <1>3, <3>1 DEF Launchs
      <4> QED BY <2>1, <4>1 DEF LaunchedOk
    <3>2. CASE handlers'[h].at \notin Launches BY <2>1, <3>2 DEF Launchs, LaunchedOk
    <3> QED BY <3>1, <3>2
  <2>2. CASE i # j
    <3>1. i \in 1 .. Len(jobs) /\ jobs'[i] = jobs[i] BY <2>2 DEF Launchs
    <3>2. LaunchedOk(i) BY <3>1 DEF DashInv
    <3> QED BY <1>4, <2>2, <3>1, <3>2 DEF LaunchedOk
  <2> QED BY <2>1, <2>2
<1>7. ASSUME NEW i \in stops' PROVE StopOk(i)'
  <2>1. i \in stops /\ StopOk(i) BY DEF Launchs, DashInv
  <2>2. i \in 1 .. Len(jobs) /\ ~Launching(i) BY <2>1 DEF StopOk
  <2>3. i # j
    <3>1. CASE handlers[h].at \in Launches BY <1>2, <2>2, <3>1 DEF Launchs
    <3>2. CASE handlers[h].at \notin Launches BY <2>2, <3>2 DEF Launchs
    <3> QED BY <3>1, <3>2
  <2>4. i \in 1 .. Len(jobs') /\ jobs'[i] = jobs[i] BY <2>2, <2>3 DEF Launchs
  <2>5. jobs'[i].status = "stopped" /\ ~Launching(i)' BY <1>4, <2>1, <2>2, <2>3, <2>4 DEF StopOk
  <2>6. CASE \E g \in Handlers : Signalling(g, i)
    <3>1. PICK g \in Handlers : Signalling(g, i) BY <2>6
    <3>2. g # h BY <3>1 DEF Signalling, Launchs
    <3>3. Signalling(g, i)' BY <1>1, <2>4, <3>1, <3>2 DEF Signalling
    <3> QED BY <2>4, <2>5, <3>3 DEF StopOk
  <2>7. CASE jobs[i].pid = NoPid BY <2>4, <2>5, <2>7 DEF StopOk
  <2>8. CASE jobs[i].pid # NoPid /\ (Over(procs, jobs[i].pid) \/ procs[jobs[i].pid].term)
    <3>1. JobOk(jobs[i], procs) BY <2>2 DEF DashInv, JobsOk
    <3>2. jobs[i].pid \in 1 .. Len(procs) BY <2>8, <3>1 DEF JobOk, NoPid, Grows
    <3>3. Over(procs', jobs[i].pid) \/ procs'[jobs[i].pid].term BY <2>8, <3>2 DEF Grows
    <3> QED BY <2>4, <2>5, <3>3 DEF StopOk
  <2> QED BY <2>1, <2>6, <2>7, <2>8 DEF StopOk
<1>8. ASSUME NEW g \in Handlers PROVE LookOk(g)' BY DEF DashInv, LookOk, Launchs
<1> QED BY <1>5, <1>6, <1>7, <1>8 DEF DashInv

-----------------------------------------------------------------------------
\* What the file holds of a table.
LEMMA SaveKeeps == ASSUME JobsOk(jobs', procs'), Save PROVE FileOk'
<1>1. Len(jobs') \in Nat /\ DOMAIN jobs' = 1 .. Len(jobs') BY InSeq DEF JobsOk
<1>2. state_file' = [j \in 1 .. Len(jobs') |-> Restored(jobs'[j])] BY <1>1 DEF Save, SavedJobs
<1>3. state_file' = [j \in 1 .. Len(jobs') |-> state_file'[j]] BY <1>2
<1>4. IsSeq(state_file') /\ Len(state_file') = Len(jobs') BY <1>1, <1>3, Mapped
<1>5. ASSUME NEW j \in 1 .. Len(jobs')
      PROVE  JobOk(state_file'[j], procs') /\ state_file'[j].watch = "none" /\ state_file'[j].process = NoPid
  <2>1. state_file'[j] = Restored(jobs'[j]) /\ JobOk(jobs'[j], procs') BY <1>2 DEF JobsOk
  <2> DEFINE a == jobs'[j]  b == Restored(a)
  <2>2. IsJob(a) BY <2>1 DEF JobOk
  <2> HIDE DEF a
  <2>3. /\ IsJob(b) /\ b.status = a.status /\ b.pid = a.pid /\ b.process = NoPid /\ b.watch = "none"
    BY <2>2 DEF Restored, IsJob
  <2>4. Len(procs') \in Nat \/ TRUE OBVIOUS
  <2>5. JobOk(a, procs') BY <2>1 DEF a
  <2> HIDE DEF b
  <2>6. 0 \in 0 .. Len(procs') BY <2>5 DEF JobOk
  <2>7. JobOk(b, procs') BY <2>3, <2>5, <2>6 DEF JobOk, NoPid
  <2> QED BY <2>1, <2>3, <2>7 DEF a, b
<1> QED BY <1>4, <1>5 DEF FileOk, JobsOk

\* A file that is left alone stays in order.
LEMMA FileKept == ASSUME FileOk, Grows(procs, procs'), state_file' = state_file PROVE FileOk'
BY OkAsTheyGrow DEF FileOk, JobsOk

\* So does a table.
LEMMA JobsKept == ASSUME NEW js, JobsOk(js, procs), Grows(procs, procs') PROVE JobsOk(js, procs')
BY OkAsTheyGrow DEF JobsOk

\* Processes that are left alone stay in order.
LEMMA ProcsSame == ASSUME ProcsOk(procs), procs' = procs PROVE ProcsOk(procs') /\ Grows(procs, procs')
BY InSeq DEF ProcsOk, Grows

\* Waiting for children leaves the others as they are.
LEMMA ReapedKeeps ==
  ASSUME ProcsOk(procs), NEW S, NEW qs, qs = Reaped(S)
  PROVE  /\ ProcsOk(qs) /\ Grows(procs, qs) /\ Len(qs) = Len(procs)
         /\ \A p \in 1 .. Len(procs) : /\ qs[p].term = procs[p].term
                                       /\ p \in S /\ ~Runs(p) => Gone(qs, p)
<1>1. Len(procs) \in Nat /\ DOMAIN procs = 1 .. Len(procs) BY InSeq DEF ProcsOk
<1>2. qs = [p \in 1 .. Len(procs) |->
              IF p \in S /\ procs[p].state = "zombie" THEN [procs[p] EXCEPT !.state = "gone"] ELSE procs[p]]
  BY <1>1 DEF Reaped
<1>3. qs = [p \in 1 .. Len(procs) |-> qs[p]] BY <1>2
<1>4. IsSeq(qs) /\ Len(qs) = Len(procs) BY <1>1, <1>3, Mapped
<1>5. ASSUME NEW p \in 1 .. Len(procs)
      PROVE  /\ ProcOk(qs[p], Len(procs)) /\ (Gone(procs, p) => Gone(qs, p)) /\ (Over(procs, p) => Over(qs, p))
             /\ qs[p].term = procs[p].term /\ (p \in S /\ ~Runs(p) => Gone(qs, p))
  <2>1. ProcOk(procs[p], Len(procs)) BY DEF ProcsOk
  <2>2. CASE p \in S /\ procs[p].state = "zombie"
    <3>1. qs[p] = [procs[p] EXCEPT !.state = "gone"] BY <1>2, <2>2
    <3> DEFINE a == procs[p]  b == qs[p]
    <3>2. IsProc(a) /\ b = [a EXCEPT !.state = "gone"] BY <2>1, <3>1 DEF ProcOk
    <3> HIDE DEF a, b
    <3>3. IsProc(b) /\ b.state = "gone" /\ b.code = a.code /\ b.read = a.read /\ b.term = a.term
      BY <3>2 DEF IsProc
    <3>4. ProcOk(b, Len(procs)) BY <2>1, <2>2, <3>3 DEF ProcOk, a
    <3> QED BY <3>3, <3>4 DEF a, b, Gone, Over
  <2>3. CASE ~(p \in S /\ procs[p].state = "zombie")
    <3>1. qs[p] = procs[p] BY <1>2, <2>3
    <3> QED BY <2>1, <2>3, <3>1 DEF ProcOk, Gone, Over, Runs
  <2> QED BY <2>2, <2>3
<1> QED BY <1>1, <1>4, <1>5 DEF ProcsOk, Grows

\* A process that is new, and one that goes on.
LEMMA ProcAdded ==
  ASSUME ProcsOk(procs), NEW command, NEW child, procs' = Append(procs, NewProcess(command, child))
  PROVE  ProcsOk(procs') /\ Grows(procs, procs') /\ Len(procs') = Len(procs) + 1 /\ Len(procs) \in Nat
<1> DEFINE n == Len(procs)  new == NewProcess(command, child)
<1>1. n \in Nat /\ IsSeq(procs) BY InSeq DEF ProcsOk
<1>2. /\ IsSeq(procs') /\ Len(procs') = n + 1 /\ procs'[n + 1] = new
      /\ \A p \in 1 .. n : procs'[p] = procs[p]
  BY <1>1, Appended
<1>3. Grows(procs, procs') BY <1>1, <1>2 DEF Grows, Gone, Over
<1>4. ProcOk(new, n + 1)
  <2>2. IsProc(new) /\ new.state = "boots" /\ new.read = << >> BY DEF NewProcess, IsProc
  <2> HIDE DEF new
  <2>1. IsSeq(new.read) /\ 1 .. Len(new.read) = {} BY <2>2, NothingInSeq
  <2> QED BY <2>1, <2>2 DEF ProcOk, PidsIn
<1>5. ASSUME NEW p \in 1 .. n + 1 PROVE ProcOk(procs'[p], n + 1)
  <2>1. CASE p = n + 1 BY <1>2, <1>4, <2>1
  <2>2. CASE p # n + 1
    <3>1. p \in 1 .. n BY <1>1, <2>2
    <3>2. ProcOk(procs[p], n) /\ procs'[p] = procs[p] BY <1>2, <3>1 DEF ProcsOk
    <3>a. PidsIn(procs[p].read, Len(procs)) BY <3>2 DEF ProcOk
    <3>b. PidsIn(procs[p].read, Len(procs')) BY ONLY <1>3, <3>a, OkAsTheyGrow
    <3>3. PidsIn(procs[p].read, n + 1) BY <1>2, <3>b
    <3> QED BY <3>2, <3>3 DEF ProcOk
  <2> QED BY <2>1, <2>2
<1> QED BY <1>1, <1>2, <1>3, <1>5 DEF ProcsOk

\* One process goes on: it ends at most, and no signal is taken back.
LEMMA ProcMoved ==
  ASSUME ProcsOk(procs), NEW p \in 1 .. Len(procs), NEW new, procs' = Replaced(procs, p, new),
         ProcOk(new, Len(procs)), Runs(p) \/ new.state = procs[p].state, procs[p].term => new.term
  PROVE  ProcsOk(procs') /\ Grows(procs, procs') /\ Len(procs') = Len(procs)
<1>1. Len(procs) \in Nat /\ IsSeq(procs) BY InSeq DEF ProcsOk
<1>2. /\ IsSeq(procs') /\ Len(procs') = Len(procs) /\ procs'[p] = new
      /\ \A q \in 1 .. Len(procs) : q # p => procs'[q] = procs[q]
  BY <1>1, ReplacedIs
<1>3. ASSUME NEW q \in 1 .. Len(procs)
      PROVE  /\ ProcOk(procs'[q], Len(procs)) /\ (Gone(procs, q) => Gone(procs', q))
             /\ (Over(procs, q) => Over(procs', q)) /\ (procs[q].term => procs'[q].term)
  <2>1. CASE q = p BY <1>2, <2>1 DEF Gone, Over, Runs
  <2>2. CASE q # p BY <1>2, <2>2 DEF Gone, Over, ProcsOk
  <2> QED BY <2>1, <2>2
<1>4. \A q \in 1 .. Len(procs') : ProcOk(procs'[q], Len(procs')) BY ONLY <1>2, <1>3
<1>5. Grows(procs, procs') BY ONLY <1>1, <1>2, <1>3 DEF Grows
<1> QED BY ONLY <1>2, <1>4, <1>5 DEF ProcsOk

MovedTo(h, new) == [handlers EXCEPT ![h] = new]
\* One handler goes on.
LEMMA HandlerMoved ==
  ASSUME HandlersOk, NEW h \in Handlers, NEW new, IsHandler(new), handlers' = MovedTo(h, new)
  PROVE  HandlersOk' /\ handlers'[h] = new /\ \A g \in Handlers : g # h => handlers'[g] = handlers[g]
BY DEF HandlersOk, MovedTo

\* An empty list names no process.
LEMMA NoPids == ASSUME NEW n PROVE PidsIn(<< >>, n)
BY NothingInSeq DEF PidsIn

\* A registry that is left alone stays in order.
LEMMA RegistryKept ==
  ASSUME RegistryOk, Grows(procs, procs'), registry' = registry,
         \A g \in Handlers : handlers'[g].items = handlers[g].items \/ handlers'[g].items = << >>
  PROVE  RegistryOk'
<1>1. PidsIn(registry', Len(procs')) BY OkAsTheyGrow DEF RegistryOk
<1>2. \A g \in Handlers : PidsIn(handlers[g].items, Len(procs')) BY OkAsTheyGrow DEF RegistryOk
<1> QED BY <1>1, <1>2, NoPids DEF RegistryOk


\* What the invariant says of the table, the processes and the handlers.
LEMMA Unpacked ==
  ASSUME DashInv
  PROVE  /\ IsSeq(jobs) /\ Len(jobs) \in Nat /\ DOMAIN jobs = 1 .. Len(jobs)
         /\ IsSeq(procs) /\ Len(procs) \in Nat /\ DOMAIN procs = 1 .. Len(procs)
         /\ \A j \in 1 .. Len(jobs) : JobOk(jobs[j], procs) /\ IsJob(jobs[j])
         /\ \A p \in 1 .. Len(procs) : ProcOk(procs[p], Len(procs)) /\ IsProc(procs[p])
         /\ \A h \in Handlers : IsHandler(handlers[h]) /\ LaunchOk(h)
BY InSeq DEF DashInv, ProcsOk, JobsOk, HandlersOk, JobOk, ProcOk

\* A handler at rest does nothing.
LEMMA RestIs == IsHandler(AtRest) /\ AtRest.at = "idle" /\ AtRest.items = << >>
BY DEF AtRest, IsHandler

\* A job that changes.
LEMMA JobReplaced ==
  ASSUME JobsOk(jobs, procs), Grows(procs, procs'), NEW j \in 1 .. Len(jobs), NEW new, JobOk(new, procs'),
         jobs' = Replaced(jobs, j, new)
  PROVE  /\ JobsOk(jobs', procs') /\ Len(jobs') = Len(jobs) /\ Len(jobs) \in Nat /\ jobs'[j] = new
         /\ \A i \in 1 .. Len(jobs) : i # j => jobs'[i] = jobs[i]
<1>1. JobsOk(jobs, procs') BY JobsKept
<1>2. /\ IsSeq(jobs') /\ Len(jobs') = Len(jobs) /\ jobs'[j] = new
      /\ \A i \in 1 .. Len(jobs) : i # j => jobs'[i] = jobs[i]
  BY ReplacedIs DEF JobsOk
<1>3. Len(jobs) \in Nat BY InSeq DEF JobsOk
<1>4. \A i \in 1 .. Len(jobs') : JobOk(jobs'[i], procs')
  <2>1. SUFFICES ASSUME NEW i \in 1 .. Len(jobs) PROVE JobOk(jobs'[i], procs') BY <1>2
  <2> QED BY <1>1, <1>2 DEF JobsOk
<1> QED BY <1>2, <1>3, <1>4 DEF JobsOk

\* A dashboard that runs on is not down.
LEMMA DownStays == ASSUME up, up' = up PROVE DownOk'
BY DEF DownOk

\* start() enters a job that no handler launches yet.
LEMMA Started ==
  ASSUME DashInv, NEW h \in Handlers, NEW what, NEW config, StartJob(h, what, config)
  PROVE  DashInv'
<1> DEFINE dir == IF what = "serve" THEN Absent ELSE Get(config, "metrics_dir")
           role == IF what = "serve" THEN "serve" ELSE "train"
           new == NewJob(role, CommandOf(what, config), config, dir, NoPid)
           n == Len(jobs)
           doing == [handlers[h] EXCEPT !.at = "spawn", !.job = n + 1]
<1>1. /\ up /\ handlers[h].at = "idle" /\ jobs' = Append(jobs, new) /\ Save
      /\ UNCHANGED <<up, lives, procs, registry, stops>>
  BY DEF StartJob, Free
<1>2. handlers' = [handlers EXCEPT ![h].at = "spawn", ![h].job = Len(jobs')] BY DEF StartJob
<1>3. /\ IsJob(new) /\ new.pid = NoPid /\ new.process = NoPid /\ new.watch = "none" /\ new.status = "created"
  BY DEF NewJob, IsJob
<1> HIDE DEF new
<1>4. /\ IsSeq(jobs) /\ n \in Nat /\ IsSeq(procs) /\ Len(procs) \in Nat /\ IsHandler(handlers[h])
      /\ \A j \in 1 .. n : JobOk(jobs[j], procs)
  BY Unpacked
<1>5. /\ IsSeq(jobs') /\ Len(jobs') = n + 1 /\ jobs'[n + 1] = new /\ \A j \in 1 .. n : jobs'[j] = jobs[j]
  BY <1>1, <1>4, Appended
<1>6. ProcsOk(procs') /\ Grows(procs, procs') BY <1>1, ProcsSame DEF DashInv
<1>7. JobOk(new, procs') BY <1>1, <1>3, <1>4 DEF JobOk, NoPid
<1>8. \A j \in 1 .. n + 1 : j = n + 1 \/ j \in 1 .. n BY <1>4
<1>9. JobsOk(jobs', procs')
  <2>1. \A j \in 1 .. n : JobOk(jobs'[j], procs') BY <1>1, <1>4, <1>5
  <2> QED BY <1>5, <1>7, <1>8, <2>1 DEF JobsOk
<1>10. FileOk' BY <1>1, <1>9, SaveKeeps
<1>11. handlers' = MovedTo(h, doing)
  BY <1>2, <1>5 DEF MovedTo, DashInv, HandlersOk
<1>12. IsHandler(doing) /\ doing.at = "spawn" /\ doing.job = n + 1 /\ doing.items = handlers[h].items
  BY <1>4 DEF IsHandler
<1> HIDE DEF doing
<1>13. HandlersOk' /\ handlers'[h] = doing /\ \A g \in Handlers : g # h => handlers'[g] = handlers[g]
  BY <1>11, <1>12, HandlerMoved DEF DashInv
<1>14. RegistryOk' BY <1>1, <1>6, <1>12, <1>13, RegistryKept DEF DashInv
<1>15. DownOk' BY <1>1, DownStays
<1>16. Launchs(h, n + 1)
  <2>1. /\ n + 1 \in 1 .. n + 1 /\ n <= n + 1 /\ n + 1 \in Nat /\ n + 1 \notin 1 .. n BY <1>4
  <2>2. \A i \in 1 .. n + 1 : i # n + 1 => i \in 1 .. n /\ jobs'[i] = jobs[i] BY <1>4, <1>5
  <2> QED BY <1>1, <1>3, <1>4, <1>5, <1>12, <1>13, <2>1, <2>2 DEF Launchs, Launches
<1> QED BY <1>6, <1>9, <1>10, <1>13, <1>14, <1>15, <1>16, LaunchKeeps

\* The steps of the handler that launches a job change that job alone.
LEMMA LaunchStep ==
  ASSUME DashInv, NEW h \in Handlers, up, handlers[h].at \in Launches, UNCHANGED <<up, registry, stops>>,
         ProcsOk(procs'), Grows(procs, procs'),
         NEW new, jobs' = Replaced(jobs, handlers[h].job, new), JobOk(new, procs'),
         NEW doing, handlers' = MovedTo(h, doing), IsHandler(doing),
         doing.items \in {<< >>, handlers[h].items},
         IF doing.at \in Launches
         THEN /\ doing.job = handlers[h].job /\ new.watch = "none"
              /\ \/ doing.at = "note" /\ new.pid = NoPid /\ new.process # NoPid
                 \/ doing.at = "launch" /\ new.process = new.pid /\ new.process # NoPid
         ELSE doing.at # "summaries" /\ new.process \in {NoPid, new.pid},
         Save \/ state_file' = state_file
  PROVE  DashInv'
<1> DEFINE j == handlers[h].job
<1>1. LaunchOk(h) BY DEF DashInv
<1>2. j \in 1 .. Len(jobs) BY <1>1 DEF LaunchOk
<1>3. /\ JobsOk(jobs', procs') /\ Len(jobs') = Len(jobs) /\ Len(jobs) \in Nat /\ jobs'[j] = new
      /\ \A i \in 1 .. Len(jobs) : i # j => jobs'[i] = jobs[i]
  BY <1>2, JobReplaced DEF DashInv
<1>4. FileOk' BY <1>3, SaveKeeps, FileKept DEF DashInv
<1>5. HandlersOk' /\ handlers'[h] = doing /\ \A g \in Handlers : g # h => handlers'[g] = handlers[g]
  BY HandlerMoved DEF DashInv
<1>6. RegistryOk' BY <1>5, RegistryKept DEF DashInv
<1>7. DownOk' BY DownStays
<1>8. Launchs(h, j) BY <1>2, <1>3, <1>5 DEF Launchs, Launches
<1> QED BY <1>3, <1>4, <1>5, <1>6, <1>7, <1>8, LaunchKeeps

\* Popen gives the job of the launch its process, which is new.
LEMMA Spawned == ASSUME DashInv, NEW h \in Handlers, Popen(h) PROVE DashInv'
<1> DEFINE j == handlers[h].job
           new == [jobs[j] EXCEPT !.process = Len(procs')]
           doing == [handlers[h] EXCEPT !.at = "note"]
<1>1. /\ up /\ handlers[h].at = "spawn" /\ UNCHANGED <<up, lives, state_file, registry, stops>>
      /\ procs' = Append(procs, NewProcess(jobs[j].command, TRUE))
  BY DEF Popen, At
<1>2. j \in 1 .. Len(jobs) /\ jobs[j].watch = "none" /\ jobs[j].pid = NoPid
  BY <1>1 DEF DashInv, LaunchOk, Launches
<1>3. jobs' = Replaced(jobs, j, new) BY <1>2, Unpacked DEF Popen, Replaced
<1>4. handlers' = MovedTo(h, doing) BY DEF Popen, To, MovedTo, DashInv, HandlersOk
<1>5. ProcsOk(procs') /\ Grows(procs, procs') /\ Len(procs') = Len(procs) + 1 /\ Len(procs) \in Nat
  BY <1>1, ProcAdded DEF DashInv
<1>6. JobOk(jobs[j], procs) /\ IsJob(jobs[j]) /\ IsHandler(handlers[h]) BY <1>2, Unpacked
<1>7. /\ IsJob(new) /\ new.process = Len(procs') /\ new.pid = jobs[j].pid /\ new.watch = jobs[j].watch
      /\ new.status = jobs[j].status
  BY <1>6 DEF IsJob
<1>8. IsHandler(doing) /\ doing.at = "note" /\ doing.job = j /\ doing.items = handlers[h].items
  BY <1>6 DEF IsHandler
<1> HIDE DEF new, doing
<1>9. JobOk(new, procs')
  <2>1. 0 \in 0 .. Len(procs') /\ Len(procs') \in 0 .. Len(procs') BY <1>5
  <2> QED BY <1>2, <1>6, <1>7, <2>1 DEF JobOk, NoPid
<1>10. new.process # NoPid BY <1>5, <1>7 DEF NoPid
<1>11. handlers[h].at \in Launches /\ doing.at \in Launches BY <1>1, <1>8 DEF Launches
<1>12. /\ doing.items \in {<< >>, handlers[h].items}
       /\ doing.at \in Launches /\ doing.job = handlers[h].job /\ new.watch = "none"
       /\ doing.at = "note" /\ new.pid = NoPid /\ new.process # NoPid
  BY <1>2, <1>7, <1>8, <1>10, <1>11
<1>13. UNCHANGED <<up, registry, stops>> /\ state_file' = state_file /\ up BY <1>1
<1> QED BY <1>3, <1>4, <1>5, <1>8, <1>9, <1>11, <1>12, <1>13, LaunchStep

\* A failed Popen leaves the job without a process.
LEMMA SpawnFailed == ASSUME DashInv, NEW h \in Handlers, PopenFails(h) PROVE DashInv'
<1> DEFINE j == handlers[h].job  new == [jobs[j] EXCEPT !.status = "failed"]
<1>1. /\ up /\ handlers[h].at = "spawn" /\ UNCHANGED <<up, lives, procs, registry, stops>> /\ Save
      /\ handlers' = MovedTo(h, AtRest)
  BY DEF PopenFails, At, Answered, MovedTo
<1>2. j \in 1 .. Len(jobs) /\ jobs[j].watch = "none" /\ jobs[j].pid = NoPid /\ jobs[j].process = NoPid
  BY <1>1 DEF DashInv, LaunchOk, Launches
<1>3. jobs' = Replaced(jobs, j, new) BY <1>2, Unpacked DEF PopenFails, Replaced
<1>5. ProcsOk(procs') /\ Grows(procs, procs') BY <1>1, ProcsSame DEF DashInv
<1>6. JobOk(jobs[j], procs) /\ IsJob(jobs[j]) BY <1>2, Unpacked
<1>7. /\ IsJob(new) /\ new.process = jobs[j].process /\ new.pid = jobs[j].pid /\ new.watch = jobs[j].watch
      /\ new.status = "failed"
  BY <1>6 DEF IsJob
<1> HIDE DEF new
<1>9. JobOk(new, procs') BY <1>1, <1>2, <1>6, <1>7 DEF JobOk, NoPid, Endings
<1>11. handlers[h].at \in Launches /\ AtRest.at \notin Launches BY <1>1, RestIs DEF Launches
<1> QED BY <1>1, <1>2, <1>3, <1>5, <1>7, <1>9, <1>11, RestIs, LaunchStep

\* The pid noted is that of the job's process.
LEMMA PidNoted == ASSUME DashInv, NEW h \in Handlers, NotePid(h) PROVE DashInv'
<1> DEFINE j == handlers[h].job  new == [jobs[j] EXCEPT !.pid = jobs[j].process]
           doing == [handlers[h] EXCEPT !.at = "launch"]
<1>1. /\ up /\ handlers[h].at = "note" /\ UNCHANGED <<up, lives, state_file, procs, registry, stops>>
  BY DEF NotePid, At
<1>2. j \in 1 .. Len(jobs) /\ jobs[j].watch = "none" /\ jobs[j].process # NoPid
  BY <1>1 DEF DashInv, LaunchOk, Launches
<1>3. jobs' = Replaced(jobs, j, new) BY <1>2, Unpacked DEF NotePid, Replaced
<1>4. handlers' = MovedTo(h, doing) BY DEF NotePid, To, MovedTo, DashInv, HandlersOk
<1>5. ProcsOk(procs') /\ Grows(procs, procs') BY <1>1, ProcsSame DEF DashInv
<1>6. JobOk(jobs[j], procs) /\ IsJob(jobs[j]) /\ IsHandler(handlers[h]) BY <1>2, Unpacked
<1>7. /\ IsJob(new) /\ new.process = jobs[j].process /\ new.pid = jobs[j].process /\ new.watch = jobs[j].watch
      /\ new.status = jobs[j].status
  BY <1>6 DEF IsJob
<1>8. IsHandler(doing) /\ doing.at = "launch" /\ doing.job = j /\ doing.items = handlers[h].items
  BY <1>6 DEF IsHandler
<1> HIDE DEF new, doing
<1>9. JobOk(new, procs') BY <1>1, <1>2, <1>6, <1>7 DEF JobOk
<1>11. handlers[h].at \in Launches /\ doing.at \in Launches BY <1>1, <1>8 DEF Launches
<1> QED BY <1>1, <1>2, <1>3, <1>4, <1>5, <1>7, <1>8, <1>9, <1>11, LaunchStep

\* A job is watched from when it has its process and its pid.
LEMMA RunningNoted == ASSUME DashInv, NEW h \in Handlers, NoteRunning(h) PROVE DashInv'
<1> DEFINE j == handlers[h].job  new == [jobs[j] EXCEPT !.status = "running", !.watch = "waits"]
<1>1. /\ up /\ handlers[h].at = "launch" /\ UNCHANGED <<up, lives, procs, registry, stops>> /\ Save
      /\ handlers' = MovedTo(h, AtRest)
  BY DEF NoteRunning, At, Answered, MovedTo
<1>2. j \in 1 .. Len(jobs) /\ jobs[j].watch = "none" /\ jobs[j].pid = jobs[j].process /\ jobs[j].process # NoPid
  BY <1>1 DEF DashInv, LaunchOk, Launches
<1>3. jobs' = Replaced(jobs, j, new) BY <1>2, Unpacked DEF NoteRunning, Replaced
<1>5. ProcsOk(procs') /\ Grows(procs, procs') BY <1>1, ProcsSame DEF DashInv
<1>6. JobOk(jobs[j], procs) /\ IsJob(jobs[j]) BY <1>2, Unpacked
<1>7. /\ IsJob(new) /\ new.process = jobs[j].process /\ new.pid = jobs[j].pid /\ new.watch = "waits"
      /\ new.status = "running"
  BY <1>6 DEF IsJob
<1> HIDE DEF new
<1>9. JobOk(new, procs') BY <1>1, <1>2, <1>6, <1>7 DEF JobOk
<1>11. handlers[h].at \in Launches /\ AtRest.at \notin Launches BY <1>1, RestIs DEF Launches
<1> QED BY <1>1, <1>2, <1>3, <1>5, <1>7, <1>9, <1>11, RestIs, LaunchStep

\* What is left alone stays.
LEMMA SameKeeps == ASSUME NEW a PROVE Stays(a, a) /\ SameTask(a, a)
BY DEF Stays, SameTask

\* What the processes do by themselves.
LEMMA OutsideKeeps ==
  ASSUME DashInv, ProcsOk(procs'), Grows(procs, procs'), PidsIn(registry', Len(procs')),
         UNCHANGED <<up, jobs, state_file, handlers, stops>>
  PROVE  DashInv'
<1>1. Len(jobs) \in Nat BY Unpacked
<1>8. \A g \in Handlers : SameTask(handlers[g], handlers'[g]) BY SameKeeps
<1>9. \A j \in 1 .. Len(jobs) : Stays(jobs[j], jobs'[j]) BY SameKeeps
<1>10. jobs' = jobs /\ handlers' = handlers /\ stops' \ stops = {} OBVIOUS
<1>2. Calm
  <2>1. \A g \in Handlers : {handlers'[g].at, handlers[g].at} \intersect Launches # {}
                              => SameTask(handlers[g], handlers'[g])
    BY <1>8
  <2>2. \A g \in Handlers : handlers[g].at = "signal" => SameTask(handlers[g], handlers'[g]) \/ Sent(handlers[g])
    BY <1>8
  <2>3. \A g \in Handlers : handlers'[g].at = "summaries" =>
                                SameTask(handlers[g], handlers'[g]) \/ handlers'[g].job \in 1 .. Len(jobs)
    BY <1>8
  <2>4. \A j \in 1 .. Len(jobs') : j \notin 1 .. Len(jobs) => jobs'[j].process = NoPid BY <1>10
  <2>5. Len(jobs') \in Nat /\ Len(jobs) <= Len(jobs') BY <1>1, <1>10
  <2>6. \A j \in stops' \ stops : StopOk(j)' BY <1>10
  <2> QED BY <1>1, <1>9, <2>1, <2>2, <2>3, <2>4, <2>5, <2>6 DEF Calm
<1>3. JobsOk(jobs', procs') BY JobsKept DEF DashInv
<1>4. FileOk' BY FileKept DEF DashInv
<1>6. RegistryOk' BY OkAsTheyGrow DEF RegistryOk, DashInv
<1>7. HandlersOk' /\ DownOk' BY DEF HandlersOk, DownOk, DashInv
<1> QED BY <1>2, <1>3, <1>4, <1>6, <1>7, CalmKeeps

\* A process of a shell is one more.
LEMMA ShellStarted ==
  ASSUME DashInv, NEW what, NEW config, ShellStarts(what, config) PROVE DashInv'
<1>1. procs' = Append(procs, NewProcess(CommandOf(what, config), FALSE))
      /\ UNCHANGED <<up, lives, jobs, state_file, registry, handlers, stops>>
  BY DEF ShellStarts
<1>2. ProcsOk(procs') /\ Grows(procs, procs') BY <1>1, ProcAdded DEF DashInv
<1>3. PidsIn(registry', Len(procs')) BY <1>1, <1>2, OkAsTheyGrow DEF DashInv, RegistryOk
<1> QED BY <1>1, <1>2, <1>3, OutsideKeeps

\* A process reads the registry: pids of processes that are there.
LEMMA RegistryRead == ASSUME DashInv, NEW p \in 1 .. Len(procs), ReadsRegistry(p) PROVE DashInv'
<1> DEFINE new == [procs[p] EXCEPT !.state = "registers", !.read = registry]
<1>1. /\ procs[p].state = "boots" /\ UNCHANGED <<up, lives, jobs, state_file, registry, handlers, stops>>
  BY DEF ReadsRegistry
<1>2. procs' = Replaced(procs, p, new) BY Unpacked DEF ReadsRegistry, Replaced
<1>3. ProcOk(procs[p], Len(procs)) /\ IsProc(procs[p]) /\ PidsIn(registry, Len(procs))
  BY Unpacked DEF DashInv, RegistryOk
<1>4. /\ IsProc(new) /\ new.state = "registers" /\ new.read = registry /\ new.term = procs[p].term
  BY <1>3 DEF IsProc
<1> HIDE DEF new
<1>5. ProcOk(new, Len(procs)) BY <1>3, <1>4 DEF ProcOk
<1>6. ProcsOk(procs') /\ Grows(procs, procs') BY <1>1, <1>2, <1>4, <1>5, ProcMoved DEF DashInv, Runs
<1>7. PidsIn(registry', Len(procs')) BY <1>1, <1>3, <1>6, OkAsTheyGrow
<1> QED BY <1>1, <1>6, <1>7, OutsideKeeps

\* A process that records goes on.
LEMMA Recorded == ASSUME DashInv, NEW p \in 1 .. Len(procs), Records(p) PROVE DashInv'
<1> DEFINE new == [procs[p] EXCEPT !.wrote = @ + 1]
<1>1. UNCHANGED <<up, lives, jobs, state_file, registry, handlers, stops>> BY DEF Records
<1>2. procs' = Replaced(procs, p, new) BY Unpacked DEF Records, Replaced
<1>3. ProcOk(procs[p], Len(procs)) /\ IsProc(procs[p]) /\ PidsIn(registry, Len(procs))
  BY Unpacked DEF DashInv, RegistryOk
<1>4. /\ IsProc(new) /\ new.state = procs[p].state /\ new.read = procs[p].read /\ new.term = procs[p].term
      /\ new.code = procs[p].code
  BY <1>3 DEF IsProc
<1> HIDE DEF new
<1>5. ProcOk(new, Len(procs)) BY <1>3, <1>4 DEF ProcOk
<1>6. ProcsOk(procs') /\ Grows(procs, procs') BY <1>2, <1>4, <1>5, ProcMoved DEF DashInv
<1>7. PidsIn(registry', Len(procs')) BY <1>1, <1>3, <1>6, OkAsTheyGrow
<1> QED BY <1>1, <1>6, <1>7, OutsideKeeps

\* A process that ends has a code, and nothing is left of what it read.
LEMMA ProcessEnded ==
  ASSUME DashInv, NEW p \in 1 .. Len(procs), NEW code \in {0, 1}, ProcessEnds(p, code) PROVE DashInv'
<1> DEFINE new == [procs[p] EXCEPT !.code = code, !.read = <<>>,
                                   !.state = IF procs[p].child THEN "zombie" ELSE "gone"]
<1>1. Runs(p) /\ UNCHANGED <<up, lives, jobs, state_file, registry, handlers, stops>> BY DEF ProcessEnds
<1>2. procs' = Replaced(procs, p, new) BY Unpacked DEF ProcessEnds, Replaced
<1>3. ProcOk(procs[p], Len(procs)) /\ IsProc(procs[p]) /\ PidsIn(registry, Len(procs))
  BY Unpacked DEF DashInv, RegistryOk
<1>4. /\ IsProc(new) /\ new.state \in {"zombie", "gone"} /\ new.read = << >> /\ new.term = procs[p].term
      /\ new.code = code
  BY <1>3 DEF IsProc
<1> HIDE DEF new
<1>5. PidsIn(new.read, Len(procs)) BY <1>4, NothingInSeq DEF PidsIn
<1>6. ProcOk(new, Len(procs)) BY <1>4, <1>5 DEF ProcOk, NoCode
<1>7. ProcsOk(procs') /\ Grows(procs, procs') BY <1>1, <1>2, <1>4, <1>6, ProcMoved DEF DashInv
<1>8. PidsIn(registry', Len(procs')) BY <1>1, <1>3, <1>7, OkAsTheyGrow
<1> QED BY <1>1, <1>7, <1>8, OutsideKeeps

\* What a process writes back are pids it has read, and its own.
LEMMA RegistryWritten == ASSUME DashInv, NEW p \in 1 .. Len(procs), WritesRegistry(p) PROVE DashInv'
<1> DEFINE new == [procs[p] EXCEPT !.state = "works", !.read = <<>>]
           found == procs[p].read
           others == Kept(found, ToSet(found) \ {p})
           all == Append(others, p)
           from == Max({1, Len(all) - RegistryCap + 1})
           P == 1 .. Len(procs)
<1>1. procs[p].state = "registers" /\ UNCHANGED <<up, lives, jobs, state_file, handlers, stops>>
      /\ registry' = SubSeq(all, from, Len(all))
  BY DEF WritesRegistry
<1>2. procs' = Replaced(procs, p, new) BY Unpacked DEF WritesRegistry, Replaced
<1>3. ProcOk(procs[p], Len(procs)) /\ IsProc(procs[p]) /\ PidsIn(found, Len(procs)) /\ Len(procs) \in Nat
  BY Unpacked DEF ProcOk
<1>4. /\ IsProc(new) /\ new.state = "works" /\ new.read = << >> /\ new.term = procs[p].term
  BY <1>3 DEF IsProc
<1> HIDE DEF new
<1>5. PidsIn(new.read, Len(procs)) BY <1>4, NothingInSeq DEF PidsIn
<1>6. ProcOk(new, Len(procs)) BY <1>4, <1>5 DEF ProcOk
<1>7. ProcsOk(procs') /\ Grows(procs, procs') /\ Len(procs') = Len(procs)
  BY <1>1, <1>2, <1>4, <1>6, ProcMoved DEF DashInv, Runs
<1>8. found \in Seq(P)
  <2>1. found \in [1 .. Len(found) -> P] /\ Len(found) \in Nat BY <1>3 DEF PidsIn, IsSeq
  <2> HIDE DEF found, P
  <2> QED BY <2>1, SeqOfFunction
<1>9. others \in Seq(P) BY <1>8, KeptFacts
<1> HIDE DEF others, found, P
<1>10. all \in Seq(P) /\ Len(all) \in Nat \ {0} BY <1>9 DEF P
<1>11. from \in 1 .. Len(all)
  <2> DEFINE x == Len(all) - RegistryCap + 1
  <2>1. x \in Int /\ from = Max({1, x}) BY <1>10, CapAssumption
  <2> HIDE DEF from
  <2>2. x = 1 \/ x <= Len(all) BY <1>10, CapAssumption
  <2> HIDE DEF x, all
  <2>3. Max({1, x}) = IF x > 1 THEN x ELSE 1 BY <2>1 DEF Max
  <2> QED BY <1>10, <2>1, <2>2, <2>3
<1> HIDE DEF from, all
<1>12. registry' \in Seq(P) BY <1>1, <1>10, <1>11
<1>13. PidsIn(registry', Len(procs'))
  <2>1. IsSeq(registry') BY <1>12, OfSeq
  <2>2. \A i \in 1 .. Len(registry') : registry'[i] \in P BY <1>12
  <2> QED BY <1>7, <2>1, <2>2 DEF PidsIn, P
<1> QED BY <1>1, <1>7, <1>13, OutsideKeeps

\* One job of the table changes, and no handler does.
LEMMA TableKeeps ==
  ASSUME DashInv, up, UNCHANGED <<up, registry, handlers, stops>>, ProcsOk(procs'), Grows(procs, procs'),
         NEW j \in 1 .. Len(jobs), NEW new, jobs' = Replaced(jobs, j, new), Stays(jobs[j], new),
         JobOk(new, procs'), Save \/ state_file' = state_file
  PROVE  DashInv'
<1>1. /\ JobsOk(jobs', procs') /\ Len(jobs') = Len(jobs) /\ Len(jobs) \in Nat /\ jobs'[j] = new
      /\ \A i \in 1 .. Len(jobs) : i # j => jobs'[i] = jobs[i]
  BY JobReplaced DEF DashInv
<1>2. \A i \in 1 .. Len(jobs) : Stays(jobs[i], jobs'[i])
  <2>1. SUFFICES ASSUME NEW i \in 1 .. Len(jobs) PROVE Stays(jobs[i], jobs'[i]) OBVIOUS
  <2>2. CASE i = j BY <1>1, <2>2
  <2>3. CASE i # j BY <1>1, <2>3, SameKeeps
  <2> QED BY <2>2, <2>3
<1>3. Calm BY <1>1, <1>2, SameKeeps DEF Calm
<1>4. FileOk' BY <1>1, SaveKeeps, FileKept DEF DashInv
<1>5. HandlersOk' /\ DownOk' BY DownStays DEF HandlersOk, DashInv
<1>6. RegistryOk' BY RegistryKept DEF DashInv
<1> QED BY <1>1, <1>3, <1>4, <1>5, <1>6, CalmKeeps

\* A refresh never takes back an end that was seen.
LEMMA RefreshIsSteady ==
  ASSUME ProcsOk(procs), NEW job, JobOk(job, procs)
  PROVE  Steady(job, _refresh_job_status(job))
<1> DEFINE b == _refresh_job_status(job)  code == ReturnCode(job.process)
<1>1. IsJob(job) BY DEF JobOk
<1>2. job.watch = "done" => code # NoCode
  <2>1. SUFFICES ASSUME job.watch = "done" PROVE code # NoCode OBVIOUS
  <2>2. Gone(procs, job.process) /\ job.process # NoPid /\ job.process \in 0 .. Len(procs) BY <2>1 DEF JobOk
  <2>3. Len(procs) \in Nat BY InSeq DEF ProcsOk
  <2>4. job.process \in 1 .. Len(procs) BY <2>2, <2>3 DEF NoPid
  <2>5. ProcOk(procs[job.process], Len(procs)) BY <2>4 DEF ProcsOk
  <2>6. ~Runs(job.process) /\ procs[job.process].code # NoCode BY <2>2, <2>5 DEF ProcOk, Gone, Runs
  <2> QED BY <2>2, <2>6 DEF ReturnCode
<1> HIDE DEF code
<1>3. \/ b = job
      \/ b = [job EXCEPT !.returncode = code] /\ job.status = "stopped"
      \/ b = [job EXCEPT !.status = "running"] /\ code = NoCode /\ job.status # "stopped"
      \/ b = [job EXCEPT !.returncode = code, !.status = Ending(code)] /\ job.status = "running"
  BY DEF _refresh_job_status, code
<1> HIDE DEF b
<1>4. ASSUME b = job PROVE Steady(job, b) BY <1>1, <1>4 DEF Steady
<1>5. ASSUME b = [job EXCEPT !.returncode = code] PROVE Steady(job, b) BY <1>1, <1>5 DEF Steady, IsJob
<1>6. ASSUME b = [job EXCEPT !.status = "running"], code = NoCode, job.status # "stopped" PROVE Steady(job, b)
  BY <1>1, <1>2, <1>6 DEF Steady, IsJob
<1>7. ASSUME b = [job EXCEPT !.returncode = code, !.status = Ending(code)], job.status = "running"
      PROVE  Steady(job, b)
  BY <1>1, <1>7 DEF Steady, IsJob, Ending, Endings
<1>8. Steady(job, b) BY <1>3, <1>4, <1>5, <1>6, <1>7
<1> QED BY <1>8 DEF b

\* A steady change is no part of a launch.
LEMMA SteadyStays == ASSUME NEW a, NEW b, Steady(a, b) PROVE Stays(a, b)
BY DEF Steady, Stays

\* A look at a job refreshes it and reads its files.
LEMMA Looked ==
  ASSUME DashInv, NEW j \in 1 .. Len(jobs), Look(j)
  PROVE  /\ ProcsOk(procs') /\ Grows(procs, procs') /\ Save
         /\ \E new : jobs' = Replaced(jobs, j, new) /\ Stays(jobs[j], new) /\ JobOk(new, procs')
<1> DEFINE refreshed == _refresh_job_status(jobs[j])
<1>1. procs' = Reaped({jobs[j].process}) /\ Save BY DEF Look
<1>2. PICK new \in Loaded(refreshed) : jobs' = Replaced(jobs, j, new) BY DEF Look, Replaced
<1>3. ProcsOk(procs') /\ Grows(procs, procs') BY <1>1, ReapedKeeps DEF DashInv
<1>4. JobOk(jobs[j], procs) BY <1>1, Unpacked
<1>5. Steady(jobs[j], refreshed) BY <1>4, RefreshIsSteady DEF DashInv
<1> HIDE DEF refreshed
<1>6. IsJob(refreshed) BY <1>5 DEF Steady
<1>7. Steady(refreshed, new) BY <1>2, <1>6, LoadedIsSteady
<1>8. Steady(jobs[j], new) BY <1>5, <1>7, SteadyTwice
<1>9. JobOk(new, procs') BY <1>3, <1>4, <1>8, SteadyIsOk, OkAsTheyGrow
<1>10. Stays(jobs[j], new) BY <1>8, SteadyStays
<1> QED BY <1>1, <1>2, <1>3, <1>9, <1>10

\* get_job() is one look.
LEMMA JobGot == ASSUME DashInv, NEW h \in Handlers, NEW j, GetJob(h, j) PROVE DashInv'
<1>1. up /\ j \in 1 .. Len(jobs) /\ Look(j) /\ UNCHANGED <<up, lives, registry, handlers, stops>>
  BY Unpacked DEF GetJob, Free
<1>2. PICK new : jobs' = Replaced(jobs, j, new) /\ Stays(jobs[j], new) /\ JobOk(new, procs')
  BY <1>1, Looked
<1>3. ProcsOk(procs') /\ Grows(procs, procs') /\ Save BY <1>1, Looked
<1> QED BY <1>1, <1>2, <1>3, TableKeeps

\* wait() returns when the process of the job is reaped.
LEMMA WaitReturned == ASSUME DashInv, NEW j, WaitReturns(j) PROVE DashInv'
<1> DEFINE new == [jobs[j] EXCEPT !.watch = "reaped"]  p == jobs[j].process
<1>1. /\ up /\ j \in 1 .. Len(jobs) /\ procs' = Reaped({p}) /\ jobs[j].watch = "waits" /\ ~Runs(p)
      /\ state_file' = state_file /\ UNCHANGED <<up, lives, registry, handlers, stops>>
  BY Unpacked DEF WaitReturns
<1>2. jobs' = Replaced(jobs, j, new) BY DEF WaitReturns, Replaced
<1>3. /\ ProcsOk(procs') /\ Grows(procs, procs')
      /\ \A q \in 1 .. Len(procs) : q \in {p} /\ ~Runs(q) => Gone(procs', q)
  BY <1>1, ReapedKeeps DEF DashInv
<1>4. JobOk(jobs[j], procs) /\ IsJob(jobs[j]) /\ Len(procs) \in Nat BY <1>1, Unpacked
<1>5. p \in 1 .. Len(procs) BY <1>1, <1>4 DEF JobOk, NoPid
<1>6. Gone(procs', p) BY <1>1, <1>3, <1>5
<1>7. /\ IsJob(new) /\ new.process = p /\ new.pid = jobs[j].pid /\ new.watch = "reaped"
      /\ new.status = jobs[j].status
  BY <1>4 DEF IsJob
<1> HIDE DEF new
<1>8. JobOk(jobs[j], procs') BY <1>3, <1>4, OkAsTheyGrow
<1>9. JobOk(new, procs') BY <1>1, <1>6, <1>7, <1>8 DEF JobOk
<1>10. Stays(jobs[j], new) BY <1>1, <1>7 DEF Stays
<1> QED BY <1>1, <1>2, <1>3, <1>9, <1>10, TableKeeps

\* The watcher notes an end, and what it then reads cannot take it back.
LEMMA WatchEnded == ASSUME DashInv, NEW j, WatchEnds(j) PROVE DashInv'
<1> DEFINE told == Told(jobs[j])
<1>1. /\ up /\ j \in 1 .. Len(jobs) /\ Save /\ jobs[j].watch = "reaped"
      /\ UNCHANGED <<up, lives, procs, registry, handlers, stops>>
  BY Unpacked DEF WatchEnds
<1>2. PICK new \in Loaded(told) : jobs' = Replaced(jobs, j, new) BY DEF WatchEnds, Replaced
<1>3. ProcsOk(procs') /\ Grows(procs, procs') BY <1>1, ProcsSame DEF DashInv
<1>4. JobOk(jobs[j], procs) /\ IsJob(jobs[j]) BY <1>1, Unpacked
<1>5. /\ IsJob(told) /\ told.pid = jobs[j].pid /\ told.process = jobs[j].process /\ told.watch = "done"
      /\ told.status = IF jobs[j].status = "running" THEN Ending(procs[jobs[j].process].code) ELSE jobs[j].status
  BY <1>4 DEF Told, IsJob
<1> HIDE DEF told
<1>6. told.status \in Endings BY <1>1, <1>4, <1>5 DEF JobOk, Endings, Ending
<1>7. JobOk(told, procs) BY <1>1, <1>4, <1>5, <1>6 DEF JobOk, Endings
<1>8. Steady(told, new) BY <1>2, <1>5, LoadedIsSteady
<1>9. JobOk(new, procs') BY <1>3, <1>7, <1>8, SteadyIsOk, OkAsTheyGrow
<1>10. Stays(jobs[j], told) BY <1>1, <1>5 DEF Stays
<1>11. Stays(jobs[j], new) BY <1>8, <1>10, <1>1 DEF Steady, Stays
<1> QED BY <1>1, <1>2, <1>3, <1>9, <1>11, TableKeeps

\* A handler that launches nothing goes on.
LEMMA HandlerKeeps ==
  ASSUME DashInv, up, UNCHANGED <<up, registry, stops>>, ProcsOk(procs'), Grows(procs, procs'),
         NEW h \in Handlers, NEW doing, handlers' = MovedTo(h, doing), IsHandler(doing),
         doing.at \notin Launches, PidsIn(doing.items, Len(procs)), handlers[h].at \notin Launches,
         doing.at = "summaries" => doing.job \in 1 .. Len(jobs),
         handlers[h].at = "signal" => Sent(handlers[h]),
         JobsOk(jobs', procs'), Len(jobs) <= Len(jobs'), \A i \in 1 .. Len(jobs) : Stays(jobs[i], jobs'[i]),
         \A i \in 1 .. Len(jobs') : i \notin 1 .. Len(jobs) => jobs'[i].process = NoPid,
         Save \/ state_file' = state_file
  PROVE  DashInv'
<1>1. HandlersOk' /\ handlers'[h] = doing /\ \A g \in Handlers : g # h => handlers'[g] = handlers[g]
  BY HandlerMoved DEF DashInv
<1>2. Len(jobs) \in Nat /\ Len(jobs') \in Nat BY Unpacked, InSeq DEF JobsOk
<1>3. \A g \in Handlers : {handlers'[g].at, handlers[g].at} \intersect Launches # {}
                            => SameTask(handlers[g], handlers'[g])
  <2>1. SUFFICES ASSUME NEW g \in Handlers, {handlers'[g].at, handlers[g].at} \intersect Launches # {}
                 PROVE  SameTask(handlers[g], handlers'[g])
    OBVIOUS
  <2>2. g # h BY <1>1, <2>1
  <2> QED BY <1>1, <2>2, SameKeeps
<1>4. \A g \in Handlers : handlers[g].at = "signal" => SameTask(handlers[g], handlers'[g]) \/ Sent(handlers[g])
  <2>1. SUFFICES ASSUME NEW g \in Handlers, handlers[g].at = "signal", g # h
                 PROVE  SameTask(handlers[g], handlers'[g])
    OBVIOUS
  <2> QED BY <1>1, <2>1, SameKeeps
<1>7. \A g \in Handlers : handlers'[g].at = "summaries" =>
                            SameTask(handlers[g], handlers'[g]) \/ handlers'[g].job \in 1 .. Len(jobs)
  BY <1>1, SameKeeps
<1>5. Calm BY <1>2, <1>3, <1>4, <1>7 DEF Calm
<1>6. FileOk' BY SaveKeeps, FileKept DEF DashInv
<1>8. RegistryOk'
  <2>1. PidsIn(registry', Len(procs')) BY OkAsTheyGrow DEF DashInv, RegistryOk
  <2>2. \A g \in Handlers : PidsIn(handlers'[g].items, Len(procs))
    BY <1>1 DEF DashInv, RegistryOk
  <2>3. \A g \in Handlers : PidsIn(handlers'[g].items, Len(procs')) BY <2>2, OkAsTheyGrow
  <2> QED BY <2>1, <2>3 DEF RegistryOk
<1>9. DownOk' BY DownStays
<1> QED BY <1>1, <1>5, <1>6, <1>8, <1>9, CalmKeeps

\* A look of a handler that goes on with something else.
LEMMA LookKeeps ==
  ASSUME DashInv, up, UNCHANGED <<up, registry, stops>>, NEW h \in Handlers, NEW j \in 1 .. Len(jobs), Look(j),
         handlers[h].at \in {"idle", "summaries"}, NEW doing, handlers' = MovedTo(h, doing),
         IsHandler(doing), doing.at \in {"idle", "summaries"}, doing.items = << >>,
         doing.at = "summaries" => doing.job = j
  PROVE  DashInv'
<1>1. PICK new : jobs' = Replaced(jobs, j, new) /\ Stays(jobs[j], new) /\ JobOk(new, procs') BY Looked
<1>2. ProcsOk(procs') /\ Grows(procs, procs') /\ Save BY Looked
<1>3. /\ JobsOk(jobs', procs') /\ Len(jobs') = Len(jobs) /\ Len(jobs) \in Nat /\ jobs'[j] = new
      /\ \A i \in 1 .. Len(jobs) : i # j => jobs'[i] = jobs[i]
  BY <1>1, <1>2, JobReplaced DEF DashInv
<1>4. \A i \in 1 .. Len(jobs) : Stays(jobs[i], jobs'[i])
  <2>1. SUFFICES ASSUME NEW i \in 1 .. Len(jobs) PROVE Stays(jobs[i], jobs'[i]) OBVIOUS
  <2>2. CASE i = j BY <1>1, <1>3, <2>2
  <2>3. CASE i # j BY <1>3, <2>3, SameKeeps
  <2> QED BY <2>2, <2>3
<1>5. Len(jobs) <= Len(jobs') /\ \A i \in 1 .. Len(jobs') : i \notin 1 .. Len(jobs) => jobs'[i].process = NoPid
  BY <1>3
<1>6. /\ doing.at \notin Launches /\ handlers[h].at \notin Launches /\ handlers[h].at # "signal"
      /\ PidsIn(doing.items, Len(procs))
  BY NoPids DEF Launches
<1> QED BY <1>2, <1>3, <1>4, <1>5, <1>6, HandlerKeeps

\* The tool of that name looks twice.
LEMMA JobGotByTool == ASSUME DashInv, NEW h \in Handlers, NEW j, GetJobTool(h, j) PROVE DashInv'
<1> DEFINE doing == [AtRest EXCEPT !.at = "summaries", !.job = j]
<1>1. /\ up /\ j \in 1 .. Len(jobs) /\ Look(j) /\ UNCHANGED <<up, lives, registry, stops>>
      /\ handlers[h].at = "idle" /\ handlers' = MovedTo(h, doing)
  BY Unpacked DEF GetJobTool, Free, MovedTo
<1>2. IsHandler(doing) /\ doing.at = "summaries" /\ doing.items = << >> /\ doing.job = j
  BY DEF AtRest, IsHandler
<1> HIDE DEF doing
<1> QED BY <1>1, <1>2, LookKeeps

\* Its second look is at the same job.
LEMMA Summarised == ASSUME DashInv, NEW h \in Handlers, metric_summaries(h) PROVE DashInv'
<1> DEFINE j == handlers[h].job
<1>1. /\ up /\ Look(j) /\ UNCHANGED <<up, lives, registry, stops>>
      /\ handlers[h].at = "summaries" /\ handlers' = MovedTo(h, AtRest)
  BY DEF metric_summaries, At, Answered, MovedTo
<1>2. j \in 1 .. Len(jobs) BY <1>1 DEF DashInv, LookOk
<1> HIDE DEF j
<1> QED BY <1>1, <1>2, RestIs, LookKeeps

\* stop() saves once more and returns.
LEMMA StopReturned == ASSUME DashInv, NEW h \in Handlers, StopReturns(h) PROVE DashInv'
<1>1. /\ up /\ handlers[h].at = "stopped" /\ UNCHANGED <<up, lives, jobs, procs, registry, stops>> /\ Save
      /\ handlers' = MovedTo(h, AtRest)
  BY DEF StopReturns, At, Answered, MovedTo, Save, SavedJobs
<1>2. ProcsOk(procs') /\ Grows(procs, procs') BY <1>1, ProcsSame DEF DashInv
<1>3. JobsOk(jobs', procs') /\ Len(jobs) \in Nat BY <1>1, Unpacked DEF DashInv
<1>4. \A i \in 1 .. Len(jobs) : Stays(jobs[i], jobs'[i]) BY <1>1, SameKeeps
<1>5. Len(jobs) <= Len(jobs') BY <1>1, <1>3
<1>6. AtRest.at \notin Launches /\ PidsIn(AtRest.items, Len(procs)) /\ IsHandler(AtRest)
  BY RestIs, NoPids DEF Launches
<1>7. handlers[h].at \notin Launches /\ handlers[h].at # "signal" BY <1>1 DEF Launches
<1>8. \A i \in 1 .. Len(jobs') : i \notin 1 .. Len(jobs) => jobs'[i].process = NoPid BY <1>1
<1> QED BY <1>1, <1>2, <1>3, <1>4, <1>5, <1>6, <1>7, <1>8, RestIs, HandlerKeeps

\* list_jobs() takes pids from the registry.
LEMMA RegistryIsRead == ASSUME DashInv, NEW h \in Handlers, ReadRegistry(h) PROVE DashInv'
<1> DEFINE doing == [handlers[h] EXCEPT !.items = registry, !.at = IF registry = <<>> THEN "refresh" ELSE "scan"]
<1>1. /\ up /\ handlers[h].at = "idle" /\ UNCHANGED <<up, lives, jobs, state_file, procs, registry, stops>>
  BY DEF ReadRegistry, Free
<1>2. handlers' = MovedTo(h, doing) BY DEF ReadRegistry, MovedTo, DashInv, HandlersOk
<1>3. /\ IsHandler(doing) /\ doing.items = registry /\ doing.at \in {"refresh", "scan"}
  BY Unpacked DEF IsHandler
<1> HIDE DEF doing
<1>4. PidsIn(doing.items, Len(procs)) BY <1>3 DEF DashInv, RegistryOk
<1>5. ProcsOk(procs') /\ Grows(procs, procs') BY <1>1, ProcsSame DEF DashInv
<1>6. JobsOk(jobs', procs') /\ Len(jobs) \in Nat BY <1>1, Unpacked DEF DashInv
<1>7. \A i \in 1 .. Len(jobs) : Stays(jobs[i], jobs'[i]) BY <1>1, SameKeeps
<1>8. Len(jobs) <= Len(jobs') BY <1>1, <1>6
<1>9. doing.at \notin Launches /\ handlers[h].at \notin Launches /\ handlers[h].at # "signal"
  BY <1>1, <1>3 DEF Launches
<1>10. \A i \in 1 .. Len(jobs') : i \notin 1 .. Len(jobs) => jobs'[i].process = NoPid BY <1>1
<1> QED BY <1>1, <1>2, <1>3, <1>4, <1>5, <1>6, <1>7, <1>8, <1>9, <1>10, HandlerKeeps

\* list_jobs() refreshes every job.
LEMMA Listed == ASSUME DashInv, NEW h \in Handlers, ListReturns(h) PROVE DashInv'
<1> DEFINE n == Len(jobs)
<1>1. /\ up /\ handlers[h].at = "refresh" /\ Save /\ UNCHANGED <<up, lives, registry, stops>>
      /\ handlers' = MovedTo(h, AtRest)
      /\ procs' = Reaped({jobs[j].process : j \in DOMAIN jobs})
  BY DEF ListReturns, At, Answered, MovedTo
<1>2. ProcsOk(procs') /\ Grows(procs, procs') BY <1>1, ReapedKeeps DEF DashInv
<1>3. n \in Nat /\ DOMAIN jobs = 1 .. n /\ \A j \in 1 .. n : JobOk(jobs[j], procs) BY Unpacked
<1>4. jobs' = [j \in 1 .. n |-> _refresh_job_status(jobs[j])] BY <1>3 DEF ListReturns
<1>5. jobs' = [j \in 1 .. n |-> jobs'[j]] BY <1>4
<1>6. IsSeq(jobs') /\ Len(jobs') = n BY <1>3, <1>5, Mapped
<1>7. \A j \in 1 .. n : Stays(jobs[j], jobs'[j]) /\ JobOk(jobs'[j], procs')
  <2>1. SUFFICES ASSUME NEW j \in 1 .. n PROVE Stays(jobs[j], jobs'[j]) /\ JobOk(jobs'[j], procs') OBVIOUS
  <2>2. Steady(jobs[j], jobs'[j]) BY <1>3, <1>4, RefreshIsSteady DEF DashInv
  <2> QED BY <1>2, <1>3, <2>2, SteadyStays, SteadyIsOk, OkAsTheyGrow
<1>8. JobsOk(jobs', procs') BY <1>6, <1>7 DEF JobsOk
<1>9. AtRest.at \notin Launches /\ PidsIn(AtRest.items, Len(procs)) /\ IsHandler(AtRest)
  BY RestIs, NoPids DEF Launches
<1>10. handlers[h].at \notin Launches /\ handlers[h].at # "signal" BY <1>1 DEF Launches
<1>11. n <= Len(jobs') /\ \A i \in 1 .. Len(jobs') : i \notin 1 .. n => jobs'[i].process = NoPid BY <1>3, <1>6
<1> QED BY <1>1, <1>2, <1>7, <1>8, <1>9, <1>10, <1>11, RestIs, HandlerKeeps

\* A scan takes no stopped job and no seen end back.
LEMMA ScannedIsSteady ==
  ASSUME NEW job, JobOk(job, procs), job.pid # NoPid PROVE Steady(job, ScannedAgain(job))
<1> DEFINE b == ScannedAgain(job)
<1>1. IsJob(job) BY DEF JobOk
<1>2. /\ IsJob(b) /\ b.pid = job.pid /\ b.process = job.process /\ b.watch = job.watch
      /\ b.status = IF job.status = "stopped" THEN job.status
                    ELSE IF pid_is_running(job.pid) THEN "running" ELSE "exited"
  BY <1>1 DEF ScannedAgain, IsJob
<1>3. job.watch = "done" => ~pid_is_running(job.pid) BY DEF JobOk, Gone, pid_is_running
<1> HIDE DEF b
<1>4. Steady(job, b) BY <1>2, <1>3 DEF Steady, Endings
<1> QED BY <1>4 DEF b

\* A job taken from the registry has a pid and no process.
LEMMA RegisteredIsOk ==
  ASSUME ProcsOk(procs), NEW p \in 1 .. Len(procs) PROVE JobOk(Registered(p), procs) /\ Registered(p).process = NoPid
<1> DEFINE b == Registered(p)
<1>1. /\ IsJob(b) /\ b.pid = p /\ b.process = NoPid /\ b.watch = "none"
      /\ b.status = IF pid_is_running(p) THEN "running" ELSE "exited"
  BY DEF Registered, NewJob, IsJob
<1> HIDE DEF b
<1>2. Len(procs) \in Nat BY InSeq DEF ProcsOk
<1>3. JobOk(b, procs) BY <1>1, <1>2 DEF JobOk, Endings, NoPid
<1> QED BY <1>1, <1>3 DEF b

\* A scan corrects the jobs it knows and adds the others behind them.
LEMMA Scanned == ASSUME DashInv, NEW h \in Handlers, scan_registered_jobs(h) PROVE DashInv'
<1> DEFINE found == handlers[h].items  items == ToSet(found)
           n == Len(jobs)
           new == Kept(NewestFirst(found), {p \in items : Known(p) = {}})
           old == [j \in DOMAIN jobs |-> IF jobs[j].pid \in items /\ j = Max(Known(jobs[j].pid))
                                         THEN ScannedAgain(jobs[j]) ELSE jobs[j]]
           added == [i \in DOMAIN new |-> Registered(new[i])]
           doing == [AtRest EXCEPT !.at = "refresh"]
<1>1. /\ up /\ handlers[h].at = "scan" /\ Save /\ UNCHANGED <<up, lives, procs, registry, stops>>
      /\ handlers' = MovedTo(h, doing) /\ jobs' = old \o added
  BY DEF scan_registered_jobs, At, MovedTo
<1>2. ProcsOk(procs') /\ Grows(procs, procs') BY <1>1, ProcsSame DEF DashInv
<1>3. n \in Nat /\ DOMAIN jobs = 1 .. n /\ Len(procs) \in Nat /\ \A j \in 1 .. n : JobOk(jobs[j], procs) BY Unpacked
<1>0. PidsIn(found, Len(procs)) /\ DOMAIN found = 1 .. Len(found) /\ Len(found) \in Nat
  BY InSeq DEF DashInv, RegistryOk, PidsIn
<1>4. items \subseteq 1 .. Len(procs) BY <1>0 DEF PidsIn, ToSet
<1>5. \A j \in 1 .. n : Steady(jobs[j], old[j])
  <2>1. SUFFICES ASSUME NEW j \in 1 .. n PROVE Steady(jobs[j], old[j]) OBVIOUS
  <2>2. CASE jobs[j].pid \in items /\ j = Max(Known(jobs[j].pid))
    <3>1. old[j] = ScannedAgain(jobs[j]) BY <1>3, <2>2
    <3>2. jobs[j].pid # NoPid BY <1>3, <1>4, <2>2 DEF NoPid
    <3> QED BY <1>3, <3>1, <3>2, ScannedIsSteady
  <2>3. CASE ~(jobs[j].pid \in items /\ j = Max(Known(jobs[j].pid)))
    <3>1. old[j] = jobs[j] BY <1>3, <2>3
    <3> QED BY <1>3, <3>1 DEF Steady, JobOk
  <2> QED BY <2>2, <2>3
<1>6. IsSeq(old) /\ Len(old) = n
  <2>1. old = [j \in 1 .. n |-> old[j]] BY <1>3
  <2> HIDE DEF old
  <2> QED BY <1>3, <2>1, Mapped
<1>7. new \in Seq(1 .. Len(procs))
  <2>2. \A i \in 1 .. Len(found) : (Len(found) - i) + 1 \in 1 .. Len(found) BY <1>0
  <2>3. NewestFirst(found) \in [1 .. Len(found) -> 1 .. Len(procs)]
    BY <1>0, <2>2 DEF NewestFirst, Reverse, PidsIn
  <2>1. NewestFirst(found) \in Seq(1 .. Len(procs)) BY <1>0, <2>3, SeqOfFunction
  <2> QED BY <2>1, KeptFacts
<1> HIDE DEF new
<1>8. IsSeq(added) /\ Len(added) = Len(new) /\ Len(new) \in Nat
      /\ \A i \in 1 .. Len(new) : added[i] = Registered(new[i])
  <2>1. IsSeq(new) BY <1>7, OfSeq
  <2>2. DOMAIN new = 1 .. Len(new) /\ Len(new) \in Nat BY <2>1, InSeq
  <2>3. added = [i \in 1 .. Len(new) |-> added[i]] /\ \A i \in 1 .. Len(new) : added[i] = Registered(new[i])
    BY <2>2
  <2> HIDE DEF added
  <2> QED BY <2>2, <2>3, Mapped
<1>9. \A i \in 1 .. Len(new) : JobOk(added[i], procs) /\ added[i].process = NoPid
  BY <1>7, <1>8, RegisteredIsOk DEF DashInv
<1> HIDE DEF old, added
<1>10. /\ IsSeq(jobs') /\ Len(jobs') = n + Len(new) /\ \A i \in 1 .. n : jobs'[i] = old[i]
       /\ \A i \in 1 .. Len(jobs') : i \notin 1 .. n => i - n \in 1 .. Len(new) /\ jobs'[i] = added[i - n]
  BY <1>1, <1>6, <1>8, Chained
<1>11. \A i \in 1 .. n : Stays(jobs[i], jobs'[i]) /\ JobOk(jobs'[i], procs')
  BY <1>1, <1>3, <1>5, <1>10, SteadyStays, SteadyIsOk
<1>12. \A i \in 1 .. Len(jobs') : i \notin 1 .. n => jobs'[i].process = NoPid /\ JobOk(jobs'[i], procs')
  BY <1>1, <1>9, <1>10
<1>13. JobsOk(jobs', procs') BY <1>10, <1>11, <1>12 DEF JobsOk
<1>14. n <= Len(jobs') BY <1>3, <1>8, <1>10
<1>15. IsHandler(doing) /\ doing.at = "refresh" /\ doing.items = << >> BY DEF AtRest, IsHandler
<1> HIDE DEF doing
<1>16. /\ doing.at \notin Launches /\ PidsIn(doing.items, Len(procs))
       /\ handlers[h].at \notin Launches /\ handlers[h].at # "signal"
  BY <1>1, <1>15, NoPids DEF Launches
<1> QED BY <1>1, <1>2, <1>11, <1>12, <1>13, <1>14, <1>15, <1>16, HandlerKeeps

\* stop() marks the job, and has its process in hand if its launch is over.
LEMMA Stopping == ASSUME DashInv, NEW h \in Handlers, NEW j, StopJob(h, j) PROVE DashInv'
<1> DEFINE new == [jobs[j] EXCEPT !.status = "stopped"]
           doing == [AtRest EXCEPT !.at = "signal", !.job = j, !.pid = jobs[j].pid, !.process = jobs[j].process]
<1>1. /\ up /\ handlers[h].at = "idle" /\ j \in 1 .. Len(jobs) /\ Save /\ UNCHANGED <<up, lives, procs, registry>>
      /\ handlers' = MovedTo(h, doing) /\ jobs' = Replaced(jobs, j, new)
      /\ stops' = IF Launching(j) THEN stops ELSE stops \cup {j}
  BY Unpacked DEF StopJob, Free, MovedTo, Replaced
<1>2. ProcsOk(procs') /\ Grows(procs, procs') BY <1>1, ProcsSame DEF DashInv
<1>3. JobOk(jobs[j], procs) /\ IsJob(jobs[j]) BY <1>1, Unpacked
<1>4. /\ IsJob(new) /\ new.process = jobs[j].process /\ new.pid = jobs[j].pid /\ new.watch = jobs[j].watch
      /\ new.status = "stopped"
  BY <1>3 DEF IsJob
<1> HIDE DEF new
<1>5. JobOk(new, procs') BY <1>1, <1>3, <1>4 DEF JobOk, Endings
<1>6. /\ JobsOk(jobs', procs') /\ Len(jobs') = Len(jobs) /\ Len(jobs) \in Nat /\ jobs'[j] = new
      /\ \A i \in 1 .. Len(jobs) : i # j => jobs'[i] = jobs[i]
  BY <1>1, <1>2, <1>5, JobReplaced DEF DashInv
<1>7. \A i \in 1 .. Len(jobs) : Stays(jobs[i], jobs'[i])
  <2>1. SUFFICES ASSUME NEW i \in 1 .. Len(jobs) PROVE Stays(jobs[i], jobs'[i]) OBVIOUS
  <2>2. CASE i = j BY <1>4, <1>6, <2>2 DEF Stays
  <2>3. CASE i # j BY <1>6, <2>3, SameKeeps
  <2> QED BY <2>2, <2>3
<1>8. /\ IsHandler(doing) /\ doing.at = "signal" /\ doing.job = j /\ doing.pid = jobs[j].pid
      /\ doing.process = jobs[j].process /\ doing.items = << >>
  BY DEF AtRest, IsHandler
<1> HIDE DEF doing
<1>9. HandlersOk' /\ handlers'[h] = doing /\ \A g \in Handlers : g # h => handlers'[g] = handlers[g]
  BY <1>1, <1>8, HandlerMoved DEF DashInv
<1>10. \A g \in Handlers : {handlers'[g].at, handlers[g].at} \intersect Launches # {} \/ handlers[g].at = "signal"
                             => g # h
  BY <1>1, <1>8, <1>9 DEF Launches
<1>11. \A i \in stops' \ stops : StopOk(i)'
  <2>1. SUFFICES ASSUME ~Launching(j) PROVE StopOk(j)' BY <1>1
  <2>2. ~Launching(j)'
    <3>1. \A g \in Handlers : handlers'[g].at \in Launches => handlers'[g] = handlers[g] BY <1>8, <1>9 DEF Launches
    <3> QED BY <2>1, <3>1 DEF Launching, Launches
  <2>3. Signalling(h, j)' BY <1>4, <1>6, <1>8, <1>9 DEF Signalling
  <2> QED BY <1>1, <1>4, <1>6, <2>2, <2>3 DEF StopOk
<1>16. \A g \in Handlers : SameTask(handlers[g], handlers'[g]) \/ g = h BY <1>9, SameKeeps
<1>12. Calm BY <1>6, <1>7, <1>8, <1>9, <1>10, <1>11, <1>16 DEF Calm
<1>13. FileOk' BY <1>1, <1>6, SaveKeeps
<1>14. RegistryOk' BY <1>1, <1>2, <1>8, <1>9, RegistryKept DEF DashInv
<1>15. DownOk' BY <1>1, DownStays
<1> QED BY <1>2, <1>6, <1>9, <1>12, <1>13, <1>14, <1>15, CalmKeeps

\* The signal goes to the process of the job, unless that is over.
LEMMA Signalled == ASSUME DashInv, NEW h \in Handlers, Signal(h) PROVE DashInv'
<1> DEFINE p == IF handlers[h].process # NoPid THEN handlers[h].process ELSE handlers[h].pid
           found == Reaped({handlers[h].process})
           n == Len(procs)
           doing == [AtRest EXCEPT !.at = "stopped"]
<1>1. /\ up /\ handlers[h].at = "signal" /\ state_file' = state_file
      /\ UNCHANGED <<up, lives, jobs, state_file, registry, stops>>
      /\ handlers' = MovedTo(h, doing)
      /\ procs' = [q \in DOMAIN procs |-> IF q = p /\ Runs(p) THEN [found[q] EXCEPT !.term = TRUE] ELSE found[q]]
  BY DEF Signal, At, MovedTo
<1>2. n \in Nat /\ DOMAIN procs = 1 .. n /\ \A q \in 1 .. n : ProcOk(procs[q], n) BY Unpacked
<1>3. ProcsOk(found) /\ Grows(procs, found) /\ Len(found) = n BY ReapedKeeps DEF DashInv
<1>4. p \in 1 .. n /\ ~Runs(p) => Over(procs, p) BY <1>2 DEF ProcOk, Runs, Over
<1> HIDE DEF p, found
<1>5. IsSeq(procs') /\ Len(procs') = n
  <2>1. procs' = [q \in 1 .. n |-> procs'[q]] BY <1>1, <1>2
  <2> QED BY <1>2, <2>1, Mapped
<1>6. ASSUME NEW q \in 1 .. n
      PROVE  /\ ProcOk(procs'[q], n) /\ procs'[q].state = found[q].state
             /\ (found[q].term => procs'[q].term) /\ (q = p /\ Runs(p) => procs'[q].term)
  <2>1. ProcOk(found[q], n) BY <1>3 DEF ProcsOk
  <2>2. CASE q = p /\ Runs(p)
    <3> DEFINE a == found[q]  b == procs'[q]
    <3>1. IsProc(a) /\ b = [a EXCEPT !.term = TRUE] BY <1>1, <1>2, <2>1, <2>2 DEF ProcOk
    <3> HIDE DEF a, b
    <3>2. IsProc(b) /\ b.term /\ b.state = a.state /\ b.code = a.code /\ b.read = a.read BY <3>1 DEF IsProc
    <3>3. ProcOk(b, n) BY <2>1, <3>2 DEF ProcOk, a
    <3> QED BY <3>2, <3>3 DEF a, b
  <2>3. CASE ~(q = p /\ Runs(p))
    <3>1. procs'[q] = found[q] BY <1>1, <1>2, <2>3
    <3> QED BY <2>1, <2>3, <3>1
  <2> QED BY <2>2, <2>3
<1>7. ProcsOk(procs') BY <1>5, <1>6 DEF ProcsOk
<1>8. Grows(procs, procs') BY <1>2, <1>3, <1>5, <1>6 DEF Grows, Gone, Over
<1>9. Sent(handlers[h])
  <2>1. SUFFICES ASSUME p \in 1 .. n PROVE Over(procs', p) \/ procs'[p].term BY DEF Sent, p
  <2>2. ~Runs(p) => Over(procs', p) BY <1>4, <1>8, <2>1 DEF Grows
  <2> QED BY <1>6, <2>1, <2>2
<1>10. IsHandler(doing) /\ doing.at = "stopped" /\ doing.items = << >> BY DEF AtRest, IsHandler
<1> HIDE DEF doing
<1>11. JobsOk(jobs', procs') BY <1>1, <1>8, JobsKept DEF DashInv
<1>12. \A i \in 1 .. Len(jobs) : Stays(jobs[i], jobs'[i]) BY <1>1, SameKeeps
<1>13. Len(jobs) <= Len(jobs') BY <1>1, Unpacked
<1>14. /\ doing.at \notin Launches /\ PidsIn(doing.items, Len(procs)) /\ handlers[h].at \notin Launches
  BY <1>1, <1>10, NoPids DEF Launches
<1>15. \A i \in 1 .. Len(jobs') : i \notin 1 .. Len(jobs) => jobs'[i].process = NoPid BY <1>1
<1> QED BY <1>1, <1>7, <1>8, <1>9, <1>10, <1>11, <1>12, <1>13, <1>14, <1>15, HandlerKeeps

\* The dashboard goes: nothing is left of its table.
LEMMA Ended == ASSUME DashInv, DashboardEnds PROVE DashInv'
<1> DEFINE n == Len(procs)  found == Reaped(DOMAIN procs)
<1>1. /\ ~up' /\ jobs' = << >> /\ stops' = {} /\ handlers' = [h \in Handlers |-> AtRest]
      /\ procs' = [p \in DOMAIN procs |-> [found[p] EXCEPT !.child = FALSE]]
      /\ state_file' = state_file /\ registry' = registry
  BY DEF DashboardEnds
<1>2. n \in Nat /\ DOMAIN procs = 1 .. n BY Unpacked
<1>3. ProcsOk(found) /\ Grows(procs, found) /\ Len(found) = n BY ReapedKeeps DEF DashInv
<1> HIDE DEF found
<1>4. IsSeq(procs') /\ Len(procs') = n
  <2>1. procs' = [q \in 1 .. n |-> procs'[q]] BY <1>1, <1>2
  <2> QED BY <1>2, <2>1, Mapped
<1>5. ASSUME NEW q \in 1 .. n
      PROVE  ProcOk(procs'[q], n) /\ procs'[q].state = found[q].state /\ procs'[q].term = found[q].term
  <2> DEFINE a == found[q]  b == procs'[q]
  <2>1. ProcOk(a, n) BY <1>3 DEF ProcsOk
  <2>2. IsProc(a) /\ b = [a EXCEPT !.child = FALSE] BY <1>1, <1>2, <2>1 DEF ProcOk
  <2> HIDE DEF a, b
  <2>3. IsProc(b) /\ b.term = a.term /\ b.state = a.state /\ b.code = a.code /\ b.read = a.read
    BY <2>2 DEF IsProc
  <2>4. ProcOk(b, n) BY <2>1, <2>3 DEF ProcOk
  <2> QED BY <2>3, <2>4 DEF a, b
<1>6. ProcsOk(procs') BY <1>4, <1>5 DEF ProcsOk
<1>7. Grows(procs, procs') BY <1>2, <1>3, <1>4, <1>5 DEF Grows, Gone, Over
<1>8. IsSeq(jobs') /\ 1 .. Len(jobs') = {} BY <1>1, NothingInSeq
<1>9. JobsOk(jobs', procs') BY <1>8 DEF JobsOk
<1>10. FileOk' BY <1>1, <1>7, FileKept DEF DashInv
<1>11. \A h \in Handlers : handlers'[h] = AtRest BY <1>1
<1>12. RegistryOk'
  <2>1. PidsIn(registry', Len(procs')) BY <1>1, <1>7, OkAsTheyGrow DEF DashInv, RegistryOk
  <2> QED BY <1>11, <2>1, RestIs, NoPids DEF RegistryOk
<1>13. HandlersOk' BY <1>1, <1>11, RestIs DEF HandlersOk
<1>14. DownOk' BY <1>1, <1>11 DEF DownOk
<1>15. \A h \in Handlers : LaunchOk(h)' /\ LookOk(h)' BY <1>11, RestIs DEF LaunchOk, LookOk, Launches
<1>16. (\A j \in 1 .. Len(jobs) : LaunchedOk(j))' BY <1>8
<1>17. (\A j \in stops : StopOk(j))' BY <1>1
<1> QED BY <1>6, <1>9, <1>10, <1>12, <1>13, <1>14, <1>15, <1>16, <1>17 DEF DashInv

\* A new dashboard takes the table up from the file, without processes.
LEMMA StartedAgain == ASSUME DashInv, DashboardStarts PROVE DashInv'
<1>1. /\ ~up /\ up' /\ jobs' = state_file /\ UNCHANGED <<state_file, procs, registry, handlers, stops>>
  BY DEF DashboardStarts
<1>2. stops' = {} /\ \A h \in Handlers : handlers'[h] = AtRest BY <1>1 DEF DashInv, DownOk
<1>3. ProcsOk(procs') /\ JobsOk(jobs', procs') /\ FileOk' /\ RegistryOk' /\ HandlersOk' /\ DownOk'
  BY <1>1 DEF DashInv, FileOk, RegistryOk, HandlersOk, DownOk
<1>4. \A h \in Handlers : LaunchOk(h)' /\ LookOk(h)' BY <1>2, RestIs DEF LaunchOk, LookOk, Launches
<1>5. \A j \in 1 .. Len(jobs') : jobs'[j].process = NoPid BY <1>1 DEF DashInv, FileOk
<1>6. (\A j \in 1 .. Len(jobs) : LaunchedOk(j))' BY <1>5 DEF LaunchedOk
<1>7. (\A j \in stops : StopOk(j))' BY <1>2
<1> QED BY <1>3, <1>4, <1>6, <1>7 DEF DashInv

\* The invariant holds at the start.
LEMMA DashStarts == TInit => DashInv
<1> SUFFICES ASSUME TInit PROVE DashInv OBVIOUS
<1>1. /\ up = TRUE /\ jobs = << >> /\ state_file = << >> /\ procs = << >> /\ registry = << >>
      /\ stops = {} /\ handlers = [h \in Handlers |-> AtRest]
  BY DEF TInit
<1>2. ProcsOk(procs) /\ JobsOk(jobs, procs) /\ FileOk /\ PidsIn(registry, Len(procs))
  BY <1>1, NothingInSeq DEF ProcsOk, JobsOk, FileOk, PidsIn
<1>3. \A h \in Handlers : handlers[h] = AtRest BY <1>1
<1>4. RegistryOk /\ HandlersOk /\ DownOk BY <1>1, <1>2, <1>3, RestIs, NoPids DEF RegistryOk, HandlersOk, DownOk
<1>5. \A h \in Handlers : LaunchOk(h) /\ LookOk(h) BY <1>3, RestIs DEF LaunchOk, LookOk, Launches
<1>6. \A j \in 1 .. Len(jobs) : LaunchedOk(j) BY <1>1, NothingInSeq
<1> QED BY <1>1, <1>2, <1>4, <1>5, <1>6 DEF DashInv

\* It stays while nothing changes.
LEMMA DashStutters == ASSUME DashInv, UNCHANGED dvars PROVE DashInv'
<1>1. /\ up' = up /\ jobs' = jobs /\ state_file' = state_file /\ procs' = procs /\ registry' = registry
      /\ handlers' = handlers /\ stops' = stops
  BY DEF dvars
<1>2. ProcsOk(procs') /\ Grows(procs, procs') BY <1>1, ProcsSame DEF DashInv
<1>3. PidsIn(registry', Len(procs')) BY <1>1 DEF DashInv, RegistryOk
<1> QED BY <1>1, <1>2, <1>3, OutsideKeeps

\* Every step of an operation that is under way keeps it.
LEMMA OperationKeeps == ASSUME DashInv, NEW h \in Handlers, Continues(h) PROVE DashInv'
BY Spawned, SpawnFailed, PidNoted, RunningNoted, Signalled, StopReturned, Scanned, Listed, Summarised DEF Continues

\* So does every request.
LEMMA AskedKeeps == ASSUME DashInv, NEW h \in Handlers, Asked(h) PROVE DashInv'
BY Started, Stopping, JobGot, RegistryIsRead DEF Asked

\* So does every tool of the agent, which is one of these operations.
LEMMA ToolKeeps == ASSUME DashInv, NEW h \in Handlers, Tool(h) PROVE DashInv'
<1>1. \/ \E c \in Configs : StartJob(h, c.request, c.options)
      \/ \E j \in DOMAIN jobs : StopJob(h, j) \/ GetJob(h, j) \/ GetJobTool(h, j)
      \/ ReadRegistry(h)
  BY DEF Tool
<1> QED BY <1>1, Started, Stopping, JobGot, JobGotByTool, RegistryIsRead

\* So does every step of a process.
LEMMA ProcessKeeps == ASSUME DashInv, NEW p \in DOMAIN procs, ProcessStep(p) PROVE DashInv'
<1>1. p \in 1 .. Len(procs) BY Unpacked
<1> QED BY <1>1, RegistryRead, RegistryWritten, Recorded, ProcessEnded DEF ProcessStep

\* So does every step of the dashboard, its agent and the processes.
LEMMA DashStep == ASSUME DashInv, [DNext]_tvars PROVE DashInv'
<1>1. CASE UNCHANGED tvars BY <1>1, DashStutters DEF tvars
<1>2. ASSUME NEW h \in Handlers, TalkStep(h) PROVE DashInv'
  <2>1. CASE OperationGoesOn(h) BY <2>1, OperationKeeps DEF OperationGoesOn
  <2>2. CASE ToolStarts(h) BY <2>2, ToolKeeps DEF ToolStarts
  <2>3. CASE LooksAround(h) BY <2>3, DashStutters DEF LooksAround
  <2>4. ASSUME NEW meant \in Replies, ModelAnswers(h, meant) PROVE DashInv'
    BY <2>4, DashStutters DEF ModelAnswers
  <2>5. CASE TooManyRounds(h) \/ CompletionFails(h) \/ ReaderLeaves(h)
    BY <2>5, DashStutters DEF TooManyRounds, CompletionFails, ReaderLeaves
  <2> QED BY <1>2, <2>1, <2>2, <2>3, <2>4, <2>5 DEF TalkStep
<1>3. ASSUME NEW h \in Handlers, AgentAsked(h) PROVE DashInv'
  BY <1>3, DashStutters, JobGot DEF AgentAsked
<1>4. ASSUME NEW h \in Handlers, Asked(h) PROVE DashInv' BY <1>4, AskedKeeps
<1>5. CASE OthersStep
  BY <1>5, WaitReturned, WatchEnded, ProcessKeeps, ShellStarted, StartedAgain, Ended DEF OthersStep
<1> QED BY <1>1, <1>2, <1>3, <1>4, <1>5 DEF DNext

\* A job whose end was seen is never shown as running again, and a stop after a launch reaches the job's
\* process, for any number of handlers, jobs, processes and lives of the dashboard (_watch, stop).
THEOREM EndsAndStopsAreTrue == DInit /\ [][DNext]_tvars => [](EndedJobsAreTold /\ StopsReachTheirJob)
<1>1. DInit => DashInv BY DashStarts DEF DInit
<1>2. DashInv /\ [DNext]_tvars => DashInv' BY DashStep
<1>3. DashInv => EndedJobsAreTold /\ StopsReachTheirJob
  <2> SUFFICES ASSUME DashInv PROVE EndedJobsAreTold /\ StopsReachTheirJob OBVIOUS
  <2>1. \A j \in DOMAIN jobs : JobOk(jobs[j], procs) BY Unpacked
  <2>2. EndedJobsAreTold BY <2>1 DEF EndedJobsAreTold, JobOk, Endings
  <2>3. ASSUME NEW j \in stops
        PROVE  /\ jobs[j].status = "stopped"
               /\ \/ \E h \in Handlers : handlers[h].at = "signal" /\ handlers[h].job = j
                  \/ jobs[j].pid = NoPid
                  \/ ~Runs(jobs[j].pid) \/ procs[jobs[j].pid].term
    <3>1. StopOk(j) BY DEF DashInv
    <3>2. Over(procs, jobs[j].pid) => ~Runs(jobs[j].pid) BY DEF Over, Runs
    <3> QED BY <3>1, <3>2 DEF StopOk, Signalling
  <2>4. StopsReachTheirJob BY <2>3 DEF StopsReachTheirJob
  <2> QED BY <2>2, <2>4
<1> QED BY <1>1, <1>2, <1>3, PTL
===============================================================================
