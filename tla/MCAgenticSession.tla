-------------------------- MODULE MCAgenticSession --------------------------
(***************************************************************************)
(* What talks to the rollout engine over HTTP, one at a time: a training   *)
(* session with its proxy, the server, and the coding agent in its parts   *)
(* (the training loop, the console, one command under its terminal, one    *)
(* patch), and the dashboard in four small settings.  What a behaviour is  *)
(* not about never leaves its initial state.                               *)
(***************************************************************************)
EXTENDS AgenticSession, ServeApp, CodingAgent, AgentConsole, ToolCommand, DashboardAgent

VARIABLES front,
          job    \* the workspace and the patch of "patch"
mcvars == <<vars, svars, bvars, avars, cvars, tvars, front, job>>

\* Every tool, with calls whose arguments do not parse or do not convert.
Of(name) == [DefaultCall EXCEPT !.name = name, !.path = 1]
Swap(p, old, new) == [whole |-> TRUE, old |-> p, new |-> p,
  hunks |-> <<[at |-> 1, body |-> <<<<"-", old>>, <<"+", new>>>>]>>]
MCCalls == {
  [Of("list_files") EXCEPT !.path = Root], [Of("inspect_tree") EXCEPT !.path = Root],
  [Of("read_file") EXCEPT !.path = 2], [Of("rg") EXCEPT !.pattern = {"a"}],
  [Of("replace_text") EXCEPT !.old = "a", !.new = "b", !.count = Null],
  [Of("write_file") EXCEPT !.path = 2, !.content = <<"b">>],
  Of("run_command"), [Of("run_command") EXCEPT !.timeout_s = Null],
  [Of("submit") EXCEPT !.depth = 3], Of("submit")}
MCTurnLimit(i) == IF i = 1 THEN 2 ELSE 1

\* Patches of one file with one or two hunks, and of two files.
Marked == {<<" ", "a">>, <<"-", "a">>, <<"-", "b">>, <<"+", "b">>}
Hunks == [at : 1 .. 3, body : UNION {[1 .. n -> Marked] : n \in 1 .. 2}]
Originals == UNION {[1 .. n -> {"a", "b"}] : n \in 0 .. 3}
Section(hs) == [whole |-> TRUE, old |-> 1, new |-> 1, hunks |-> hs]
OneFile == {[files |-> 1 :> o, patch |-> <<Section(hs)>>] :
              o \in Originals, hs \in {<<h>> : h \in Hunks} \union (Hunks \X Hunks)}
Sections == {[s EXCEPT !.new = n, !.whole = w] :
              s \in {Swap(1, "a", "b"), Swap(2, "b", "a"), [Swap(1, "b", "a") EXCEPT !.hunks = <<>>]},
              n \in {1, 2, -1, Null}, w \in BOOLEAN}
TwoFiles == {[files |-> f, patch |-> <<s, t>>] :
              f \in {1 :> <<"a">>, (1 :> <<"b">>) @@ (2 :> <<"b">>)},
              s \in Sections, t \in Sections}
NoJob == [files |-> 1 :> <<"a">>, patch |-> <<>>]

\* What the dashboard is asked for, and what a training process writes.
Dir == "metrics_dir" :> "dir"
Train == [request |-> "train", options |-> Dir]
MCConfigs == {Train,
  [request |-> "smoke_infer", options |-> Dir @@ ("save_dir" :> "s") @@ ("greedy" :> "yes") @@ ("use_kl_loss" :> "off")],
  [request |-> "serve", options |-> ("ckpt" :> "m") @@ ("use_kl_loss" :> "off")]}
Call(id, name, arguments) == [id |-> id, name |-> name, arguments |-> arguments]
MCReplies == {<<>>, <<Call("a", <<"list", "jobs">>, <<>>)>>, <<Call("a", <<"smoke", "infer">>, <<>>)>>,
              <<Call("a", <<"start", "train">>, <<"x">>), Call("b", <<"stop", "job">>, <<"z">>)>>,
              <<Call("a", <<"read", "file">>, <<>>), Call("b", <<"get", "job">>, <<"y">>)>>}
MCShells == {Train, [request |-> "serve", options |-> "model_path" :> "m"]}
MCOutput == <<[type |-> "sample", step |-> 1], [type |-> "state", step |-> 1],
              [type |-> "scalar", tag |-> "rollout", step |-> 1, value |-> 2],
              [type |-> "scalar", tag |-> "total", step |-> 1, value |-> 3]>>
\* Its settings: the races of two handlers over one process; what is read of
\* two processes that share a directory; a second dashboard; conversations.
Small(hs, processes, written) ==
  /\ \A h \in Handlers : handlers'[h].at # "idle" => h \in hs
  /\ Len(procs') =< processes
  /\ \A p \in DOMAIN procs' : procs'[p].wrote =< written
AllTrain == /\ \A j \in DOMAIN jobs' : jobs'[j].kind = "train"
            /\ \A p \in DOMAIN procs' : procs'[p].command.verb = "train" /\ ~OnlySmokes(procs'[p].command)
NoServing == /\ \A j \in DOMAIN jobs' : jobs'[j].kind # "serve"
             /\ \A p \in DOMAIN procs' : procs'[p].command.verb # "serve"
Setting ==
  CASE front = "races" -> Small({1, 2}, 1, 0) /\ AllTrain /\ lives' = 1 /\ UNCHANGED talk
    [] front = "files" ->
         /\ Small({1}, 2, Len(Output)) /\ AllTrain /\ lives' = 1 /\ UNCHANGED talk
         /\ Len(jobs') =< 1 /\ stops' = {}
         /\ \A p \in DOMAIN procs' : procs'[p].code # 1 /\ (p = 2 => procs'[p].wrote =< 1)
    [] front = "lives" -> Small({1}, 1, 0) /\ UNCHANGED talk
    [] front = "talk"  -> Small({1}, 1, 0) /\ NoServing /\ up' /\ ~Talks(2)'
                        /\ \A p \in DOMAIN procs' : procs'[p].child
Dashboards == {"races", "files", "lives", "talk"}

MCInit == /\ front \in {"proxy", "serve", "batch", "console", "command", "patch"}
                        \union Dashboards
          /\ job \in (IF front = "patch"
                      THEN {j \in OneFile : InOrder(j.patch[1].hunks)} \union TwoFiles
                      ELSE {NoJob})
          /\ Init /\ SInit /\ BInit /\ AInit /\ CInit /\ DInit
          /\ (front # "proxy" => proxy = TRUE)
MCNext == /\ UNCHANGED <<front, job>>
          /\ \/ front = "proxy"   /\ Next  /\ UNCHANGED <<svars, bvars, avars, cvars, tvars>>
             \/ front = "serve"   /\ SNext /\ UNCHANGED <<vars, bvars, avars, cvars, tvars>>
             \/ front = "batch"   /\ BNext /\ UNCHANGED <<vars, svars, avars, cvars, tvars>>
             \/ front = "console" /\ ANext /\ UNCHANGED <<vars, svars, bvars, cvars, tvars>>
             \/ front = "command" /\ CNext /\ UNCHANGED <<vars, svars, bvars, avars, tvars>>
             \/ front \in Dashboards /\ DNext /\ Setting
                                     /\ UNCHANGED <<vars, svars, bvars, avars, cvars>>

\* Handlers of the proxy and of the server are run by their event loops.  In the
\* training loop of the agent, as long as something can happen, something does
\* (threads run, queries are answered or fail within their timeout).  The loop
\* that watches a command runs, and the clock advances.  The threads of the
\* dashboard run, and its queries end within their timeout (where this is
\* checked, handler 1 is the only one asked).
MCFairness ==
  /\ \A r \in Reqs : WF_vars(front = "proxy" /\ HandlerStep(r))
  /\ \A c \in Clients : WF_svars(front = "serve" /\ RequestStep(c))
  /\ WF_svars(front = "serve" /\ Drained) /\ WF_svars(front = "serve" /\ CloseEngine)
  /\ WF_bvars(front = "batch" /\ BNext)
  /\ WF_cvars(front = "command" /\ Watch)
  /\ WF_cvars(front = "command" /\ DeadlinePasses)
  /\ WF_tvars(front \in {"lives", "talk"} /\ TalkStep(1))
  /\ \A j \in 1 .. MaxJobs :
       WF_tvars(front \in {"lives", "talk"} /\ (WaitReturns(j) \/ WatchEnds(j)) /\ UNCHANGED talk)
MCSpec == MCInit /\ [][MCNext]_mcvars /\ MCFairness

\* A patch that is applied puts every hunk at its place; one that is refused
\* leaves the sections before the first bad one wholly applied, and the others
\* not at all: no file is ever left half patched (agent/tools.py).
PatchesLandWhole ==
  front = "patch" =>
    LET answer == apply_unified_patch(job.files, job.patch)
        n == Len(job.patch)
    IN  \E k \in 0 .. n :
          /\ answer.files = Landed(job.files, job.patch, k)
          /\ \A j \in 1 .. k : Lands(Landed(job.files, job.patch, j - 1), job.patch[j])
          /\ k < n => ~Lands(answer.files, job.patch[k + 1])
          /\ (k = n) <=> (answer.reply # Error)

\* Whatever clients do, a request that was taken is answered (or, if it cannot
\* be read, its connection closed) and a shutdown of the server comes to its end; the training loop of the agent ends and every
\* command is reported or raised; the dashboard answers, ends its conversations
\* and notes the end of its children.
EveryFrontAnswers ==
  /\ EveryRequestAnswered
  /\ ServingEnds
  /\ front = "batch"   => EveryBatchEnds
  /\ front = "command" => EveryCommandEnds
  /\ front \in {"lives", "talk"} => RequestsEnd /\ EndsAreNoted
=============================================================================
