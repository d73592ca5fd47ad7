--------------------------- MODULE DashboardAgent ---------------------------
(***************************************************************************)
(* The operations agent of the dashboard (dashboard/server.py): a request  *)
(* in which a remote model is asked, calls the operations of the job table *)
(* as its tools, reads their results and is asked again, a few rounds at   *)
(* most; and how a streamed answer of the model is put together.           *)
(***************************************************************************)
EXTENDS Dashboard, TLC

CONSTANTS AgentRounds,   \* 6
          Replies        \* the tool calls an answer may ask for, each with the
                         \* pieces of its name and of its arguments

VARIABLE talk            \* the conversation a handler is in: its round, the calls
                         \* of the last answer still to be executed, and the
                         \* history of what the model asked for
tvars == <<dvars, talk>>

Silent == [round |-> 0, calls |-> <<>>, meant |-> <<>>]
Talks(h) == talk[h].round > 0
Asking(h) == Free(h) /\ Talks(h) /\ talk[h].calls = <<>>
Turn(h, t) == talk' = [talk EXCEPT ![h] = t]
Done(t) == [t EXCEPT !.calls = Tail(@), !.meant = Tail(@)]

-----------------------------------------------------------------------------
(* Streamed answers                                                        *)

NoId == "None"
NoIndex == -1
\* stream_chat_completion: a delta is added to the call of its index; a whole
\* message replaces the call of its index, or comes behind those that are there.
WithChunk(calls, chunk) ==
  LET index == IF chunk.index # NoIndex THEN chunk.index
               ELSE IF chunk.whole THEN Cardinality(DOMAIN calls) ELSE 0
      current == IF index \in DOMAIN calls /\ ~chunk.whole THEN calls[index]
                 ELSE [id |-> NoId, name |-> <<>>, arguments |-> <<>>]
      added == [id |-> IF chunk.id # NoId THEN chunk.id ELSE current.id,
                name |-> current.name \o chunk.name,
                arguments |-> current.arguments \o chunk.arguments]
  IN  (index :> added) @@ calls
Assembled(chunks) ==
  LET calls == FoldLeft(WithChunk, <<>>, chunks)
      order == SetToSortSeq(DOMAIN calls, <)
  IN  [n \in DOMAIN order |-> calls[order[n]]]

\* The pieces a provider cuts a call into: its id with the first of its name,
\* the rest of its name, its arguments.  It interleaves the pieces of several
\* calls, or sends them whole; where there is one call, it may give no index.
Chunk(call, index, whole) == [index |-> index, whole |-> whole] @@ call
Pieces(call, index) ==
  [n \in DOMAIN call.name |->
     Chunk([id |-> IF n = 1 THEN call.id ELSE NoId, name |-> <<call.name[n]>>, arguments |-> <<>>], index, FALSE)]
  \o [n \in DOMAIN call.arguments |->
        Chunk([id |-> NoId, name |-> <<>>, arguments |-> <<call.arguments[n]>>], index, FALSE)]
Numbered(calls) == [c \in DOMAIN calls |-> c]
Unnumbered(calls) == [c \in DOMAIN calls |-> NoIndex]
Wholes(calls, ns) == [c \in DOMAIN calls |-> Chunk(calls[c], ns[c], TRUE)]
Interleavings(pieces) ==
  LET length == FoldLeft(LAMBDA n, p : n + Len(p), 0, pieces)
      place(turns, x) == Cardinality({y \in 1 .. x : turns[y] = turns[x]})
      whole(turns) == \A c \in DOMAIN pieces :
                        Cardinality({x \in 1 .. length : turns[x] = c}) = Len(pieces[c])
  IN  {[x \in 1 .. length |-> pieces[turns[x]][place(turns, x)]] :
         turns \in {turns \in [1 .. length -> DOMAIN pieces] : whole(turns)}}
Streams(calls) ==
  LET cut(ns) == Interleavings([c \in DOMAIN calls |-> Pieces(calls[c], ns[c])])
  IN  {Wholes(calls, ns) : ns \in {Numbered(calls), Unnumbered(calls)}}
      \union cut(Numbered(calls))
      \union IF Len(calls) = 1 THEN cut(Unnumbered(calls)) ELSE {}

-----------------------------------------------------------------------------
(* Conversations                                                           *)

\* build_agent_messages looks at the job the user is asking about, or the first.
AgentAsked(h) ==
  /\ Free(h) /\ ~Talks(h)
  /\ IF jobs = <<>> THEN UNCHANGED dvars ELSE \E j \in DOMAIN jobs : GetJob(h, j)
  /\ Turn(h, [Silent EXCEPT !.round = 1])
ModelAnswers(h, meant) ==
  /\ Asking(h) /\ talk[h].round =< AgentRounds
  /\ \E chunks \in Streams(meant) :
       Turn(h, IF meant = <<>> THEN Silent
               ELSE [round |-> talk[h].round + 1, calls |-> Assembled(chunks), meant |-> meant])
  /\ UNCHANGED dvars
TooManyRounds(h) ==
  /\ Asking(h) /\ talk[h].round > AgentRounds /\ Turn(h, Silent) /\ UNCHANGED dvars
CompletionFails(h) ==
  /\ Asking(h) /\ talk[h].round =< AgentRounds /\ Turn(h, Silent) /\ UNCHANGED dvars
\* A streamed reply breaks off where its reader has gone.
ReaderLeaves(h) == Free(h) /\ Talks(h) /\ Turn(h, Silent) /\ UNCHANGED dvars

\* execute_agent_tool: an operation of the table is done as if it had been
\* asked for by a request, and its last step hands the result over.
Requested(name) ==
  CASE name = <<"start", "train">> -> "train"
    [] name = <<"start", "serve">> -> "serve"
    [] name = <<"smoke", "train">> -> "smoke_train"
    [] name = <<"smoke", "infer">> -> "smoke_infer"
    [] OTHER -> "none"
Tool(h) ==
  LET name == Head(talk[h].calls).name
  IN  \/ \E c \in Configs : c.request = Requested(name) /\ StartJob(h, c.request, c.options)
      \/ name = <<"list", "jobs">> /\ ReadRegistry(h)
      \/ \E j \in DOMAIN jobs : \/ name = <<"stop", "job">>     /\ StopJob(h, j)
                                \/ name = <<"get", "job">>      /\ GetJobTool(h, j)
                                \/ name = <<"fetch", "metric">> /\ GetJob(h, j)
Handed(h) == talk' = IF handlers'[h].at = "idle" THEN [talk EXCEPT ![h] = Done(@)] ELSE talk
ToolStarts(h) == Free(h) /\ talk[h].calls # <<>> /\ Tool(h) /\ Handed(h)
\* Files, the environment, unknown tools, jobs that are not there and a tool
\* that raises, whose error is its result, leave the table alone.
LooksAround(h) ==
  /\ Free(h) /\ talk[h].calls # <<>>
  /\ Turn(h, Done(talk[h])) /\ UNCHANGED dvars
OperationGoesOn(h) == Continues(h) /\ IF Talks(h) THEN Handed(h) ELSE UNCHANGED talk

TalkStep(h) ==
  \/ OperationGoesOn(h) \/ ToolStarts(h) \/ LooksAround(h)
  \/ Asking(h) /\ \E meant \in Replies : ModelAnswers(h, meant)
  \/ TooManyRounds(h) \/ CompletionFails(h) \/ ReaderLeaves(h)
OthersStep ==
  \/ /\ UNCHANGED talk
     /\ \/ \E j \in DOMAIN jobs : WaitReturns(j) \/ WatchEnds(j)
        \/ \E p \in DOMAIN procs : ProcessStep(p)
        \/ \E c \in Shells : ShellStarts(c.request, c.options)
        \/ DashboardStarts
  \/ DashboardEnds /\ talk' = [h \in Handlers |-> Silent]

DInit == TInit /\ talk = [h \in Handlers |-> Silent]
DNext == \/ \E h \in Handlers : \/ TalkStep(h) \/ AgentAsked(h)
                                \/ ~Talks(h) /\ Asked(h) /\ UNCHANGED talk
         \/ OthersStep

\* However a provider interleaves the pieces of several tool calls, the calls
\* executed are the ones it meant, in their order (stream_chat_completion).
AgentDoesWhatWasMeant == \A h \in Handlers : talk[h].calls = talk[h].meant

\* What the dashboard shows and does is true, through all of the above.
DashboardTellsTheTruth ==
  EndedJobsAreTold /\ StopsReachTheirJob /\ ShownDataIsTheJobs /\ AgentDoesWhatWasMeant
\* Every request comes to its answer, a conversation to its end (agent_response).
Busy(h) == handlers[h].at # "idle" \/ Talks(h)
RequestsEnd == \A h \in Handlers : Busy(h) ~> ~Busy(h)
=============================================================================
