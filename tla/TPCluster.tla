------------------------------- MODULE TPCluster -------------------------------
(***************************************************************************)
(* The process cluster of engine/protocol.py: coordinator threads submit   *)
(* calls, one command queue per rank carries them, the ranks of a TP group *)
(* serve them in lockstep and post results to one shared queue, which the  *)
(* pump thread demultiplexes; workers may raise, die or be late.           *)
(*                                                                         *)
(* What a rollout does between two looks at the queue is one step here     *)
(* (see RolloutScheduler and ContinuousRollout); a collective of a TP      *)
(* group (broadcast, forward) is one step of all its ranks.                *)
(***************************************************************************)
EXTENDS Integers, FiniteSets, Subsequences

CONSTANTS
  TpSize, DpSize,  \* world_size = TpSize * DpSize
  Shapes,          \* the calls callers may make: [op, key, rows, wait]
  MaxCalls,        \* bound on the calls of one behaviour
  MaxQuiet,        \* bound on the forwards between two finished requests
  MaxFaults,       \* bound on worker exceptions and kills
  CanRaise,        \* TRUE: a worker may raise an exception
  CanKill,         \* TRUE: a worker process may be killed
  CanTimeOut       \* TRUE: callers pass a timeout

World  == 0 .. TpSize * DpSize - 1
Groups == 0 .. DpSize - 1

\* `rows' are the DP groups that get prompts, `key' stands for the fields that
\* make two rollout payloads compatible, `wait' the ranks in result_ranks.
ASSUME ClusterAssumption ==
  /\ TpSize \in Nat \ {0} /\ DpSize \in Nat \ {0}
  /\ MaxCalls \in Nat /\ MaxQuiet \in Nat /\ MaxFaults \in Nat
  /\ CanRaise \in BOOLEAN /\ CanKill \in BOOLEAN /\ CanTimeOut \in BOOLEAN
  /\ \A s \in Shapes : /\ s.op \in {"rollout", "other"}
                       /\ s.rows \subseteq Groups
                       /\ s.wait \subseteq World /\ s.wait # {}

VARIABLES
  \* the coordinator
  calls,        \* the calls made; a request id is an index of this sequence
  call_state,   \* "pending", "ok", "failed", "exited" or "timeout", per call
  call_pending, \* _PendingClusterCall.pending, per call
  order,        \* requests in the order they took _send_lock
  sender,       \* request that holds _send_lock, 0 when it is free
  put_rank,     \* next rank the sender puts to
  checking,     \* calls the pump has still to check for dead workers
  results,      \* the shared result queue
  \* the ranks
  cmdq,         \* command queue
  deferred,     \* _deferred_commands
  at,           \* what the process is doing
  cmd,          \* `cmd' of _worker_entry: the command of the main loop
  picked,       \* refill command: taken by rank 0, awaited by its siblings
  current,      \* _current_request_ids
  outbox,       \* results still to be put, in order
  next_at,      \* what it does when they are
  executed,     \* commands it has begun to run or joined, in order
  quiet,        \* forwards since a request finished, per group
  faults,       \* exceptions and kills so far
  posted        \* history: every result ever put

callers == <<calls, call_state, call_pending>>
sending == <<order, sender, put_rank>>
work    == <<at, cmd, picked, current, outbox, next_at>>
vars == <<callers, sending, checking, results, cmdq, deferred, work, executed,
          quiet, faults, posted>>

Group(r)   == r \div TpSize
Members(g) == {r \in World : Group(r) = g}
Leader(r)  == r % TpSize = 0
Ids        == 1..Len(calls)

Init ==
  /\ calls = <<>> /\ call_state = <<>> /\ call_pending = <<>>
  /\ order = <<>> /\ sender = 0 /\ put_rank = 0
  /\ checking = {}
  /\ results = <<>>
  /\ cmdq = [r \in World |-> <<>>]
  /\ deferred = [r \in World |-> <<>>]
  /\ at = [r \in World |-> "idle"]
  /\ cmd = [r \in World |-> 0]
  /\ picked = [r \in World |-> 0]
  /\ current = [r \in World |-> <<>>]
  /\ outbox = [r \in World |-> <<>>]
  /\ next_at = [r \in World |-> "idle"]
  /\ executed = [r \in World |-> <<>>]
  /\ quiet = [g \in Groups |-> 0]
  /\ faults = 0
  /\ posted = {}

-----------------------------------------------------------------------------
(* Submitting: call, call_async and _submit_call, run by several threads.  *)

Call(s) ==
  /\ Len(calls) < MaxCalls
  /\ calls' = Append(calls, s)
  /\ call_state' = Append(call_state, "pending")
  /\ call_pending' = Append(call_pending, s.wait)
  /\ UNCHANGED <<sending, checking, results, cmdq, deferred, work, executed,
                 quiet, faults, posted>>

Unsent(c) == \A i \in 1..Len(order) : order[i] # c

\* Mutant: the broadcast of one call does not exclude another.
LockFreeAlways == sender \in Ids \cup {0}

LockFree == sender = 0

TakeLock(c) ==
  /\ LockFree
  /\ Unsent(c)
  /\ order' = Append(order, c)
  /\ sender' = c
  /\ put_rank' = 0
  /\ UNCHANGED <<callers, checking, results, cmdq, deferred, work, executed,
                 quiet, faults, posted>>

MoreRanks == put_rank + 1 < TpSize * DpSize

PutCommand ==
  /\ sender # 0
  /\ cmdq' = [cmdq EXCEPT ![put_rank] = Append(@, sender)]
  /\ IF MoreRanks
       THEN put_rank' = put_rank + 1 /\ UNCHANGED sender
       ELSE put_rank' = 0 /\ sender' = 0
  /\ UNCHANGED <<callers, order, checking, results, deferred, work, executed,
                 quiet, faults, posted>>

\* event.wait or wait_for gives up: the pending call is popped.
CallTimesOut(c) ==
  /\ CanTimeOut
  /\ ~Unsent(c) /\ sender # c
  /\ call_state[c] = "pending"
  /\ call_state' = [call_state EXCEPT ![c] = "timeout"]
  /\ UNCHANGED <<calls, call_pending, sending, checking, results, cmdq, deferred,
                 work, executed, quiet, faults, posted>>

-----------------------------------------------------------------------------
(* The result pump                                                         *)

Dead(r) == at[r] = "dead"
Finish(c, outcome) == call_state' = [call_state EXCEPT ![c] = outcome]

\* Mutant: the first success completes the call.
AllReportedAny(left) == TRUE

AllReported(left) == left = {}

\* _apply_result: the results of a call that is no longer pending are dropped.
PumpResult ==
  /\ checking = {}
  /\ results # <<>>
  /\ results' = Tail(results)
  /\ LET m    == Head(results)
         left == call_pending[m.id] \ {m.rank}
     IN  IF call_state[m.id] # "pending"
           THEN UNCHANGED <<call_state, call_pending>>
           ELSE IF ~m.ok
                  THEN Finish(m.id, "failed") /\ UNCHANGED call_pending
                  ELSE /\ call_pending' = [call_pending EXCEPT ![m.id] = left]
                       /\ IF AllReported(left) THEN Finish(m.id, "ok") ELSE UNCHANGED call_state
  /\ UNCHANGED <<calls, sending, checking, cmdq, deferred, work, executed, quiet, faults, posted>>

\* get() times out: _fail_dead_pending_calls takes a snapshot of the calls ...
PumpEmpty ==
  /\ checking = {}
  /\ results = <<>>
  /\ checking' = {c \in Ids : call_state[c] = "pending"}
  /\ checking' # {}
  /\ UNCHANGED <<callers, sending, results, cmdq, deferred, work, executed,
                 quiet, faults, posted>>

\* Mutant: only the TP leaders are watched.
DeadPendingLeader(c) == \E r \in call_pending[c] : Leader(r) /\ Dead(r)

DeadPending(c) == \E r \in call_pending[c] : Dead(r)

\* ... and fails those with a dead rank among the ranks they still wait for.
PumpCheck(c) ==
  /\ c \in checking
  /\ checking' = checking \ {c}
  /\ IF call_state[c] = "pending" /\ DeadPending(c)
       THEN Finish(c, "exited") ELSE UNCHANGED call_state
  /\ UNCHANGED <<calls, call_pending, sending, results, cmdq, deferred, work,
                 executed, quiet, faults, posted>>

-----------------------------------------------------------------------------
(* A rank between commands: the loop of _worker_entry.                     *)

\* Mutant: new commands are taken before deferred ones.
NextCommandQueueFirst(r, c) ==
  IF cmdq[r] # <<>>
    THEN c = Head(cmdq[r]) /\ cmdq' = [cmdq EXCEPT ![r] = Tail(@)] /\ UNCHANGED deferred
    ELSE /\ deferred[r] # <<>>
         /\ c = Head(deferred[r])
         /\ deferred' = [deferred EXCEPT ![r] = Tail(@)] /\ UNCHANGED cmdq

NextCommand(r, c) ==
  IF deferred[r] # <<>>
    THEN c = Head(deferred[r]) /\ deferred' = [deferred EXCEPT ![r] = Tail(@)] /\ UNCHANGED cmdq
    ELSE /\ cmdq[r] # <<>>
         /\ c = Head(cmdq[r])
         /\ cmdq' = [cmdq EXCEPT ![r] = Tail(@)] /\ UNCHANGED deferred

Result(r, c, ok) == [rank |-> r, id |-> c, ok |-> ok]

TakeCommand(r, c) ==
  /\ at[r] = "idle"
  /\ NextCommand(r, c)
  /\ cmd' = [cmd EXCEPT ![r] = c]
  /\ executed' = [executed EXCEPT ![r] = Append(@, c)]
  /\ CASE calls[c].op = "other" ->
            at' = [at EXCEPT ![r] = "exec"] /\ UNCHANGED <<current, outbox, next_at>>
       [] calls[c].op = "rollout" /\ Group(r) \in calls[c].rows ->
            /\ at' = [at EXCEPT ![r] = "refill"]
            /\ current' = [current EXCEPT ![r] = <<c>>]
            /\ UNCHANGED <<outbox, next_at>>
       [] OTHER ->
            /\ at' = [at EXCEPT ![r] = "posting"]
            /\ outbox' = [outbox EXCEPT ![r] = <<Result(r, c, TRUE)>>]
            /\ next_at' = [next_at EXCEPT ![r] = "idle"]
            /\ UNCHANGED current
  /\ UNCHANGED <<callers, sending, checking, results, picked, quiet, faults, posted>>

\* Worker.handle: an operation whose collectives need the whole TP group.
Execute(g) ==
  /\ \A r \in Members(g) : at[r] = "exec"
  /\ \A r, q \in Members(g) : cmd[r] = cmd[q]
  /\ outbox' = [r \in World |-> IF Group(r) = g THEN <<Result(r, cmd[r], TRUE)>> ELSE outbox[r]]
  /\ at' = [r \in World |-> IF Group(r) = g THEN "posting" ELSE at[r]]
  /\ next_at' = [r \in World |-> IF Group(r) = g THEN "idle" ELSE next_at[r]]
  /\ UNCHANGED <<callers, sending, checking, results, cmdq, deferred, cmd, picked,
                 current, executed, quiet, faults, posted>>

\* result_queue.put, then on to whatever follows the last result.
PutResult(r) ==
  /\ outbox[r] # <<>>
  /\ results' = Append(results, Head(outbox[r]))
  /\ posted' = posted \cup {Head(outbox[r])}
  /\ outbox' = [outbox EXCEPT ![r] = Tail(@)]
  /\ at' = [at EXCEPT ![r] = IF Tail(outbox[r]) = <<>> THEN next_at[r] ELSE @]
  /\ UNCHANGED <<callers, sending, checking, cmdq, deferred, cmd, picked, current,
                 next_at, executed, quiet, faults>>

-----------------------------------------------------------------------------
(* Refill: the TP ranks agree on the queued command that joins the batch.  *)

Compatible(r, c) ==
  /\ calls[c].op = "rollout"
  /\ calls[c].key = calls[cmd[r]].key

\* Where a rank goes when refill_waiting returns.
AfterRefill(r) == IF current[r] = <<>> THEN "idle" ELSE "forward"

\* Rank 0: get_nowait on its own queue; 0 stands for queue.Empty.
PickRefill(r) ==
  /\ Leader(r)
  /\ at[r] = "refill"
  /\ at' = [at EXCEPT ![r] = "picked"]
  /\ IF cmdq[r] = <<>>
       THEN picked' = [picked EXCEPT ![r] = 0] /\ UNCHANGED cmdq
       ELSE /\ picked' = [picked EXCEPT ![r] = Head(cmdq[r])]
            /\ cmdq' = [cmdq EXCEPT ![r] = Tail(@)]
  /\ UNCHANGED <<callers, sending, checking, results, deferred, cmd, current, outbox,
                 next_at, executed, quiet, faults, posted>>

\* _broadcast_tp_command_header: rank 0 sends the identity of its command, and
\* the siblings, which wait for it, learn what to look for in their own queues.
BroadcastHeader(g) ==
  \E leader \in Members(g) :
    /\ Leader(leader)
    /\ at[leader] = "picked"
    /\ \A r \in Members(g) \ {leader} : at[r] = "refill"
    /\ picked' = [r \in World |-> IF Group(r) = g THEN picked[leader] ELSE picked[r]]
    /\ at' = [r \in World |->
                IF Group(r) # g THEN at[r]
                ELSE IF picked[leader] = 0 THEN AfterRefill(r)
                ELSE IF r = leader THEN "refilling" ELSE "popping"]
    /\ UNCHANGED <<callers, sending, checking, results, cmdq, deferred, cmd, current,
                   outbox, next_at, executed, quiet, faults, posted>>

\* _pop_matching_refill_command, one command per step.
PopMatching(r) ==
  /\ at[r] = "popping"
  /\ cmdq[r] # <<>>
  /\ cmdq' = [cmdq EXCEPT ![r] = Tail(@)]
  /\ IF Head(cmdq[r]) = picked[r]
       THEN at' = [at EXCEPT ![r] = "refilling"] /\ UNCHANGED deferred
       ELSE /\ deferred' = [deferred EXCEPT ![r] = Append(@, Head(cmdq[r]))]
            /\ UNCHANGED at
  /\ UNCHANGED <<callers, sending, checking, results, cmd, picked, current, outbox,
                 next_at, executed, quiet, faults, posted>>

\* refill_waiting, for one command: join it, acknowledge it when this group has
\* no rows of it, or defer it and stop refilling.
JoinOrDefer(r) ==
  LET c == picked[r]
  IN  /\ at[r] = "refilling"
      /\ CASE ~Compatible(r, c) ->
                /\ deferred' = [deferred EXCEPT ![r] = Append(@, c)]
                /\ at' = [at EXCEPT ![r] = AfterRefill(r)]
                /\ UNCHANGED <<current, outbox, next_at, executed>>
           [] Compatible(r, c) /\ Group(r) \in calls[c].rows ->
                /\ current' = [current EXCEPT ![r] = Append(@, c)]
                /\ executed' = [executed EXCEPT ![r] = Append(@, c)]
                /\ at' = [at EXCEPT ![r] = "refill"]
                /\ UNCHANGED <<deferred, outbox, next_at>>
           [] OTHER ->
                /\ outbox' = [outbox EXCEPT ![r] = <<Result(r, c, TRUE)>>]
                /\ executed' = [executed EXCEPT ![r] = Append(@, c)]
                /\ at' = [at EXCEPT ![r] = "posting"]
                /\ next_at' = [next_at EXCEPT ![r] = "refill"]
                /\ UNCHANGED <<deferred, current>>
      /\ UNCHANGED <<callers, sending, checking, results, cmdq, cmd, picked, quiet, faults, posted>>

Entries(s) == {s[i] : i \in 1..Len(s)}

Left(r, done) == Kept(current[r], Entries(current[r]) \ done)
Finished(r, done) == Kept(current[r], done)

\* Prefill and decode up to the next refill; the sampled tokens are the same on
\* all ranks of the group, so the same requests finish everywhere.
Forward(g) ==
  /\ \A r \in Members(g) : at[r] = "forward"
  /\ \E done \in SUBSET UNION {Entries(current[r]) : r \in Members(g)} :
       /\ done = {} => quiet[g] < MaxQuiet
       /\ quiet' = [quiet EXCEPT ![g] = IF done = {} THEN @ + 1 ELSE 0]
       /\ outbox' = [r \in World |->
            IF Group(r) = g
              THEN [i \in 1..Len(Finished(r, done)) |-> Result(r, Finished(r, done)[i], TRUE)]
              ELSE outbox[r]]
       /\ current' = [r \in World |-> IF Group(r) = g THEN Left(r, done) ELSE current[r]]
       /\ at' = [r \in World |->
            IF Group(r) # g THEN at[r]
            ELSE IF Finished(r, done) = <<>> THEN "refill" ELSE "posting"]
       /\ next_at' = [r \in World |-> IF Group(r) = g THEN "refill" ELSE next_at[r]]
  /\ UNCHANGED <<callers, sending, checking, results, cmdq, deferred, cmd, picked,
                 executed, faults, posted>>

-----------------------------------------------------------------------------
(* Failure                                                                 *)

\* An exception leaves the worker: the error goes to every current request, or
\* to the command of the main loop when there is none; then the process exits.
Raise(r) ==
  /\ LET ids == IF current[r] = <<>> THEN <<cmd[r]>> ELSE current[r]
     IN  outbox' = [outbox EXCEPT ![r] = [i \in 1..Len(ids) |-> Result(r, ids[i], FALSE)]]
  /\ at' = [at EXCEPT ![r] = "failing"]
  /\ next_at' = [next_at EXCEPT ![r] = "exiting"]
  /\ UNCHANGED <<callers, sending, checking, results, cmdq, deferred, cmd, picked,
                 current, executed, quiet, posted>>

InCollective(r) == at[r] \in {"exec", "forward", "refill", "picked"}

WorkerRaises(r) ==
  /\ CanRaise
  /\ faults < MaxFaults
  /\ at[r] \in {"exec", "forward"}
  /\ faults' = faults + 1
  /\ Raise(r)

\* cmd_queue.get(timeout=5.0) of a sibling raises queue.Empty.
PopTimesOut(r) ==
  /\ CanRaise
  /\ faults < MaxFaults
  /\ at[r] = "popping"
  /\ cmdq[r] = <<>>
  /\ faults' = faults + 1
  /\ Raise(r)

\* torch.distributed: a collective with a peer that is gone ends in an error.
PeerLost(r) ==
  /\ InCollective(r)
  /\ \E q \in Members(Group(r)) : Dead(q)
  /\ UNCHANGED faults
  /\ Raise(r)

Exit(r) ==
  /\ at[r] = "exiting"
  /\ at' = [at EXCEPT ![r] = "dead"]
  /\ UNCHANGED <<callers, sending, checking, results, cmdq, deferred, cmd, picked,
                 current, outbox, next_at, executed, quiet, faults, posted>>

\* SIGKILL: what the process has not put is lost.
Killed(r) ==
  /\ CanKill
  /\ faults < MaxFaults
  /\ ~Dead(r)
  /\ faults' = faults + 1
  /\ at' = [at EXCEPT ![r] = "dead"]
  /\ outbox' = [outbox EXCEPT ![r] = <<>>]
  /\ UNCHANGED <<callers, sending, checking, results, cmdq, deferred, cmd, picked,
                 current, next_at, executed, quiet, posted>>

-----------------------------------------------------------------------------

Quiescent ==
  /\ Len(calls) = MaxCalls
  /\ \A c \in Ids : call_state[c] # "pending"
  /\ UNCHANGED vars

RankStep(r) ==
  \/ \E c \in Ids : TakeCommand(r, c)
  \/ PutResult(r)
  \/ PickRefill(r)
  \/ PopMatching(r)
  \/ JoinOrDefer(r)
  \/ PeerLost(r)
  \/ Exit(r)

GroupStep(g) ==
  \/ Execute(g)
  \/ BroadcastHeader(g)
  \/ Forward(g)

SenderStep ==
  \/ \E c \in Ids : TakeLock(c)
  \/ PutCommand

PumpStep ==
  \/ PumpResult
  \/ PumpEmpty
  \/ \E c \in Ids : PumpCheck(c)

Fault ==
  \/ \E r \in World : WorkerRaises(r) \/ PopTimesOut(r) \/ Killed(r)
  \/ \E c \in Ids : CallTimesOut(c)

Next ==
  \/ \E s \in Shapes : Call(s)
  \/ SenderStep
  \/ PumpStep
  \/ \E r \in World : RankStep(r)
  \/ \E g \in Groups : GroupStep(g)
  \/ Fault
  \/ Quiescent

Spec == Init /\ [][Next]_vars

\* Threads and processes are scheduled by the operating system; nothing makes
\* a caller call, a worker fail or a timeout expire.
Fairness ==
  /\ WF_vars(SenderStep)
  /\ WF_vars(PumpStep)
  /\ \A r \in World : WF_vars(RankStep(r))
  /\ \A g \in Groups : WF_vars(GroupStep(g))

FairSpec == Spec /\ Fairness

-----------------------------------------------------------------------------
(* Properties                                                              *)

\* The ranks of a TP group run and join the same commands in the same order,
\* although each takes them from its own queue at its own time.
TPLockstep ==
  \A r, q \in World : Group(r) = Group(q) =>
    \A i \in 1..Len(executed[r]) :
      i <= Len(executed[q]) => executed[r][i] = executed[q][i]

\* Ranks of a TP group that wait in a collective wait in the same one, with the
\* same batch: otherwise the group would hang or mix tensors up.
CollectivesAgree ==
  \A r, q \in World : Group(r) = Group(q) =>
    /\ at[r] = "exec" /\ at[q] # "dead" => at[q] \notin {"refill", "picked", "forward"}
    /\ at[r] = "exec" /\ at[q] = "exec" => cmd[r] = cmd[q]
    /\ at[r] = "forward" /\ at[q] = "forward" => current[r] = current[q]

\* Rank 0 alone chooses what joins the batch (_next_refill_command); its siblings
\* reach the same commands, collectives and batches through queues of their own.
RanksAgree == TPLockstep /\ CollectivesAgree

Position(c) == {i \in 1..Len(order) : order[i] = c}

\* Training and the other operations run on every rank in the order in which
\* they were broadcast, whatever rollouts join or are deferred around them.
OthersInOrder ==
  \A r \in World : \A i, j \in 1..Len(executed[r]) :
    i < j /\ calls[executed[r][i]].op = "other" /\ calls[executed[r][j]].op = "other" =>
      \A m \in Position(executed[r][i]), n \in Position(executed[r][j]) : m < n

\* Every call ends: with the results of its ranks, an error or a timeout.
EveryCallCompletes ==
  \A c \in 1..MaxCalls : (c \in Ids) ~> (c \in Ids /\ call_state[c] # "pending")

-----------------------------------------------------------------------------
(* What the cluster promises its callers.                                  *)

Promise == INSTANCE ClusterCalls WITH
  outcome  <- [c \in Ids |-> IF call_state[c] = "exited" THEN "failed" ELSE call_state[c]],
  reported <- [c \in Ids |-> {r \in World : Result(r, c, TRUE) \in posted}],
  down     <- {r \in World : at[r] \in {"failing", "exiting", "dead"}}

\* Every step of the cluster is a step of its promise, or none.
KeepsPromise == Promise!Spec
=============================================================================
