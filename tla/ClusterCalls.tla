----------------------------- MODULE ClusterCalls -----------------------------
(***************************************************************************)
(* What TPCluster promises the callers of call and call_async              *)
(* (engine/protocol.py), without queues, threads or commands: a call       *)
(* succeeds only when every rank it waits for has reported success, and    *)
(* fails only when some worker is down.                                    *)
(***************************************************************************)
EXTENDS Naturals, Sequences

CONSTANTS World, Shapes, MaxCalls

VARIABLES
  calls,     \* the calls made, each with the ranks it waits for
  outcome,   \* "pending", "ok", "failed" or "timeout", per call
  reported,  \* ranks that have reported success, per call
  down       \* ranks that have raised an exception or died

vars == <<calls, outcome, reported, down>>

Ids == 1..Len(calls)

Init ==
  /\ calls = <<>> /\ outcome = <<>> /\ reported = <<>>
  /\ down = {}

Call(s) ==
  /\ Len(calls) < MaxCalls
  /\ calls' = Append(calls, s)
  /\ outcome' = Append(outcome, "pending")
  /\ reported' = Append(reported, {})
  /\ UNCHANGED down

Report(r, c) ==
  /\ r \notin down
  /\ r \notin reported[c]
  /\ reported' = [reported EXCEPT ![c] = @ \cup {r}]
  /\ UNCHANGED <<calls, outcome, down>>

Succeed(c) ==
  /\ outcome[c] = "pending"
  /\ calls[c].wait \subseteq reported[c]
  /\ outcome' = [outcome EXCEPT ![c] = "ok"]
  /\ UNCHANGED <<calls, reported, down>>

Fail(c) ==
  /\ outcome[c] = "pending"
  /\ down # {}
  /\ outcome' = [outcome EXCEPT ![c] = "failed"]
  /\ UNCHANGED <<calls, reported, down>>

TimeOut(c) ==
  /\ outcome[c] = "pending"
  /\ outcome' = [outcome EXCEPT ![c] = "timeout"]
  /\ UNCHANGED <<calls, reported, down>>

GoDown(r) ==
  /\ down' = down \cup {r}
  /\ UNCHANGED <<calls, outcome, reported>>

Next ==
  \/ \E s \in Shapes : Call(s)
  \/ \E c \in Ids : Succeed(c) \/ Fail(c) \/ TimeOut(c)
  \/ \E r \in World, c \in Ids : Report(r, c)
  \/ \E r \in World : GoDown(r)

Spec == Init /\ [][Next]_vars
=============================================================================
