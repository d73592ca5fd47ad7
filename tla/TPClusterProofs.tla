---------------------------- MODULE TPClusterProofs ----------------------------
(***************************************************************************)
(* Theorems about the process cluster: what its callers are promised, and  *)
(* that the ranks of a TP group do the same things in the same order.      *)
(***************************************************************************)
EXTENDS TPCluster, InductionFacts

-----------------------------------------------------------------------------
(* Types, and what a rank's state says of its outbox.                      *)

Outcomes == {"pending", "ok", "failed", "exited", "timeout"}
Places == {"idle", "exec", "refill", "picked", "popping", "refilling", "forward",
           "posting", "failing", "exiting", "dead"}
Down(r) == at[r] \in {"failing", "exiting", "dead"}
Messages == [rank : World, id : Ids, ok : BOOLEAN]

CallsType ==
  /\ calls \in Seq(Shapes)
  /\ call_state \in [Ids -> Outcomes]
  /\ call_pending \in [Ids -> SUBSET World]
  /\ order \in Seq(Ids)
  /\ sender \in Ids \cup {0}
  /\ put_rank \in World
  /\ checking \subseteq Ids
  /\ results \in Seq(Messages)
  /\ posted \subseteq Messages

RanksType ==
  /\ cmdq \in [World -> Seq(Ids)]
  /\ deferred \in [World -> Seq(Ids)]
  /\ at \in [World -> Places]
  /\ cmd \in [World -> Ids \cup {0}]
  /\ picked \in [World -> Ids \cup {0}]
  /\ current \in [World -> Seq(Ids)]
  /\ outbox \in [World -> Seq(Messages)]
  /\ next_at \in [World -> {"idle", "refill", "exiting"}]
  /\ executed \in [World -> Seq(Ids)]

\* What a rank is at work on, and what it has still to put.
RankOk(r) ==
  /\ at[r] \notin {"idle", "dead"} => cmd[r] \in Ids
  /\ at[r] \in {"popping", "refilling"} => picked[r] \in Ids
  /\ outbox[r] # << >> => at[r] \in {"posting", "failing"}
  /\ at[r] = "posting" => next_at[r] \in {"idle", "refill"}
  /\ at[r] = "failing" => next_at[r] = "exiting"
  /\ \A i \in 1..Len(outbox[r]) : outbox[r][i].rank = r /\ outbox[r][i].ok = (at[r] = "posting")

TypeInv == CallsType /\ RanksType /\ \A r \in World : RankOk(r)

-----------------------------------------------------------------------------
(* What was posted                                                         *)

\* The pump has taken no report that was not posted, and no error was posted by
\* a rank that is up.
ReportsInv ==
  /\ \A i \in 1..Len(results) : results[i] \in posted
  /\ \A m \in posted : ~m.ok => Down(m.rank)
  /\ \A c \in Ids : \A r \in calls[c].wait \ call_pending[c] : Result(r, c, TRUE) \in posted

-----------------------------------------------------------------------------
(* The queues                                                              *)

\* Commands that were put to r.
PutTo(r) == IF sender # 0 /\ put_rank <= r THEN Len(order) - 1 ELSE Len(order)

InHand(r) == at[r] = "refilling" \/ (at[r] = "picked" /\ picked[r] # 0)

\* Commands that r has taken off its queue.
Taken(r) == Len(executed[r]) + Len(deferred[r]) + IF InHand(r) THEN 1 ELSE 0

\* The queue of r is the part of `order' it was put and has not taken.
QueueOk(r) ==
  /\ Taken(r) + Len(cmdq[r]) = PutTo(r)
  /\ \A i \in 1..Len(cmdq[r]) : cmdq[r][i] = order[Taken(r) + i]
  /\ InHand(r) => picked[r] = order[Taken(r)]
  /\ at[r] = "popping" => Taken(r) + 1 <= Len(order) /\ picked[r] = order[Taken(r) + 1]

QueueInv ==
  /\ sender # 0 => order # << >> /\ sender = order[Len(order)]
  /\ \A r \in World : ~Down(r) => QueueOk(r)

-----------------------------------------------------------------------------
(* Where the ranks of a group are                                          *)

Refilling(r) == at[r] \in {"popping", "refilling"}
Joining(r) == Refilling(r) /\ Compatible(r, picked[r])

\* What r has executed when it has joined what it is about to join, how far that
\* is in its script, and how many commands it has had.
Done(r) == IF Joining(r) THEN Append(executed[r], picked[r]) ELSE executed[r]
Level(r) == Len(Done(r))
Had(r) == Len(executed[r]) + Len(deferred[r]) + IF Refilling(r) THEN 1 ELSE 0

\* What a rank will execute when nothing joins its batch any more: what it has
\* done, what it has put off, and the rest of what is broadcast.
ScriptOf(done, late, sent) ==
  [i \in 1..Len(sent) |->
     IF i <= Len(done) THEN done[i]
     ELSE IF i <= Len(done) + Len(late) THEN late[i - Len(done)]
     ELSE sent[i]]

Script(r) == ScriptOf(Done(r), deferred[r], order)

Phase(r) ==
  IF at[r] = "idle" \/ (at[r] = "posting" /\ next_at[r] = "idle")
       \/ (Refilling(r) /\ ~Joining(r) /\ current[r] = << >>) THEN "main"
  ELSE IF at[r] = "exec" THEN "exec"
  ELSE IF at[r] = "forward" \/ (Refilling(r) /\ ~Joining(r)) THEN "forward"
  ELSE "refill"

Batch(r) == IF Joining(r) /\ Group(r) \in calls[picked[r]].rows
              THEN Append(current[r], picked[r]) ELSE current[r]

\* What the main loop does with call c of made in group g.
StartOf(made, g, c) ==
  IF made[c].op = "other" THEN "exec" ELSE IF g \in made[c].rows THEN "refill" ELSE "main"

SamePlace(r, q) ==
  /\ Had(r) = Had(q)
  /\ Phase(r) = Phase(q)
  /\ Phase(r) # "main" => cmd[r] = cmd[q]
  /\ Phase(r) \in {"refill", "forward"} => Batch(r) = Batch(q)

\* q has run ahead of r, over commands that need no other rank, up to one that it
\* has begun.
Behind(r, q) ==
  /\ Phase(r) = "main"
  /\ \A i \in Level(r) + 1 .. Level(q) - 1 : StartOf(calls, Group(r), Script(r)[i]) = "main"
  /\ Phase(q) = StartOf(calls, Group(r), Script(r)[Level(q)])
  /\ Phase(q) # "main" => cmd[q] = Script(r)[Level(q)]
  /\ Phase(q) = "refill" => Batch(q) = <<Script(r)[Level(q)]>>
  /\ Had(q) = IF Had(r) < Level(q) THEN Level(q) ELSE Had(r)

PairOk(r, q) ==
  /\ Script(r) = Script(q)
  /\ Level(r) = Level(q) => SamePlace(r, q)
  /\ Level(r) < Level(q) => Behind(r, q)

\* What r has executed, be it up or not, is on the script of q.
OnScript(r, q) ==
  \A i \in 1..Len(executed[r]) : i <= Len(order) /\ executed[r][i] = Script(q)[i]

GroupInv ==
  /\ \A r, q \in World : Group(r) = Group(q) /\ ~Down(r) /\ ~Down(q) => PairOk(r, q)
  /\ \A r, q \in World : Group(r) = Group(q) /\ ~Down(q) => OnScript(r, q)
  /\ TPLockstep

-----------------------------------------------------------------------------
(* Types                                                                   *)

LEMMA WorldFacts == World = 0 .. TpSize * DpSize - 1 /\ TpSize * DpSize \in Nat \ {0} /\ 0 \in World
<1>1. \A a, b \in Nat \ {0} : a * b \in Nat \ {0} BY Z3
<1>2. TpSize * DpSize \in Nat \ {0} BY <1>1, ClusterAssumption
<1> DEFINE n == TpSize * DpSize
<1>3. n \in Nat \ {0} /\ World = 0 .. n - 1 BY <1>2 DEF World
<1> HIDE DEF n
<1>4. 0 \in World BY <1>3
<1> QED BY <1>3, <1>4 DEF n

LEMMA InitTypes == Init => TypeInv
<1> SUFFICES ASSUME Init PROVE TypeInv
  OBVIOUS
<1> USE DEF Init
<1>1. Ids = {} BY DEF Ids
<1>2. << >> \in Seq(Ids) /\ << >> \in Seq(Messages) /\ << >> \in Seq(Shapes) OBVIOUS
<1>3. CallsType
  <2>1. call_state \in [Ids -> Outcomes] /\ call_pending \in [Ids -> SUBSET World] BY <1>1
  <2> QED BY <1>1, <1>2, <2>1, WorldFacts DEF CallsType
<1>4. RanksType BY <1>2 DEF RanksType, Places
<1>5. ASSUME NEW r \in World PROVE RankOk(r) BY DEF RankOk
<1> QED BY <1>3, <1>4, <1>5 DEF TypeInv

\* A step of the callers, the sender or the pump leaves the ranks alone.
LEMMA RanksUntouched ==
  ASSUME TypeInv, UNCHANGED <<calls, cmdq, deferred, work, executed>>
  PROVE  RanksType' /\ \A r \in World : RankOk(r)'
<1>1. Ids' = Ids BY DEF Ids
<1>2. Messages' = Messages BY <1>1 DEF Messages
<1>3. RanksType' BY <1>1, <1>2 DEF TypeInv, RanksType, work
<1>4. ASSUME NEW r \in World PROVE RankOk(r)'
  <2>1. RankOk(r) BY DEF TypeInv
  <2> QED BY <1>1, <2>1 DEF RankOk, work
<1> QED BY <1>3, <1>4

LEMMA CallTypes ==
  ASSUME TypeInv, NEW s \in Shapes, Call(s)
  PROVE  TypeInv'
<1> DEFINE c == Len(calls) + 1
<1>1. CallsType /\ RanksType BY DEF TypeInv
<1>2. Len(calls) \in Nat /\ calls' = Append(calls, s) /\ Ids = 1..Len(calls) /\ Ids' = 1..Len(calls')
  BY <1>1 DEF Call, CallsType, Ids
<1>3. Ids' = Ids \cup {c} /\ c \notin Ids /\ 0 \notin Ids' /\ calls' \in Seq(Shapes)
  BY <1>1, <1>2 DEF CallsType
<1>4. Ids \subseteq Ids' BY <1>3
<1>5. Messages \subseteq Messages'
  <2>1. Messages = [rank : World, id : Ids, ok : BOOLEAN] /\ Messages' = [rank : World, id : Ids', ok : BOOLEAN]
    BY DEF Messages
  <2> QED BY <1>4, <2>1
<1>6. s.wait \subseteq World BY ClusterAssumption
<1>7. call_state' \in [Ids' -> Outcomes]
  <2>1. call_state \in Seq(Outcomes) /\ Len(call_state) = Len(calls)
    <3>1. call_state \in [1..Len(calls) -> Outcomes] BY <1>1, <1>2 DEF CallsType
    <3> QED BY <1>2, <3>1, SeqOfFunction
  <2>2. call_state' = Append(call_state, "pending") /\ "pending" \in Outcomes BY DEF Call, Outcomes
  <2>3. call_state' \in Seq(Outcomes) /\ Len(call_state') = Len(calls) + 1 BY <2>1, <2>2
  <2> QED BY <1>2, <2>3
<1>8. call_pending' \in [Ids' -> SUBSET World]
  <2>1. call_pending \in Seq(SUBSET World) /\ Len(call_pending) = Len(calls)
    <3>1. call_pending \in [1..Len(calls) -> SUBSET World] BY <1>1, <1>2 DEF CallsType
    <3> QED BY <1>2, <3>1, SeqOfFunction
  <2>2. call_pending' = Append(call_pending, s.wait) /\ s.wait \in SUBSET World BY <1>6 DEF Call
  <2>3. call_pending' \in Seq(SUBSET World) /\ Len(call_pending') = Len(calls) + 1 BY <2>1, <2>2
  <2> QED BY <1>2, <2>3
<1>9. \A t \in Seq(Ids) : t \in Seq(Ids') BY <1>4
<1>10. \A t \in Seq(Messages) : t \in Seq(Messages') BY <1>5
<1>11. UNCHANGED <<order, sender, put_rank, checking, results, posted, cmdq, deferred, at, cmd, picked, current,
                   outbox, next_at, executed>>
  BY DEF Call, sending, work
<1>12. CallsType'
  <2>1. order' \in Seq(Ids') /\ results' \in Seq(Messages') /\ posted' \subseteq Messages'
    BY <1>1, <1>5, <1>9, <1>10, <1>11 DEF CallsType
  <2> QED BY <1>1, <1>3, <1>4, <1>7, <1>8, <1>11, <2>1 DEF CallsType
<1>13. RanksType'
  <2>1. /\ \A r \in World : cmdq[r] \in Seq(Ids') /\ deferred[r] \in Seq(Ids') /\ current[r] \in Seq(Ids')
                            /\ executed[r] \in Seq(Ids')
        /\ \A r \in World : outbox[r] \in Seq(Messages')
    BY <1>1, <1>9, <1>10 DEF RanksType
  <2>2. /\ cmdq \in [World -> Seq(Ids')] /\ deferred \in [World -> Seq(Ids')] /\ current \in [World -> Seq(Ids')]
        /\ executed \in [World -> Seq(Ids')] /\ outbox \in [World -> Seq(Messages')]
    BY <1>1, <2>1 DEF RanksType
  <2>3. cmd \in [World -> Ids' \cup {0}] /\ picked \in [World -> Ids' \cup {0}] BY <1>1, <1>4 DEF RanksType
  <2> QED BY <1>1, <1>11, <2>2, <2>3 DEF RanksType
<1>14. ASSUME NEW r \in World PROVE RankOk(r)'
  <2>1. RankOk(r) BY DEF TypeInv
  <2> QED BY <1>4, <1>11, <2>1 DEF RankOk
<1> QED BY <1>12, <1>13, <1>14 DEF TypeInv

LEMMA TakeLockTypes ==
  ASSUME TypeInv, NEW c \in Ids, TakeLock(c)
  PROVE  TypeInv'
<1>1. RanksType' /\ \A r \in World : RankOk(r)' BY RanksUntouched DEF TakeLock, callers, work
<1>2. Ids' = Ids /\ Messages' = Messages BY DEF TakeLock, callers, Ids, Messages
<1>3. order' \in Seq(Ids) BY DEF TypeInv, CallsType, TakeLock
<1>4. CallsType' BY <1>2, <1>3, WorldFacts DEF TypeInv, CallsType, TakeLock, callers
<1> QED BY <1>1, <1>4 DEF TypeInv

LEMMA PutCommandTypes ==
  ASSUME TypeInv, PutCommand
  PROVE  TypeInv'
<1>1. /\ sender # 0 /\ cmdq' = [cmdq EXCEPT ![put_rank] = Append(@, sender)]
      /\ UNCHANGED <<calls, call_state, call_pending, order, checking, results, posted, deferred, at, cmd, picked,
                     current, outbox, next_at, executed>>
      /\ \/ MoreRanks /\ put_rank' = put_rank + 1 /\ sender' = sender
         \/ ~MoreRanks /\ put_rank' = 0 /\ sender' = 0
  BY DEF PutCommand, callers, work
<1>2. Ids' = Ids /\ Messages' = Messages BY <1>1 DEF Ids, Messages
<1>3. CallsType /\ RanksType BY DEF TypeInv
<1>4. put_rank' \in World /\ sender' \in Ids \cup {0}
  <2>1. CASE MoreRanks BY <1>1, <1>3, <2>1, WorldFacts DEF MoreRanks, CallsType
  <2>2. CASE ~MoreRanks BY <1>1, <2>2, WorldFacts
  <2> QED BY <2>1, <2>2
<1>5. CallsType' BY <1>1, <1>2, <1>3, <1>4 DEF CallsType
<1>6. cmdq' \in [World -> Seq(Ids)]
  <2>1. sender \in Ids /\ put_rank \in World BY <1>1, <1>3 DEF CallsType
  <2>2. Append(cmdq[put_rank], sender) \in Seq(Ids) BY <1>3, <2>1 DEF RanksType
  <2> QED BY <1>1, <1>3, <2>2 DEF RanksType
<1>7. RanksType' BY <1>1, <1>2, <1>3, <1>6 DEF RanksType
<1>8. ASSUME NEW r \in World PROVE RankOk(r)'
  <2>1. RankOk(r) BY DEF TypeInv
  <2> QED BY <1>1, <1>2, <2>1 DEF RankOk
<1> QED BY <1>5, <1>7, <1>8 DEF TypeInv

LEMMA CallTimesOutTypes ==
  ASSUME TypeInv, NEW c \in Ids, CallTimesOut(c)
  PROVE  TypeInv'
<1>1. RanksType' /\ \A r \in World : RankOk(r)' BY RanksUntouched DEF CallTimesOut
<1>2. Ids' = Ids /\ Messages' = Messages BY DEF CallTimesOut, Ids, Messages
<1>3. call_state' \in [Ids -> Outcomes] BY DEF TypeInv, CallsType, CallTimesOut, Outcomes
<1>4. CallsType' BY <1>2, <1>3 DEF TypeInv, CallsType, CallTimesOut, sending
<1> QED BY <1>1, <1>4 DEF TypeInv

LEMMA PumpTypes ==
  ASSUME TypeInv, PumpStep
  PROVE  TypeInv'
<1>1. UNCHANGED <<calls, order, sender, put_rank, posted, cmdq, deferred, work, executed>>
  BY DEF PumpStep, PumpResult, PumpEmpty, PumpCheck, callers, sending
<1>2. RanksType' /\ \A r \in World : RankOk(r)' BY <1>1, RanksUntouched
<1>3. Ids' = Ids /\ Messages' = Messages BY <1>1 DEF Ids, Messages
<1>4. CallsType BY DEF TypeInv
<1>5. CASE PumpResult
  <2>1. results' \in Seq(Messages) /\ checking' = checking BY <1>4, <1>5 DEF PumpResult, CallsType
  <2>2. call_state' \in [Ids -> Outcomes] /\ call_pending' \in [Ids -> SUBSET World]
    BY <1>4, <1>5, ZenonT(30) DEF PumpResult, CallsType, Finish, Outcomes
  <2> QED BY <1>1, <1>2, <1>3, <1>4, <2>1, <2>2 DEF TypeInv, CallsType
<1>6. CASE PumpEmpty
  <2>1. checking' \subseteq Ids /\ UNCHANGED <<call_state, call_pending, results>>
    BY <1>6 DEF PumpEmpty, callers
  <2> QED BY <1>1, <1>2, <1>3, <1>4, <2>1 DEF TypeInv, CallsType
<1>7. ASSUME NEW c \in Ids, PumpCheck(c) PROVE TypeInv'
  <2>1. checking' \subseteq Ids /\ UNCHANGED <<call_pending, results>>
    BY <1>4, <1>7 DEF PumpCheck, CallsType
  <2>2. call_state' \in [Ids -> Outcomes] BY <1>4, <1>7 DEF PumpCheck, Finish, CallsType, Outcomes
  <2> QED BY <1>1, <1>2, <1>3, <1>4, <2>1, <2>2 DEF TypeInv, CallsType
<1> QED BY <1>5, <1>6, <1>7 DEF PumpStep

-----------------------------------------------------------------------------
(* Types: the steps of the ranks                                           *)

\* A step of the ranks leaves the coordinator alone.
LEMMA CallsUntouched ==
  ASSUME TypeInv, UNCHANGED <<callers, sending, checking, results, posted>>
  PROVE  CallsType' /\ Ids' = Ids /\ Messages' = Messages
<1>1. Ids' = Ids /\ Messages' = Messages BY DEF Ids, Messages, callers
<1> QED BY <1>1 DEF TypeInv, CallsType, callers, sending

\* A step of one rank, summed up by the new values of that rank.
LEMMA OneRankTypes ==
  ASSUME TypeInv, Ids' = Ids, Messages' = Messages, CallsType',
         NEW r \in World,
         NEW nq \in Seq(Ids), NEW nd \in Seq(Ids), NEW na \in Places, NEW nc \in Ids \cup {0},
         NEW np \in Ids \cup {0}, NEW nb \in Seq(Ids), NEW no \in Seq(Messages),
         NEW nn \in {"idle", "refill", "exiting"}, NEW ne \in Seq(Ids),
         cmdq' = [cmdq EXCEPT ![r] = nq], deferred' = [deferred EXCEPT ![r] = nd],
         at' = [at EXCEPT ![r] = na], cmd' = [cmd EXCEPT ![r] = nc],
         picked' = [picked EXCEPT ![r] = np], current' = [current EXCEPT ![r] = nb],
         outbox' = [outbox EXCEPT ![r] = no], next_at' = [next_at EXCEPT ![r] = nn],
         executed' = [executed EXCEPT ![r] = ne],
         na \notin {"idle", "dead"} => nc \in Ids,
         na \in {"popping", "refilling"} => np \in Ids,
         no # << >> => na \in {"posting", "failing"},
         na = "posting" => nn \in {"idle", "refill"},
         na = "failing" => nn = "exiting",
         \A i \in 1..Len(no) : no[i].rank = r /\ no[i].ok = (na = "posting")
  PROVE  TypeInv'
<1>1. RanksType BY DEF TypeInv
<1>2. RanksType' BY <1>1 DEF RanksType
<1>3. ASSUME NEW q \in World PROVE RankOk(q)'
  <2>1. CASE q = r
    <3>1. /\ at'[q] = na /\ cmd'[q] = nc /\ picked'[q] = np /\ outbox'[q] = no /\ next_at'[q] = nn
      BY <1>1, <2>1 DEF RanksType
    <3> QED BY <2>1, <3>1 DEF RankOk
  <2>2. CASE q # r
    <3>1. /\ at'[q] = at[q] /\ cmd'[q] = cmd[q] /\ picked'[q] = picked[q] /\ outbox'[q] = outbox[q]
          /\ next_at'[q] = next_at[q]
      BY <1>1, <2>2 DEF RanksType
    <3>2. RankOk(q) BY DEF TypeInv
    <3> QED BY <3>1, <3>2 DEF RankOk
  <2> QED BY <2>1, <2>2
<1> QED BY <1>2, <1>3 DEF TypeInv

\* What TypeInv says of one rank.
LEMMA RankFacts ==
  ASSUME TypeInv, NEW r \in World
  PROVE  /\ cmdq[r] \in Seq(Ids) /\ deferred[r] \in Seq(Ids) /\ at[r] \in Places
         /\ cmd[r] \in Ids \cup {0} /\ picked[r] \in Ids \cup {0} /\ current[r] \in Seq(Ids)
         /\ outbox[r] \in Seq(Messages) /\ next_at[r] \in {"idle", "refill", "exiting"}
         /\ executed[r] \in Seq(Ids) /\ RankOk(r)
         /\ cmdq = [cmdq EXCEPT ![r] = cmdq[r]] /\ deferred = [deferred EXCEPT ![r] = deferred[r]]
         /\ at = [at EXCEPT ![r] = at[r]] /\ cmd = [cmd EXCEPT ![r] = cmd[r]]
         /\ picked = [picked EXCEPT ![r] = picked[r]] /\ current = [current EXCEPT ![r] = current[r]]
         /\ outbox = [outbox EXCEPT ![r] = outbox[r]] /\ next_at = [next_at EXCEPT ![r] = next_at[r]]
         /\ executed = [executed EXCEPT ![r] = executed[r]]
BY DEF TypeInv, RanksType

\* One message, in a list.
LEMMA OneMessage ==
  ASSUME NEW r \in World, NEW c \in Ids, NEW b \in BOOLEAN
  PROVE  /\ Result(r, c, b) \in Messages
         /\ <<Result(r, c, b)>> \in Seq(Messages) /\ Len(<<Result(r, c, b)>>) = 1
         /\ \A i \in 1..Len(<<Result(r, c, b)>>) :
              <<Result(r, c, b)>>[i].rank = r /\ <<Result(r, c, b)>>[i].ok = b
<1> DEFINE m == Result(r, c, b)
<1>1. m \in Messages /\ m.rank = r /\ m.ok = b BY DEF Result, Messages
<1> HIDE DEF m
<1>2. <<m>> \in Seq(Messages) /\ Len(<<m>>) = 1 /\ \A i \in 1..Len(<<m>>) : <<m>>[i] = m BY <1>1
<1> QED BY <1>1, <1>2 DEF m

\* A list of messages, one to each request of a list.
MessagesOf(r, ids, b) == [i \in 1..Len(ids) |-> Result(r, ids[i], b)]

\* They are messages of that rank.
LEMMA ManyMessages ==
  ASSUME NEW r \in World, NEW ids \in Seq(Ids), NEW b \in BOOLEAN
  PROVE  /\ MessagesOf(r, ids, b) \in Seq(Messages) /\ Len(MessagesOf(r, ids, b)) = Len(ids)
         /\ \A i \in 1..Len(ids) : MessagesOf(r, ids, b)[i].rank = r /\ MessagesOf(r, ids, b)[i].ok = b
<1> DEFINE ms == MessagesOf(r, ids, b)
<1>1. \A i \in 1..Len(ids) : ids[i] \in Ids /\ Len(ids) \in Nat OBVIOUS
<1>2. \A c \in Ids : Result(r, c, b) \in Messages /\ Result(r, c, b).rank = r /\ Result(r, c, b).ok = b
  BY DEF Result, Messages
<1>3. \A i \in 1..Len(ids) : ms[i] = Result(r, ids[i], b) BY DEF MessagesOf
<1>4. ms \in [1..Len(ids) -> Messages] BY <1>1, <1>2 DEF MessagesOf
<1> HIDE DEF ms
<1>5. ms \in Seq(Messages) /\ Len(ms) = Len(ids)
  <2>1. Len(ids) \in Nat OBVIOUS
  <2> QED BY <1>4, <2>1, SeqOfFunction
<1>6. ASSUME NEW i \in 1..Len(ids) PROVE ms[i].rank = r /\ ms[i].ok = b
  BY <1>1, <1>2, <1>3
<1> QED BY <1>5, <1>6 DEF ms

\* The parts of a sequence.
LEMMA HeadAndTail ==
  ASSUME NEW X, NEW s \in Seq(X), s # << >>
  PROVE  /\ Head(s) \in X /\ Head(s) = s[1] /\ Tail(s) \in Seq(X)
         /\ Len(s) \in Nat \ {0} /\ Len(Tail(s)) = Len(s) - 1
         /\ \A i \in 1..Len(s) - 1 : Tail(s)[i] = s[i + 1]
OBVIOUS

LEMMA TakeCommandTypes ==
  ASSUME TypeInv, NEW r \in World, NEW c \in Ids, TakeCommand(r, c)
  PROVE  TypeInv'
<1>1. CallsType' /\ Ids' = Ids /\ Messages' = Messages
  BY CallsUntouched DEF TakeCommand
<1>2. RanksType /\ RankOk(r) BY DEF TypeInv
<1>3. /\ at[r] = "idle" /\ NextCommand(r, c) /\ cmd' = [cmd EXCEPT ![r] = c]
      /\ executed' = [executed EXCEPT ![r] = Append(@, c)] /\ picked' = picked
  BY DEF TakeCommand
<1>4. cmdq' \in [World -> Seq(Ids)] /\ deferred' \in [World -> Seq(Ids)]
  <2>1. cmdq[r] \in Seq(Ids) /\ deferred[r] \in Seq(Ids) BY <1>2 DEF RanksType
  <2>2. CASE deferred[r] # << >>
    <3>1. Tail(deferred[r]) \in Seq(Ids) BY <2>1, <2>2, HeadAndTail
    <3> QED BY <1>2, <1>3, <2>2, <3>1, ZenonT(30) DEF NextCommand, RanksType
  <2>3. CASE deferred[r] = << >>
    <3>1. cmdq[r] # << >> BY <1>3, <2>3 DEF NextCommand
    <3>2. Tail(cmdq[r]) \in Seq(Ids) BY <2>1, <3>1, HeadAndTail
    <3> QED BY <1>2, <1>3, <2>3, <3>2 DEF NextCommand, RanksType
  <2> QED BY <2>2, <2>3
<1>5. cmd' \in [World -> Ids \cup {0}] /\ executed' \in [World -> Seq(Ids)] /\ cmd'[r] = c
  BY <1>2, <1>3 DEF RanksType
<1>6. outbox[r] = << >> BY <1>2, <1>3 DEF RankOk
<1>7. calls[c].op = "other" \/ calls[c].op = "rollout"
  <2>1. calls[c] \in Shapes BY DEF TypeInv, CallsType, Ids
  <2> QED BY <2>1, ClusterAssumption
<1>8. /\ at' \in [World -> Places] /\ current' \in [World -> Seq(Ids)] /\ outbox' \in [World -> Seq(Messages)]
      /\ next_at' \in [World -> {"idle", "refill", "exiting"}]
      /\ \A q \in World \ {r} : at'[q] = at[q] /\ outbox'[q] = outbox[q] /\ next_at'[q] = next_at[q]
      /\ \/ at'[r] \in {"exec", "refill"} /\ outbox'[r] = << >>
         \/ at'[r] = "posting" /\ outbox'[r] = <<Result(r, c, TRUE)>> /\ next_at'[r] = "idle"
  <2>1. CASE calls[c].op = "other"
    BY <1>2, <1>6, <2>1 DEF TakeCommand, RanksType, Places
  <2>2. CASE calls[c].op = "rollout" /\ Group(r) \in calls[c].rows
    <3>1. /\ at' = [at EXCEPT ![r] = "refill"] /\ current' = [current EXCEPT ![r] = <<c>>]
          /\ UNCHANGED <<outbox, next_at>>
      BY <2>2 DEF TakeCommand
    <3> QED BY <1>2, <1>6, <3>1 DEF RanksType, Places
  <2>3. CASE calls[c].op = "rollout" /\ Group(r) \notin calls[c].rows
    <3>1. /\ at' = [at EXCEPT ![r] = "posting"] /\ outbox' = [outbox EXCEPT ![r] = <<Result(r, c, TRUE)>>]
          /\ next_at' = [next_at EXCEPT ![r] = "idle"] /\ current' = current
      BY <2>3 DEF TakeCommand
    <3>2. <<Result(r, c, TRUE)>> \in Seq(Messages) BY OneMessage
    <3> QED BY <1>2, <3>1, <3>2 DEF RanksType, Places
  <2> QED BY <1>7, <2>1, <2>2, <2>3
<1>9. ASSUME NEW q \in World PROVE RankOk(q)'
  <2>1. RankOk(q) BY DEF TypeInv
  <2>2. CASE q = r
    <3>1. CASE at'[r] \in {"exec", "refill"} /\ outbox'[r] = << >>
      BY <1>1, <1>5, <2>2, <3>1 DEF RankOk
    <3>2. CASE at'[r] = "posting" /\ outbox'[r] = <<Result(r, c, TRUE)>> /\ next_at'[r] = "idle"
      <4> DEFINE o == <<Result(r, c, TRUE)>>
      <4>1. \A i \in 1..Len(o) : o[i].rank = r /\ o[i].ok = TRUE BY OneMessage
      <4> HIDE DEF o
      <4>2. outbox'[r] = o BY <3>2 DEF o
      <4> QED BY <1>1, <1>5, <2>2, <3>2, <4>1, <4>2 DEF RankOk
    <3> QED BY <1>8, <3>1, <3>2
  <2>3. CASE q # r
    <3>1. cmd'[q] = cmd[q] BY <1>2, <1>3, <2>3 DEF RanksType
    <3> QED BY <1>1, <1>3, <1>8, <2>1, <2>3, <3>1 DEF RankOk
  <2> QED BY <2>2, <2>3
<1>10. RanksType' BY <1>1, <1>2, <1>3, <1>4, <1>5, <1>8 DEF RanksType
<1> QED BY <1>1, <1>9, <1>10 DEF TypeInv

LEMMA PutResultTypes ==
  ASSUME TypeInv, NEW r \in World, PutResult(r)
  PROVE  TypeInv'
<1> DEFINE o == Tail(outbox[r])
           a == IF Tail(outbox[r]) = << >> THEN next_at[r] ELSE at[r]
<1>1. /\ outbox[r] # << >> /\ results' = Append(results, Head(outbox[r]))
      /\ posted' = posted \cup {Head(outbox[r])}
      /\ outbox' = [outbox EXCEPT ![r] = o] /\ at' = [at EXCEPT ![r] = a]
      /\ UNCHANGED <<callers, sending, checking, cmdq, deferred, cmd, picked, current, next_at, executed>>
  BY DEF PutResult
<1>2. Ids' = Ids /\ Messages' = Messages BY <1>1 DEF callers, Ids, Messages
<1>3. CallsType /\ RanksType /\ RankOk(r) BY DEF TypeInv
<1>4. /\ Head(outbox[r]) \in Messages /\ o \in Seq(Messages)
      /\ \A i \in 1..Len(o) : i + 1 \in 1..Len(outbox[r]) /\ o[i] = outbox[r][i + 1]
  BY <1>1, <1>3 DEF RanksType
<1>5. CallsType' BY <1>1, <1>2, <1>3, <1>4 DEF CallsType, callers, sending
<1>6. at[r] \in {"posting", "failing"} /\ a \in Places BY <1>1, <1>3 DEF RankOk, RanksType, Places
<1> HIDE DEF o
<1>7. RanksType' BY <1>1, <1>2, <1>3, <1>4, <1>6 DEF RanksType
<1>8. ASSUME NEW q \in World PROVE RankOk(q)'
  <2>1. RankOk(q) BY DEF TypeInv
  <2>2. CASE q = r
    <3>1. at'[q] = a /\ outbox'[q] = o BY <1>1, <1>3, <2>2 DEF RanksType
    <3>2. CASE o = << >>
      <4>1. a = next_at[r] BY <3>2 DEF o
      <4>2. 1..Len(o) = {} BY <3>2
      <4> QED BY <1>1, <1>2, <1>3, <1>6, <2>2, <3>1, <3>2, <4>1, <4>2 DEF RankOk
    <3>3. CASE o # << >>
      <4>1. a = at[r] BY <3>3 DEF o
      <4>2. at'[r] = at[r] /\ outbox'[r] = o /\ Len(o) \in Nat BY <1>4, <2>2, <3>1, <4>1
      <4>3. ASSUME NEW i \in 1..Len(o) PROVE o[i].rank = r /\ o[i].ok = (at[r] = "posting")
        BY <1>3, <1>4 DEF RankOk
      <4>4. UNCHANGED <<cmd, picked, next_at>> BY <1>1
      <4>5. at[r] = "posting" => next_at[r] \in {"idle", "refill"} BY <1>3 DEF RankOk
      <4>6. at[r] = "failing" => next_at[r] = "exiting" BY <1>3 DEF RankOk
      <4>7. cmd[r] \in Ids BY <1>3, <1>6 DEF RankOk
      <4> QED BY <1>2, <1>6, <2>2, <4>2, <4>3, <4>4, <4>5, <4>6, <4>7 DEF RankOk
    <3> QED BY <3>2, <3>3
  <2>3. CASE q # r
    <3>1. at'[q] = at[q] /\ outbox'[q] = outbox[q] BY <1>1, <1>3, <2>3 DEF RanksType
    <3> QED BY <1>1, <1>2, <2>1, <3>1 DEF RankOk
  <2> QED BY <2>2, <2>3
<1> QED BY <1>5, <1>7, <1>8 DEF TypeInv

LEMMA PickRefillTypes ==
  ASSUME TypeInv, NEW r \in World, PickRefill(r)
  PROVE  TypeInv'
<1>1. CallsType' /\ Ids' = Ids /\ Messages' = Messages
  BY CallsUntouched DEF PickRefill
<1>2. RanksType /\ RankOk(r) BY DEF TypeInv
<1>3. /\ at[r] = "refill" /\ at' = [at EXCEPT ![r] = "picked"]
      /\ UNCHANGED <<deferred, cmd, current, outbox, next_at, executed>>
      /\ \/ cmdq[r] = << >> /\ picked' = [picked EXCEPT ![r] = 0] /\ cmdq' = cmdq
         \/ cmdq[r] # << >> /\ picked' = [picked EXCEPT ![r] = Head(cmdq[r])] /\ cmdq' = [cmdq EXCEPT ![r] = Tail(@)]
  BY DEF PickRefill
<1>4. RanksType'
  <2>1. cmdq[r] \in Seq(Ids) BY <1>2 DEF RanksType
  <2>2. CASE cmdq[r] = << >> BY <1>1, <1>2, <1>3, <2>2 DEF RanksType, Places
  <2>3. CASE cmdq[r] # << >>
    <3>1. Tail(cmdq[r]) \in Seq(Ids) /\ Head(cmdq[r]) \in Ids BY <2>1, <2>3, HeadAndTail
    <3>2. picked' = [picked EXCEPT ![r] = Head(cmdq[r])] /\ cmdq' = [cmdq EXCEPT ![r] = Tail(cmdq[r])]
      BY <1>3, <2>3
    <3>3. cmdq' \in [World -> Seq(Ids)] /\ picked' \in [World -> Ids \cup {0}] BY <1>2, <3>1, <3>2 DEF RanksType
    <3> QED BY <1>1, <1>2, <1>3, <3>3 DEF RanksType, Places
  <2> QED BY <2>2, <2>3
<1>5. ASSUME NEW q \in World PROVE RankOk(q)'
  <2>1. RankOk(q) BY DEF TypeInv
  <2>2. CASE q = r BY <1>1, <1>2, <1>3, <2>1, <2>2 DEF RankOk, RanksType
  <2>3. CASE q # r
    <3>1. at'[q] = at[q] /\ picked'[q] = picked[q] BY <1>2, <1>3, <2>3 DEF RanksType
    <3> QED BY <1>1, <1>3, <2>1, <3>1 DEF RankOk
  <2> QED BY <2>2, <2>3
<1> QED BY <1>1, <1>4, <1>5 DEF TypeInv

LEMMA PopMatchingTypes ==
  ASSUME TypeInv, NEW r \in World, PopMatching(r)
  PROVE  TypeInv'
<1>1. CallsType' /\ Ids' = Ids /\ Messages' = Messages
  BY CallsUntouched DEF PopMatching
<1>2. RanksType /\ RankOk(r) BY DEF TypeInv
<1>3. /\ at[r] = "popping" /\ cmdq[r] # << >> /\ cmdq' = [cmdq EXCEPT ![r] = Tail(@)]
      /\ UNCHANGED <<cmd, picked, current, outbox, next_at, executed>>
      /\ \/ at' = [at EXCEPT ![r] = "refilling"] /\ deferred' = deferred
         \/ at' = at /\ deferred' = [deferred EXCEPT ![r] = Append(@, Head(cmdq[r]))]
  BY DEF PopMatching
<1>4. RanksType'
  <2>1. cmdq[r] \in Seq(Ids) /\ deferred[r] \in Seq(Ids) BY <1>2 DEF RanksType
  <2>2. Tail(cmdq[r]) \in Seq(Ids) /\ Head(cmdq[r]) \in Ids BY <1>3, <2>1, HeadAndTail
  <2>3. Append(deferred[r], Head(cmdq[r])) \in Seq(Ids) BY <2>1, <2>2
  <2> QED BY <1>1, <1>2, <1>3, <2>2, <2>3, ZenonT(30) DEF RanksType, Places
<1>5. ASSUME NEW q \in World PROVE RankOk(q)'
  <2>1. RankOk(q) BY DEF TypeInv
  <2>2. CASE q = r BY <1>1, <1>2, <1>3, <2>1, <2>2 DEF RankOk, RanksType
  <2>3. CASE q # r
    <3>1. at'[q] = at[q] BY <1>2, <1>3, <2>3 DEF RanksType
    <3> QED BY <1>1, <1>3, <2>1, <3>1 DEF RankOk
  <2> QED BY <2>2, <2>3
<1> QED BY <1>1, <1>4, <1>5 DEF TypeInv

LEMMA JoinOrDeferTypes ==
  ASSUME TypeInv, NEW r \in World, JoinOrDefer(r)
  PROVE  TypeInv'
<1> DEFINE c == picked[r]
<1>1. CallsType' /\ Ids' = Ids /\ Messages' = Messages
  BY CallsUntouched DEF JoinOrDefer
<1>2. RanksType /\ RankOk(r) BY DEF TypeInv
<1>3. at[r] = "refilling" /\ UNCHANGED <<cmdq, cmd, picked>> BY DEF JoinOrDefer
<1>4. c \in Ids /\ cmd[r] \in Ids /\ outbox[r] = << >> BY <1>2, <1>3 DEF RankOk
<1>5. /\ RanksType'
      /\ \A q \in World \ {r} : at'[q] = at[q] /\ outbox'[q] = outbox[q] /\ next_at'[q] = next_at[q]
      /\ \/ at'[r] \in {"idle", "refill", "forward"} /\ outbox'[r] = << >>
         \/ at'[r] = "posting" /\ outbox'[r] = <<Result(r, c, TRUE)>> /\ next_at'[r] = "refill"
  <2>1. CASE ~Compatible(r, c)
    <3>1. /\ deferred' = [deferred EXCEPT ![r] = Append(@, c)] /\ at' = [at EXCEPT ![r] = AfterRefill(r)]
          /\ UNCHANGED <<current, outbox, next_at, executed>>
      BY <2>1 DEF JoinOrDefer
    <3>2. AfterRefill(r) \in {"idle", "forward"} BY DEF AfterRefill
    <3>3. Append(deferred[r], c) \in Seq(Ids) BY <1>2, <1>4 DEF RanksType
    <3> HIDE DEF c
    <3> QED BY <1>1, <1>2, <1>3, <1>4, <3>1, <3>2, <3>3 DEF RanksType, Places
  <2>2. CASE Compatible(r, c) /\ Group(r) \in calls[c].rows
    <3>1. /\ current' = [current EXCEPT ![r] = Append(@, c)] /\ executed' = [executed EXCEPT ![r] = Append(@, c)]
          /\ at' = [at EXCEPT ![r] = "refill"] /\ UNCHANGED <<deferred, outbox, next_at>>
      BY <2>2 DEF JoinOrDefer
    <3>2. Append(current[r], c) \in Seq(Ids) /\ Append(executed[r], c) \in Seq(Ids) BY <1>2, <1>4 DEF RanksType
    <3> HIDE DEF c
    <3> QED BY <1>1, <1>2, <1>3, <1>4, <3>1, <3>2 DEF RanksType, Places
  <2>3. CASE Compatible(r, c) /\ Group(r) \notin calls[c].rows
    <3>1. /\ outbox' = [outbox EXCEPT ![r] = <<Result(r, c, TRUE)>>] /\ executed' = [executed EXCEPT ![r] = Append(@, c)]
          /\ at' = [at EXCEPT ![r] = "posting"] /\ next_at' = [next_at EXCEPT ![r] = "refill"]
          /\ UNCHANGED <<deferred, current>>
      BY <2>3 DEF JoinOrDefer
    <3>2. Append(executed[r], c) \in Seq(Ids) BY <1>2, <1>4 DEF RanksType
    <3>3. <<Result(r, c, TRUE)>> \in Seq(Messages) BY <1>4, OneMessage
    <3> HIDE DEF c
    <3> QED BY <1>1, <1>2, <1>3, <1>4, <3>1, <3>2, <3>3 DEF RanksType, Places
  <2> QED BY <2>1, <2>2, <2>3
<1>6. ASSUME NEW q \in World PROVE RankOk(q)'
  <2>1. RankOk(q) BY DEF TypeInv
  <2>2. CASE q = r
    <3>1. CASE at'[r] \in {"idle", "refill", "forward"} /\ outbox'[r] = << >>
      BY <1>1, <1>3, <1>4, <2>2, <3>1 DEF RankOk
    <3>2. CASE at'[r] = "posting" /\ outbox'[r] = <<Result(r, c, TRUE)>> /\ next_at'[r] = "refill"
      <4> DEFINE o == <<Result(r, c, TRUE)>>
      <4>1. \A i \in 1..Len(o) : o[i].rank = r /\ o[i].ok = TRUE BY <1>4, OneMessage, ZenonT(30)
      <4>2. outbox'[r] = o BY <3>2
      <4> HIDE DEF o
      <4> QED BY <1>1, <1>3, <1>4, <2>2, <3>2, <4>1, <4>2 DEF RankOk
    <3> QED BY <1>5, <3>1, <3>2
  <2>3. CASE q # r BY <1>1, <1>3, <1>5, <2>1, <2>3 DEF RankOk
  <2> QED BY <2>2, <2>3
<1> QED BY <1>1, <1>5, <1>6 DEF TypeInv

\* An exception, from whatever the rank was doing.
LEMMA RaiseTypes ==
  ASSUME TypeInv, NEW r \in World, Raise(r), cmd[r] \in Ids
  PROVE  TypeInv'
<1> DEFINE ids == IF current[r] = << >> THEN <<cmd[r]>> ELSE current[r]
           o == [i \in 1..Len(ids) |-> Result(r, ids[i], FALSE)]
<1>1. CallsType' /\ Ids' = Ids /\ Messages' = Messages
  BY CallsUntouched DEF Raise
<1>2. RanksType BY DEF TypeInv
<1>3. /\ outbox' = [outbox EXCEPT ![r] = o] /\ at' = [at EXCEPT ![r] = "failing"]
      /\ next_at' = [next_at EXCEPT ![r] = "exiting"]
      /\ UNCHANGED <<cmdq, deferred, cmd, picked, current, executed>>
  BY DEF Raise
<1>4. ids \in Seq(Ids) BY <1>2 DEF RanksType
<1> HIDE DEF ids
<1>5. o \in Seq(Messages) /\ \A i \in 1..Len(o) : o[i].rank = r /\ o[i].ok = FALSE
  <2>0. PICK b \in BOOLEAN : b = FALSE OBVIOUS
  <2>1. o = MessagesOf(r, ids, b) BY <2>0 DEF MessagesOf
  <2> HIDE DEF o
  <2>2. /\ o \in Seq(Messages) /\ Len(o) = Len(ids)
        /\ \A i \in 1..Len(ids) : o[i].rank = r /\ o[i].ok = b
    BY <1>4, <2>1, ManyMessages
  <2> QED BY <2>0, <2>2
<1> HIDE DEF o
<1>6. RanksType' BY <1>1, <1>2, <1>3, <1>5 DEF RanksType, Places
<1>7. ASSUME NEW q \in World PROVE RankOk(q)'
  <2>1. RankOk(q) BY DEF TypeInv
  <2>2. CASE q = r
    <3>1. at'[q] = "failing" /\ outbox'[q] = o /\ next_at'[q] = "exiting" BY <1>2, <1>3, <2>2 DEF RanksType
    <3> QED BY <1>1, <1>3, <1>5, <2>2, <3>1 DEF RankOk
  <2>3. CASE q # r
    <3>1. at'[q] = at[q] /\ outbox'[q] = outbox[q] /\ next_at'[q] = next_at[q] BY <1>2, <1>3, <2>3 DEF RanksType
    <3> QED BY <1>1, <1>3, <2>1, <3>1 DEF RankOk
  <2> QED BY <2>2, <2>3
<1> QED BY <1>1, <1>6, <1>7 DEF TypeInv

LEMMA GoneTypes ==
  ASSUME TypeInv, NEW r \in World, Exit(r) \/ Killed(r)
  PROVE  TypeInv'
<1>1. CallsType' /\ Ids' = Ids /\ Messages' = Messages
  BY CallsUntouched DEF Exit, Killed
<1>2. RanksType /\ RankOk(r) BY DEF TypeInv
<1>3. /\ at' = [at EXCEPT ![r] = "dead"] /\ UNCHANGED <<cmdq, deferred, cmd, picked, current, next_at, executed>>
      /\ outbox' = [outbox EXCEPT ![r] = << >>]
  <2>1. CASE Exit(r)
    <3>1. outbox[r] = << >> /\ outbox' = outbox BY <1>2, <2>1 DEF Exit, RankOk
    <3>2. outbox' = [outbox EXCEPT ![r] = << >>] BY <1>2, <3>1 DEF RanksType
    <3> QED BY <2>1, <3>2 DEF Exit
  <2>2. CASE Killed(r) BY <2>2 DEF Killed
  <2> QED BY <2>1, <2>2
<1>4. RanksType' BY <1>1, <1>2, <1>3 DEF RanksType, Places
<1>5. ASSUME NEW q \in World PROVE RankOk(q)'
  <2>1. RankOk(q) BY DEF TypeInv
  <2>2. CASE q = r
    <3>1. at'[q] = "dead" /\ outbox'[q] = << >> BY <1>2, <1>3, <2>2 DEF RanksType
    <3> QED BY <1>1, <1>3, <3>1 DEF RankOk
  <2>3. CASE q # r
    <3>1. at'[q] = at[q] /\ outbox'[q] = outbox[q] BY <1>2, <1>3, <2>3 DEF RanksType
    <3> QED BY <1>1, <1>3, <2>1, <3>1 DEF RankOk
  <2> QED BY <2>2, <2>3
<1> QED BY <1>1, <1>4, <1>5 DEF TypeInv

\* A step of all the ranks of a group that leaves queues and logs alone.
LEMMA GroupTypes ==
  ASSUME TypeInv, NEW g, CallsType', Ids' = Ids, Messages' = Messages, RanksType',
         \A q \in World : Group(q) # g =>
            at'[q] = at[q] /\ cmd'[q] = cmd[q] /\ picked'[q] = picked[q] /\ outbox'[q] = outbox[q]
              /\ next_at'[q] = next_at[q],
         \A q \in World : Group(q) = g => RankOk(q)'
  PROVE  TypeInv'
<1>1. ASSUME NEW q \in World, Group(q) # g PROVE RankOk(q)'
  <2>1. RankOk(q) BY DEF TypeInv
  <2> QED BY <1>1, <2>1 DEF RankOk
<1> QED BY <1>1 DEF TypeInv

LEMMA ExecuteTypes ==
  ASSUME TypeInv, NEW g \in Groups, Execute(g)
  PROVE  TypeInv'
<1>1. CallsType' /\ Ids' = Ids /\ Messages' = Messages
  BY CallsUntouched DEF Execute
<1>2. RanksType BY DEF TypeInv
<1>3. /\ outbox' = [r \in World |-> IF Group(r) = g THEN <<Result(r, cmd[r], TRUE)>> ELSE outbox[r]]
      /\ at' = [r \in World |-> IF Group(r) = g THEN "posting" ELSE at[r]]
      /\ next_at' = [r \in World |-> IF Group(r) = g THEN "idle" ELSE next_at[r]]
      /\ UNCHANGED <<cmdq, deferred, cmd, picked, current, executed>>
  BY DEF Execute
<1>4. ASSUME NEW r \in World, Group(r) = g PROVE cmd[r] \in Ids
  <2>1. at[r] = "exec" BY <1>4 DEF Execute, Members
  <2> QED BY <2>1 DEF TypeInv, RankOk
<1>5. ASSUME NEW r \in World PROVE outbox'[r] \in Seq(Messages)
  <2>1. CASE Group(r) = g BY <1>3, <1>4, <2>1, OneMessage
  <2>2. CASE Group(r) # g BY <1>2, <1>3, <2>2 DEF RanksType
  <2> QED BY <2>1, <2>2
<1>6. RanksType'
  <2>1. outbox' \in [World -> Seq(Messages)] BY <1>3, <1>5
  <2>2. at' \in [World -> Places] /\ next_at' \in [World -> {"idle", "refill", "exiting"}]
    BY <1>2, <1>3 DEF RanksType, Places
  <2> QED BY <1>1, <1>2, <1>3, <2>1, <2>2 DEF RanksType
<1>7. ASSUME NEW r \in World, Group(r) = g PROVE RankOk(r)'
  <2> DEFINE o == <<Result(r, cmd[r], TRUE)>>
  <2>1. \A i \in 1..Len(o) : o[i].rank = r /\ o[i].ok = TRUE BY <1>4, <1>7, OneMessage
  <2>2. outbox'[r] = o /\ at'[r] = "posting" /\ next_at'[r] = "idle" /\ cmd'[r] \in Ids' BY <1>1, <1>3, <1>4, <1>7
  <2> HIDE DEF o
  <2> QED BY <2>1, <2>2 DEF RankOk
<1>8. \A q \in World : Group(q) # g =>
         at'[q] = at[q] /\ cmd'[q] = cmd[q] /\ picked'[q] = picked[q] /\ outbox'[q] = outbox[q]
           /\ next_at'[q] = next_at[q]
  BY <1>3
<1> QED BY <1>1, <1>6, <1>7, <1>8, GroupTypes

LEMMA BroadcastTypes ==
  ASSUME TypeInv, NEW g \in Groups, BroadcastHeader(g)
  PROVE  TypeInv'
<1>1. CallsType' /\ Ids' = Ids /\ Messages' = Messages
  BY CallsUntouched DEF BroadcastHeader
<1>2. RanksType BY DEF TypeInv
<1>3. PICK leader \in Members(g) :
        /\ at[leader] = "picked" /\ \A r \in Members(g) \ {leader} : at[r] = "refill"
        /\ picked' = [r \in World |-> IF Group(r) = g THEN picked[leader] ELSE picked[r]]
        /\ at' = [r \in World |->
                IF Group(r) # g THEN at[r]
                ELSE IF picked[leader] = 0 THEN AfterRefill(r)
                ELSE IF r = leader THEN "refilling" ELSE "popping"]
        /\ UNCHANGED <<cmdq, deferred, cmd, current, outbox, next_at, executed>>
  BY DEF BroadcastHeader
<1>4. leader \in World /\ picked[leader] \in Ids \cup {0} BY <1>2 DEF Members, RanksType
<1>5. \A r \in World : AfterRefill(r) \in {"idle", "forward"} BY DEF AfterRefill
<1>6. at' \in [World -> Places] /\ picked' \in [World -> Ids \cup {0}]
  BY <1>2, <1>3, <1>4, <1>5 DEF RanksType, Places
<1>7. RanksType' BY <1>1, <1>2, <1>3, <1>6 DEF RanksType
<1>8. ASSUME NEW r \in World, Group(r) = g PROVE RankOk(r)'
  <2>1. at[r] \in {"picked", "refill"} BY <1>3, <1>8 DEF Members
  <2>2. RankOk(r) BY DEF TypeInv
  <2>3. cmd[r] \in Ids /\ outbox[r] = << >> BY <2>1, <2>2 DEF RankOk
  <2>4. picked'[r] = picked[leader] BY <1>3, <1>8
  <2>5. CASE picked[leader] = 0
    <3>1. at'[r] \in {"idle", "forward"} BY <1>3, <1>5, <1>8, <2>5
    <3> QED BY <1>1, <1>3, <2>3, <3>1 DEF RankOk
  <2>6. CASE picked[leader] # 0
    <3>1. at'[r] \in {"refilling", "popping"} BY <1>3, <1>8, <2>6
    <3> QED BY <1>1, <1>3, <1>4, <2>3, <2>4, <2>6, <3>1 DEF RankOk
  <2> QED BY <2>5, <2>6
<1>9. \A q \in World : Group(q) # g =>
         at'[q] = at[q] /\ cmd'[q] = cmd[q] /\ picked'[q] = picked[q] /\ outbox'[q] = outbox[q]
           /\ next_at'[q] = next_at[q]
  BY <1>3
<1> QED BY <1>1, <1>7, <1>8, <1>9, GroupTypes

LEMMA ForwardTypes ==
  ASSUME TypeInv, NEW g \in Groups, Forward(g)
  PROVE  TypeInv'
<1>1. CallsType' /\ Ids' = Ids /\ Messages' = Messages
  BY CallsUntouched DEF Forward
<1>2. RanksType BY DEF TypeInv
<1>3. PICK done \in SUBSET UNION {Entries(current[r]) : r \in Members(g)} :
        /\ outbox' = [r \in World |->
             IF Group(r) = g
               THEN [i \in 1..Len(Finished(r, done)) |-> Result(r, Finished(r, done)[i], TRUE)]
               ELSE outbox[r]]
        /\ current' = [r \in World |-> IF Group(r) = g THEN Left(r, done) ELSE current[r]]
        /\ at' = [r \in World |->
             IF Group(r) # g THEN at[r]
             ELSE IF Finished(r, done) = << >> THEN "refill" ELSE "posting"]
        /\ next_at' = [r \in World |-> IF Group(r) = g THEN "refill" ELSE next_at[r]]
  BY Zenon DEF Forward
<1>4. UNCHANGED <<cmdq, deferred, cmd, picked, executed>> BY DEF Forward
<1>5. ASSUME NEW r \in World PROVE Finished(r, done) \in Seq(Ids) /\ Left(r, done) \in Seq(Ids)
  <2>1. current[r] \in Seq(Ids) BY <1>2 DEF RanksType
  <2> QED BY <2>1, KeptFacts DEF Finished, Left
<1>6. ASSUME NEW r \in World, Group(r) = g
      PROVE  /\ outbox'[r] \in Seq(Messages) /\ Len(outbox'[r]) = Len(Finished(r, done))
             /\ \A i \in 1..Len(outbox'[r]) : outbox'[r][i].rank = r /\ outbox'[r][i].ok = TRUE
  <2> DEFINE ids == Finished(r, done)
  <2>0. PICK b \in BOOLEAN : b = TRUE OBVIOUS
  <2>1. outbox'[r] = MessagesOf(r, ids, b) BY <1>3, <1>6, <2>0 DEF MessagesOf
  <2>2. ids \in Seq(Ids) BY <1>5
  <2> HIDE DEF ids
  <2>3. /\ outbox'[r] \in Seq(Messages) /\ Len(outbox'[r]) = Len(ids)
        /\ \A i \in 1..Len(ids) : outbox'[r][i].rank = r /\ outbox'[r][i].ok = b
    BY <2>1, <2>2, ManyMessages
  <2> QED BY <2>0, <2>3 DEF ids
<1>7. RanksType'
  <2>1. ASSUME NEW r \in World PROVE outbox'[r] \in Seq(Messages) /\ current'[r] \in Seq(Ids)
    <3>1. CASE Group(r) = g BY <1>3, <1>5, <1>6, <3>1
    <3>2. CASE Group(r) # g BY <1>2, <1>3, <3>2 DEF RanksType
    <3> QED BY <3>1, <3>2
  <2>2. outbox' \in [World -> Seq(Messages)] BY <1>3, <2>1
  <2>3. current' \in [World -> Seq(Ids)] BY <1>3, <2>1
  <2>4. at' \in [World -> Places] /\ next_at' \in [World -> {"idle", "refill", "exiting"}]
    BY <1>2, <1>3 DEF RanksType, Places
  <2> QED BY <1>1, <1>2, <1>4, <2>2, <2>3, <2>4 DEF RanksType
<1>8. ASSUME NEW r \in World, Group(r) = g PROVE RankOk(r)'
  <2>1. at[r] = "forward" BY <1>8 DEF Forward, Members
  <2>2. cmd[r] \in Ids BY <2>1 DEF TypeInv, RankOk
  <2>3. next_at'[r] = "refill" BY <1>3, <1>8
  <2>4. CASE Finished(r, done) = << >>
    <3>1. at'[r] = "refill" BY <1>3, <1>8, <2>4
    <3>2. outbox'[r] = << >>
      <4>1. outbox'[r] \in Seq(Messages) /\ Len(outbox'[r]) = 0 BY <1>6, <1>8, <2>4
      <4> QED BY <4>1
    <3> QED BY <1>1, <1>4, <2>2, <3>1, <3>2 DEF RankOk
  <2>5. CASE Finished(r, done) # << >>
    <3>1. at'[r] = "posting" BY <1>3, <1>8, <2>5
    <3> QED BY <1>1, <1>4, <1>6, <1>8, <2>2, <2>3, <3>1 DEF RankOk
  <2> QED BY <2>4, <2>5
<1>9. \A q \in World : Group(q) # g =>
         at'[q] = at[q] /\ cmd'[q] = cmd[q] /\ picked'[q] = picked[q] /\ outbox'[q] = outbox[q]
           /\ next_at'[q] = next_at[q]
  BY <1>3, <1>4
<1> QED BY <1>1, <1>7, <1>8, <1>9, GroupTypes

-----------------------------------------------------------------------------

LEMMA FailingRanks ==
  ASSUME TypeInv, NEW r \in World, WorkerRaises(r) \/ PopTimesOut(r) \/ PeerLost(r)
  PROVE  Raise(r) /\ cmd[r] \in Ids
<1>1. at[r] \in {"exec", "forward", "refill", "picked", "popping"} /\ Raise(r)
  BY DEF WorkerRaises, PopTimesOut, PeerLost, InCollective
<1> QED BY <1>1 DEF TypeInv, RankOk

LEMMA NextTypes ==
  ASSUME TypeInv, [Next]_vars
  PROVE  TypeInv'
<1>1. ASSUME NEW s \in Shapes, Call(s) PROVE TypeInv' BY <1>1, CallTypes
<1>2. CASE SenderStep BY <1>2, TakeLockTypes, PutCommandTypes DEF SenderStep
<1>3. CASE PumpStep BY <1>3, PumpTypes
<1>4. ASSUME NEW r \in World, RankStep(r) PROVE TypeInv'
  <2>1. CASE PeerLost(r) BY <2>1, FailingRanks, RaiseTypes
  <2>2. CASE Exit(r) BY <2>2, GoneTypes
  <2> QED BY <1>4, <2>1, <2>2, TakeCommandTypes, PutResultTypes, PickRefillTypes, PopMatchingTypes, JoinOrDeferTypes
         DEF RankStep
<1>5. ASSUME NEW g \in Groups, GroupStep(g) PROVE TypeInv'
  BY <1>5, ExecuteTypes, BroadcastTypes, ForwardTypes DEF GroupStep
<1>6. CASE Fault
  <2>1. ASSUME NEW r \in World, WorkerRaises(r) \/ PopTimesOut(r) PROVE TypeInv'
    BY <2>1, FailingRanks, RaiseTypes
  <2>2. ASSUME NEW r \in World, Killed(r) PROVE TypeInv' BY <2>2, GoneTypes
  <2> QED BY <1>6, <2>1, <2>2, CallTimesOutTypes DEF Fault
<1>7. CASE Quiescent \/ UNCHANGED vars
  <2>1. UNCHANGED <<callers, sending, checking, results, posted, cmdq, deferred, work, executed>>
    BY <1>7 DEF Quiescent, vars
  <2>2. CallsType' BY <2>1, CallsUntouched
  <2>3. UNCHANGED calls BY <2>1 DEF callers
  <2> QED BY <2>1, <2>2, <2>3, RanksUntouched DEF TypeInv
<1> QED BY <1>1, <1>2, <1>3, <1>4, <1>5, <1>6, <1>7 DEF Next

-----------------------------------------------------------------------------
(* The promise: its variables, as functions of the cluster's               *)

Outcome == [c \in Ids |-> IF call_state[c] = "exited" THEN "failed" ELSE call_state[c]]
Reported == [c \in Ids |-> {r \in World : Result(r, c, TRUE) \in posted}]
DownRanks == {r \in World : at[r] \in {"failing", "exiting", "dead"}}

\* The steps of the promise, in these terms.
LEMMA PromiseCall ==
  ASSUME NEW s \in Shapes, Len(calls) < MaxCalls, calls' = Append(calls, s),
         Outcome' = Append(Outcome, "pending"), Reported' = Append(Reported, {}), DownRanks' = DownRanks
  PROVE  Promise!Next
<1>1. Promise!Call(s) BY DEF Promise!Call, Outcome, Reported, DownRanks
<1> QED BY <1>1 DEF Promise!Next

LEMMA PromiseReport ==
  ASSUME NEW r \in World, NEW c \in Ids, r \notin DownRanks, r \notin Reported[c],
         Reported' = [Reported EXCEPT ![c] = @ \cup {r}], UNCHANGED <<calls, Outcome, DownRanks>>
  PROVE  Promise!Next
<1>1. Promise!Report(r, c) BY DEF Promise!Report, Outcome, Reported, DownRanks
<1> QED BY <1>1 DEF Promise!Next, Promise!Ids, Ids

LEMMA PromiseEnd ==
  ASSUME NEW c \in Ids, Outcome[c] = "pending", UNCHANGED <<calls, Reported, DownRanks>>,
         \/ Outcome' = [Outcome EXCEPT ![c] = "ok"] /\ calls[c].wait \subseteq Reported[c]
         \/ Outcome' = [Outcome EXCEPT ![c] = "failed"] /\ DownRanks # {}
         \/ Outcome' = [Outcome EXCEPT ![c] = "timeout"]
  PROVE  Promise!Next
<1>1. Promise!Succeed(c) \/ Promise!Fail(c) \/ Promise!TimeOut(c)
  BY DEF Promise!Succeed, Promise!Fail, Promise!TimeOut, Outcome, Reported, DownRanks
<1> QED BY <1>1 DEF Promise!Next, Promise!Ids, Ids

LEMMA PromiseDown ==
  ASSUME NEW r \in World, DownRanks' = DownRanks \cup {r}, UNCHANGED <<calls, Outcome, Reported>>
  PROVE  Promise!Next
<1>1. Promise!GoDown(r) BY DEF Promise!GoDown, Outcome, Reported, DownRanks
<1> QED BY <1>1 DEF Promise!Next

LEMMA PromiseStutters ==
  ASSUME UNCHANGED <<calls, Outcome, Reported, DownRanks>>
  PROVE  UNCHANGED Promise!vars
BY DEF Promise!vars, Outcome, Reported, DownRanks

-----------------------------------------------------------------------------
(* Every step keeps the promise                                            *)

PromiseStep == Promise!Next \/ UNCHANGED Promise!vars

\* Steps that callers cannot see.
LEMMA UnseenStep ==
  ASSUME TypeInv, ReportsInv, UNCHANGED <<calls, call_state, call_pending, results, posted>>,
         \A q \in World : Down(q)' <=> Down(q)
  PROVE  ReportsInv' /\ PromiseStep
<1>1. Ids' = Ids /\ Outcome' = Outcome /\ Reported' = Reported BY DEF Ids, Outcome, Reported
<1>2. DownRanks' = DownRanks BY DEF DownRanks, Down
<1>3. PromiseStep BY <1>1, <1>2, PromiseStutters DEF PromiseStep
<1>4. \A m \in posted : m.rank \in World BY DEF TypeInv, CallsType, Messages
<1>5. ReportsInv' BY <1>1, <1>4 DEF ReportsInv
<1> QED BY <1>3, <1>5

\* Which steps leave a rank up or down as it was.
LEMMA DownSame ==
  ASSUME TypeInv
  PROVE  /\ \A r \in World, c \in Ids : TakeCommand(r, c) => \A q \in World : Down(q)' <=> Down(q)
         /\ \A r \in World : PickRefill(r) \/ PopMatching(r) \/ JoinOrDefer(r) \/ Exit(r) \/ PutResult(r)
              => \A q \in World : Down(q)' <=> Down(q)
         /\ \A g \in Groups : GroupStep(g) => \A q \in World : Down(q)' <=> Down(q)
<1>1. at \in [World -> Places] BY DEF TypeInv, RanksType
<1>2. ASSUME NEW r \in World, NEW a, at[r] \notin {"failing", "exiting", "dead"}, a \notin {"failing", "exiting", "dead"},
             at' = [at EXCEPT ![r] = a]
      PROVE  \A q \in World : Down(q)' <=> Down(q)
  BY <1>1, <1>2 DEF Down
<1>3. ASSUME NEW r \in World, NEW c \in Ids, TakeCommand(r, c) PROVE \A q \in World : Down(q)' <=> Down(q)
  <2>1. at[r] = "idle" BY <1>3 DEF TakeCommand
  <2>2. calls[c] \in Shapes BY DEF TypeInv, CallsType, Ids
  <2>3. PICK a \in {"exec", "refill", "posting"} : at' = [at EXCEPT ![r] = a]
    <3>1. CASE calls[c].op = "other" BY <1>3, <3>1 DEF TakeCommand
    <3>2. CASE calls[c].op = "rollout" /\ Group(r) \in calls[c].rows BY <1>3, <3>2 DEF TakeCommand
    <3>3. CASE calls[c].op = "rollout" /\ Group(r) \notin calls[c].rows BY <1>3, <3>3 DEF TakeCommand
    <3> QED BY <2>2, <3>1, <3>2, <3>3, ClusterAssumption
  <2> QED BY <1>2, <2>1, <2>3
<1>4. ASSUME NEW r \in World, PickRefill(r) PROVE \A q \in World : Down(q)' <=> Down(q)
  <2>1. at[r] = "refill" /\ at' = [at EXCEPT ![r] = "picked"] BY <1>4 DEF PickRefill
  <2> QED BY <1>2, <2>1
<1>5. ASSUME NEW r \in World, PopMatching(r) PROVE \A q \in World : Down(q)' <=> Down(q)
  <2>1. at[r] = "popping" /\ (at' = [at EXCEPT ![r] = "refilling"] \/ at' = at) BY <1>5 DEF PopMatching
  <2>2. CASE at' = at BY <2>2 DEF Down
  <2> QED BY <1>2, <2>1, <2>2
<1>6. ASSUME NEW r \in World, JoinOrDefer(r) PROVE \A q \in World : Down(q)' <=> Down(q)
  <2>1. at[r] = "refilling" BY <1>6 DEF JoinOrDefer
  <2>2. PICK a \in {"idle", "forward", "refill", "posting"} : at' = [at EXCEPT ![r] = a]
    <3>1. CASE ~Compatible(r, picked[r])
      <4>1. at' = [at EXCEPT ![r] = AfterRefill(r)] BY <1>6, <3>1 DEF JoinOrDefer
      <4> QED BY <4>1 DEF AfterRefill
    <3>2. CASE Compatible(r, picked[r]) /\ Group(r) \in calls[picked[r]].rows BY <1>6, <3>2 DEF JoinOrDefer
    <3>3. CASE Compatible(r, picked[r]) /\ Group(r) \notin calls[picked[r]].rows BY <1>6, <3>3 DEF JoinOrDefer
    <3> QED BY <3>1, <3>2, <3>3
  <2> QED BY <1>2, <2>1, <2>2
<1>7. ASSUME NEW r \in World, Exit(r) PROVE \A q \in World : Down(q)' <=> Down(q)
  BY <1>1, <1>7 DEF Exit, Down
<1>8. ASSUME NEW r \in World, PutResult(r) PROVE \A q \in World : Down(q)' <=> Down(q)
  <2>1. RankOk(r) BY DEF TypeInv
  <2>2. at[r] \in {"posting", "failing"} BY <1>8, <2>1 DEF PutResult, RankOk
  <2>3. PICK a : at' = [at EXCEPT ![r] = a] /\ a \in {at[r], next_at[r]} BY <1>8 DEF PutResult
  <2>4. CASE at[r] = "posting"
    <3>1. a \notin {"failing", "exiting", "dead"} BY <2>1, <2>3, <2>4 DEF RankOk
    <3> QED BY <1>2, <2>3, <2>4, <3>1
  <2>5. CASE at[r] = "failing"
    <3>1. a \in {"failing", "exiting"} BY <2>1, <2>3, <2>5 DEF RankOk
    <3> QED BY <1>1, <2>3, <2>5, <3>1 DEF Down
  <2> QED BY <2>2, <2>4, <2>5
<1>9. ASSUME NEW g \in Groups, Execute(g) PROVE \A q \in World : Down(q)' <=> Down(q)
  BY <1>9 DEF Execute, Members, Down
<1>10. ASSUME NEW g \in Groups, BroadcastHeader(g) PROVE \A q \in World : Down(q)' <=> Down(q)
  <2>1. PICK leader \in Members(g) :
        /\ at[leader] = "picked" /\ \A r \in Members(g) \ {leader} : at[r] = "refill"
        /\ at' = [r \in World |->
                IF Group(r) # g THEN at[r]
                ELSE IF picked[leader] = 0 THEN AfterRefill(r)
                ELSE IF r = leader THEN "refilling" ELSE "popping"]
    BY <1>10 DEF BroadcastHeader
  <2>2. ASSUME NEW q \in World PROVE Down(q)' <=> Down(q)
    <3>1. CASE Group(q) = g
      <4>1. ~Down(q) BY <2>1, <3>1 DEF Members, Down
      <4>2. AfterRefill(q) \in {"idle", "forward"} BY DEF AfterRefill
      <4>3. ~Down(q)' BY <2>1, <3>1, <4>2 DEF Down
      <4> QED BY <4>1, <4>3
    <3>2. CASE Group(q) # g BY <2>1, <3>2 DEF Down
    <3> QED BY <3>1, <3>2
  <2> QED BY <2>2
<1>11. ASSUME NEW g \in Groups, Forward(g) PROVE \A q \in World : Down(q)' <=> Down(q)
  <2>1. /\ \A q \in World : Group(q) = g => at[q] = "forward" /\ at'[q] \in {"refill", "posting"}
        /\ \A q \in World : Group(q) # g => at'[q] = at[q]
    BY <1>11 DEF Forward, Members
  <2> QED BY <2>1 DEF Down
<1> QED BY <1>3, <1>4, <1>5, <1>6, <1>7, <1>8, <1>9, <1>10, <1>11 DEF GroupStep

LEMMA CallPromise ==
  ASSUME TypeInv, ReportsInv, NEW s \in Shapes, Call(s)
  PROVE  ReportsInv' /\ PromiseStep
<1> DEFINE c == Len(calls) + 1
<1>1. /\ Len(calls) < MaxCalls /\ calls' = Append(calls, s) /\ call_state' = Append(call_state, "pending")
      /\ call_pending' = Append(call_pending, s.wait) /\ UNCHANGED <<results, posted, at>>
  BY DEF Call, work
<1>2. CallsType BY DEF TypeInv
<1>3. /\ Len(calls) \in Nat /\ Ids = 1..Len(calls) /\ Ids' = 1..c
      /\ \A d \in Ids : calls'[d] = calls[d]
      /\ calls'[c] = s
  BY <1>1, <1>2 DEF CallsType, Ids
<1>4. call_state \in Seq(Outcomes) /\ Len(call_state) = Len(calls)
  <2>1. call_state \in [1..Len(calls) -> Outcomes] BY <1>2, <1>3 DEF CallsType
  <2> QED BY <1>3, <2>1, SeqOfFunction
<1>5. call_pending \in Seq(SUBSET World) /\ Len(call_pending) = Len(calls)
  <2>1. call_pending \in [1..Len(calls) -> SUBSET World] BY <1>2, <1>3 DEF CallsType
  <2> QED BY <1>3, <2>1, SeqOfFunction
<1>6. call_state'[c] = "pending" /\ \A d \in Ids : call_state'[d] = call_state[d]
  BY <1>1, <1>3, <1>4
<1>7. call_pending'[c] = s.wait /\ \A d \in Ids : call_pending'[d] = call_pending[d]
  BY <1>1, <1>3, <1>5
<1>8. c \notin Ids /\ c \in Nat /\ Ids' = Ids \cup {c} BY <1>3
<1>9. \A r \in World : Result(r, c, TRUE) \notin posted
  <2>1. \A r \in World : Result(r, c, TRUE).id = c BY DEF Result
  <2> QED BY <1>2, <1>8, <2>1 DEF CallsType, Messages
<1> HIDE DEF c
<1>10. Outcome' = Append(Outcome, "pending")
  <2> DEFINE S == Outcomes
             new == [d \in 1..c |-> IF d = c THEN "pending" ELSE Outcome[d]]
  <2>1. Outcome \in [1..Len(calls) -> S] BY <1>2, <1>3 DEF Outcome, CallsType, Outcomes
  <2>2. Outcome \in Seq(S) /\ Len(Outcome) = Len(calls) BY <1>3, <2>1, SeqOfFunction
  <2>3. c = Len(calls) + 1 BY DEF c
  <2>4. Append(Outcome, "pending") = new
    <3>1. "pending" \in S BY DEF Outcomes
    <3> HIDE DEF S
    <3>2. Append(Outcome, "pending")
            = [d \in 1..Len(Outcome) + 1 |-> IF d = Len(Outcome) + 1 THEN "pending" ELSE Outcome[d]]
      BY <2>2, <3>1, AppendAsFunction
    <3> QED BY <2>2, <2>3, <3>2
  <2>5. Outcome' = [d \in 1..c |-> IF call_state'[d] = "exited" THEN "failed" ELSE call_state'[d]]
    BY <1>3 DEF Outcome
  <2>6. ASSUME NEW d \in 1..c
        PROVE  (IF call_state'[d] = "exited" THEN "failed" ELSE call_state'[d])
                 = IF d = c THEN "pending" ELSE Outcome[d]
    <3>1. CASE d = c BY <1>6, <3>1
    <3>2. CASE d # c
      <4>1. d \in Ids BY <1>3, <1>8, <3>2
      <4> QED BY <1>6, <3>2, <4>1 DEF Outcome
    <3> QED BY <3>1, <3>2
  <2> QED BY <2>4, <2>5, <2>6
<1>11. Reported' = Append(Reported, {})
  <2> DEFINE S == SUBSET World
             new == [d \in 1..c |-> IF d = c THEN {} ELSE Reported[d]]
  <2>1. Reported \in [1..Len(calls) -> S] BY <1>3 DEF Reported
  <2>2. Reported \in Seq(S) /\ Len(Reported) = Len(calls) BY <1>3, <2>1, SeqOfFunction
  <2>3. c = Len(calls) + 1 BY DEF c
  <2>4. Append(Reported, {}) = new
    <3>1. {} \in S OBVIOUS
    <3> HIDE DEF S
    <3>2. Append(Reported, {})
            = [d \in 1..Len(Reported) + 1 |-> IF d = Len(Reported) + 1 THEN {} ELSE Reported[d]]
      BY <2>2, <3>1, AppendAsFunction
    <3> QED BY <2>2, <2>3, <3>2
  <2>5. Reported' = [d \in 1..c |-> {r \in World : Result(r, d, TRUE) \in posted}]
    BY <1>1, <1>3 DEF Reported
  <2>6. ASSUME NEW d \in 1..c
        PROVE  {r \in World : Result(r, d, TRUE) \in posted} = IF d = c THEN {} ELSE Reported[d]
    <3>1. CASE d = c BY <1>9, <3>1
    <3>2. CASE d # c
      <4>1. d \in Ids BY <1>3, <1>8, <3>2
      <4> QED BY <3>2, <4>1 DEF Reported
    <3> QED BY <3>1, <3>2
  <2> QED BY <2>4, <2>5, <2>6
<1>12. DownRanks' = DownRanks BY <1>1 DEF DownRanks
<1>13. PromiseStep BY <1>1, <1>10, <1>11, <1>12, PromiseCall DEF PromiseStep
<1>14. ReportsInv'
  <2>1. ASSUME NEW d \in Ids', NEW r \in calls'[d].wait \ call_pending'[d] PROVE Result(r, d, TRUE) \in posted
    <3>1. CASE d = c BY <1>3, <1>7, <2>1, <3>1 DEF c
    <3>2. CASE d \in Ids BY <1>3, <1>7, <2>1, <3>2 DEF ReportsInv
    <3> QED BY <1>8, <3>1, <3>2
  <2> QED BY <1>1, <2>1 DEF ReportsInv, Down
<1> QED BY <1>13, <1>14

\* One call ends.
LEMMA OneOutcome ==
  ASSUME TypeInv, NEW c \in Ids, NEW o, UNCHANGED calls, call_state' = [call_state EXCEPT ![c] = o]
  PROVE  Outcome' = [Outcome EXCEPT ![c] = IF o = "exited" THEN "failed" ELSE o]
<1>1. Ids' = Ids BY DEF Ids
<1>2. call_state \in [Ids -> Outcomes] BY DEF TypeInv, CallsType
<1>3. \A d \in Ids : call_state'[d] = IF d = c THEN o ELSE call_state[d] BY <1>2
<1>4. DOMAIN Outcome = Ids BY DEF Outcome
<1>5. \A d \in Ids : Outcome'[d] = IF d = c THEN IF o = "exited" THEN "failed" ELSE o ELSE Outcome[d]
  BY <1>1, <1>3 DEF Outcome
<1> QED BY <1>1, <1>4, <1>5, ZenonT(30) DEF Outcome

\* What an end of a call leaves alone.
LEMMA EndFrame ==
  ASSUME UNCHANGED <<calls, posted, at>>
  PROVE  Ids' = Ids /\ Reported' = Reported /\ DownRanks' = DownRanks /\ \A q : Down(q)' <=> Down(q)
BY DEF Ids, Reported, DownRanks, Down

LEMMA TimeOutPromise ==
  ASSUME TypeInv, ReportsInv, NEW c \in Ids, CallTimesOut(c)
  PROVE  ReportsInv' /\ PromiseStep
<1>1. /\ call_state[c] = "pending" /\ call_state' = [call_state EXCEPT ![c] = "timeout"]
      /\ UNCHANGED <<calls, call_pending, results, posted, at>>
  BY DEF CallTimesOut, work
<1>2. Outcome' = [Outcome EXCEPT ![c] = "timeout"] /\ Outcome[c] = "pending" BY <1>1, OneOutcome DEF Outcome
<1>3. UNCHANGED <<calls, Reported, DownRanks>> BY <1>1, EndFrame
<1>4. PromiseStep BY <1>2, <1>3, PromiseEnd DEF PromiseStep
<1> QED BY <1>1, <1>4 DEF ReportsInv, Ids, Down

LEMMA PumpCheckPromise ==
  ASSUME TypeInv, ReportsInv, NEW c \in Ids, PumpCheck(c)
  PROVE  ReportsInv' /\ PromiseStep
<1>1. UNCHANGED <<calls, call_pending, results, posted, at>> BY DEF PumpCheck, work
<1>2. ReportsInv' BY <1>1 DEF ReportsInv, Ids, Down
<1>3. UNCHANGED <<calls, Reported, DownRanks>> BY <1>1, EndFrame
<1>4. CASE call_state[c] = "pending" /\ DeadPending(c)
  <2>1. call_state' = [call_state EXCEPT ![c] = "exited"] BY <1>4 DEF PumpCheck, Finish
  <2>2. Outcome' = [Outcome EXCEPT ![c] = "failed"] /\ Outcome[c] = "pending" BY <1>1, <1>4, <2>1, OneOutcome DEF Outcome
  <2>3. DownRanks # {}
    <3>1. PICK r \in call_pending[c] : at[r] = "dead" BY <1>4 DEF DeadPending, Dead
    <3>2. r \in World BY <3>1 DEF TypeInv, CallsType
    <3> QED BY <3>1, <3>2 DEF DownRanks
  <2>4. PromiseStep BY <1>3, <2>2, <2>3, PromiseEnd DEF PromiseStep
  <2> QED BY <1>2, <2>4
<1>5. CASE ~(call_state[c] = "pending" /\ DeadPending(c))
  <2>1. call_state' = call_state BY <1>5 DEF PumpCheck
  <2>2. UNCHANGED Outcome BY <1>1, <2>1 DEF Outcome, Ids
  <2> QED BY <1>2, <1>3, <2>2, PromiseStutters DEF PromiseStep
<1> QED BY <1>4, <1>5

LEMMA PumpResultPromise ==
  ASSUME TypeInv, ReportsInv, PumpResult
  PROVE  ReportsInv' /\ PromiseStep
<1> DEFINE m == Head(results)
           c == m.id
           left == call_pending[c] \ {m.rank}
<1>1. /\ results # << >> /\ results' = Tail(results) /\ UNCHANGED <<calls, posted, at>>
      /\ CASE call_state[c] # "pending" -> UNCHANGED <<call_state, call_pending>>
           [] call_state[c] = "pending" /\ ~m.ok ->
                call_state' = [call_state EXCEPT ![c] = "failed"] /\ UNCHANGED call_pending
           [] call_state[c] = "pending" /\ m.ok ->
                /\ call_pending' = [call_pending EXCEPT ![c] = left]
                /\ call_state' = IF left = {} THEN [call_state EXCEPT ![c] = "ok"] ELSE call_state
  BY DEF PumpResult, Finish, AllReported, work
<1>2. CallsType BY DEF TypeInv
<1>3. results \in Seq(Messages) BY <1>2 DEF CallsType
<1>4. /\ m \in Messages /\ m = results[1] /\ results' \in Seq(Messages)
      /\ Len(results) \in Nat \ {0} /\ Len(results') = Len(results) - 1
      /\ \A i \in 1..Len(results) - 1 : results'[i] = results[i + 1]
  BY <1>1, <1>3, HeadAndTail
<1>5. m \in posted BY <1>4 DEF ReportsInv
<1>6. \A i \in 1..Len(results') : results'[i] \in posted
  <2> SUFFICES ASSUME NEW i \in 1..Len(results') PROVE results'[i] \in posted OBVIOUS
  <2>1. i + 1 \in 1..Len(results) /\ results'[i] = results[i + 1] BY <1>4
  <2> QED BY <2>1 DEF ReportsInv
<1>7. c \in Ids /\ m.rank \in World /\ m.ok \in BOOLEAN BY <1>4 DEF Messages
<1> HIDE DEF m
<1>8. UNCHANGED <<calls, Reported, DownRanks>> /\ Ids' = Ids /\ \A q : Down(q)' <=> Down(q) BY <1>1, EndFrame
<1>9. CASE call_state[c] # "pending"
  <2>1. UNCHANGED <<call_state, call_pending>> BY <1>1, <1>9
  <2>2. UNCHANGED Outcome BY <1>8, <2>1 DEF Outcome
  <2>3. PromiseStep BY <1>8, <2>2, PromiseStutters DEF PromiseStep
  <2> QED BY <1>1, <1>6, <1>8, <2>1, <2>3 DEF ReportsInv
<1>10. CASE call_state[c] = "pending" /\ ~m.ok
  <2>1. call_state' = [call_state EXCEPT ![c] = "failed"] /\ UNCHANGED call_pending BY <1>1, <1>10
  <2>2. Outcome' = [Outcome EXCEPT ![c] = "failed"] /\ Outcome[c] = "pending"
    BY <1>1, <1>7, <1>10, <2>1, OneOutcome DEF Outcome
  <2>3. DownRanks # {} BY <1>5, <1>7, <1>10 DEF ReportsInv, Down, DownRanks
  <2>4. PromiseStep BY <1>7, <1>8, <2>2, <2>3, PromiseEnd DEF PromiseStep
  <2> QED BY <1>1, <1>6, <1>8, <2>1, <2>4 DEF ReportsInv
<1>11. CASE call_state[c] = "pending" /\ m.ok
  <2>1. /\ call_pending' = [call_pending EXCEPT ![c] = left]
        /\ call_state' = IF left = {} THEN [call_state EXCEPT ![c] = "ok"] ELSE call_state
    BY <1>1, <1>11
  <2>2. Result(m.rank, c, TRUE) = m
    <3>1. m.ok = TRUE BY <1>7, <1>11
    <3>2. m = [rank |-> m.rank, id |-> m.id, ok |-> m.ok] BY <1>4 DEF Messages
    <3> QED BY <3>1, <3>2 DEF Result
  <2>3. ASSUME NEW d \in Ids, NEW r \in calls[d].wait \ call_pending'[d] PROVE Result(r, d, TRUE) \in posted
    <3>1. CASE d = c /\ r = m.rank BY <1>5, <2>2, <3>1
    <3>2. CASE ~(d = c /\ r = m.rank)
      <4>1. r \notin call_pending[d] BY <1>2, <1>7, <2>1, <2>3, <3>2 DEF CallsType
      <4> QED BY <2>3, <4>1 DEF ReportsInv
    <3> QED BY <3>1, <3>2
  <2>4. ReportsInv' BY <1>1, <1>6, <1>8, <2>3 DEF ReportsInv
  <2>5. CASE left = {}
    <3>1. call_state' = [call_state EXCEPT ![c] = "ok"] BY <2>1, <2>5
    <3>2. Outcome' = [Outcome EXCEPT ![c] = "ok"] /\ Outcome[c] = "pending"
      BY <1>1, <1>7, <1>11, <3>1, OneOutcome DEF Outcome
    <3>3. call_pending'[c] = {} BY <1>2, <1>7, <2>1, <2>5 DEF CallsType
    <3>4. calls[c] \in Shapes BY <1>2, <1>7 DEF CallsType, Ids
    <3>5. calls[c].wait \subseteq World BY <3>4, ClusterAssumption
    <3>6. calls[c].wait \subseteq Reported[c] BY <1>7, <2>3, <3>3, <3>5 DEF Reported
    <3>7. PromiseStep BY <1>7, <1>8, <3>2, <3>6, PromiseEnd DEF PromiseStep
    <3> QED BY <2>4, <3>7
  <2>6. CASE left # {}
    <3>1. UNCHANGED Outcome BY <1>8, <2>1, <2>6 DEF Outcome
    <3> QED BY <1>8, <2>4, <3>1, PromiseStutters DEF PromiseStep
  <2> QED BY <2>5, <2>6
<1> QED BY <1>9, <1>10, <1>11

LEMMA PutResultPromise ==
  ASSUME TypeInv, ReportsInv, NEW r \in World, PutResult(r)
  PROVE  ReportsInv' /\ PromiseStep
<1> DEFINE m == Head(outbox[r])
           c == m.id
<1>1. /\ outbox[r] # << >> /\ results' = Append(results, m) /\ posted' = posted \cup {m}
      /\ UNCHANGED <<calls, call_state, call_pending>>
  BY DEF PutResult, callers
<1>2. CallsType /\ RanksType /\ RankOk(r) BY DEF TypeInv
<1>3. outbox[r] \in Seq(Messages) BY <1>2 DEF RanksType
<1>4. m \in Messages /\ m = outbox[r][1] /\ Len(outbox[r]) \in Nat \ {0} BY <1>1, <1>3, HeadAndTail
<1>5. c \in Ids /\ m.rank = r /\ m.ok = (at[r] = "posting")
  BY <1>2, <1>4 DEF RankOk, Messages
<1>6. at[r] \in {"posting", "failing"} BY <1>1, <1>2 DEF RankOk
<1>7. m = [rank |-> r, id |-> c, ok |-> m.ok] BY <1>4, <1>5 DEF Messages
<1> HIDE DEF m
<1>8. \A q \in World : Down(q)' <=> Down(q) BY DownSame
<1>9. DownRanks' = DownRanks BY <1>8 DEF DownRanks, Down
<1>10. Ids' = Ids /\ UNCHANGED Outcome BY <1>1 DEF Ids, Outcome
<1>11. ReportsInv'
  <2>1. results' \in Seq(Messages) /\ Len(results') = Len(results) + 1 /\ results'[Len(results) + 1] = m
        /\ \A i \in 1..Len(results) : results'[i] = results[i]
    BY <1>1, <1>2, <1>4 DEF CallsType
  <2>2. ASSUME NEW i \in 1..Len(results') PROVE results'[i] \in posted'
    <3>1. Len(results) \in Nat BY <1>2 DEF CallsType
    <3>2. i = Len(results) + 1 \/ i \in 1..Len(results) BY <2>1, <3>1
    <3> QED BY <1>1, <2>1, <3>2 DEF ReportsInv
  <2>3. ASSUME NEW n \in posted', ~n.ok PROVE Down(n.rank)'
    <3>1. CASE n = m
      <4>1. Down(r) BY <1>5, <1>6, <2>3, <3>1 DEF Down
      <4> QED BY <1>5, <1>8, <3>1, <4>1
    <3>2. CASE n \in posted
      <4>1. n.rank \in World /\ Down(n.rank) BY <1>2, <2>3, <3>2 DEF ReportsInv, CallsType, Messages
      <4> QED BY <1>8, <4>1
    <3> QED BY <1>1, <3>1, <3>2
  <2> QED BY <1>1, <1>10, <2>2, <2>3 DEF ReportsInv
<1>12. \A d \in Ids, q \in World : Result(q, d, TRUE) = m <=> (q = r /\ d = c /\ at[r] = "posting")
  <2> SUFFICES ASSUME NEW d \in Ids, NEW q \in World
               PROVE  Result(q, d, TRUE) = m <=> (q = r /\ d = c /\ at[r] = "posting")
    OBVIOUS
  <2>1. Result(q, d, TRUE).rank = q /\ Result(q, d, TRUE).id = d /\ Result(q, d, TRUE).ok = TRUE BY DEF Result
  <2>2. ASSUME q = r, d = c, at[r] = "posting" PROVE Result(q, d, TRUE) = m
    <3>1. m.ok = TRUE BY <1>5, <2>2
    <3> QED BY <1>7, <2>2, <3>1 DEF Result
  <2> QED BY <1>5, <2>1, <2>2
<1>13. CASE at[r] = "posting" /\ Result(r, c, TRUE) \notin posted
  <2>1. r \notin DownRanks /\ r \notin Reported[c] BY <1>5, <1>13 DEF DownRanks, Reported
  <2>2. Reported' = [Reported EXCEPT ![c] = @ \cup {r}]
    <3>1. Reported' = [d \in Ids |-> {q \in World : Result(q, d, TRUE) \in posted \cup {m}}]
      BY <1>1, <1>10 DEF Reported
    <3>2. ASSUME NEW d \in Ids
          PROVE  {q \in World : Result(q, d, TRUE) \in posted \cup {m}}
                   = IF d = c THEN Reported[d] \cup {r} ELSE Reported[d]
      BY <1>12, <1>13 DEF Reported
    <3>3. DOMAIN Reported = Ids BY DEF Reported
    <3>4. [Reported EXCEPT ![c] = @ \cup {r}] = [d \in Ids |-> IF d = c THEN Reported[d] \cup {r} ELSE Reported[d]]
      BY <3>3
    <3> QED BY <3>1, <3>2, <3>4
  <2>3. PromiseStep BY <1>1, <1>5, <1>9, <1>10, <2>1, <2>2, PromiseReport DEF PromiseStep
  <2> QED BY <1>11, <2>3
<1>14. CASE ~(at[r] = "posting" /\ Result(r, c, TRUE) \notin posted)
  <2>1. \A d \in Ids, q \in World : Result(q, d, TRUE) \in posted' <=> Result(q, d, TRUE) \in posted
    BY <1>1, <1>12, <1>14
  <2>2. Reported' = Reported BY <1>10, <2>1 DEF Reported
  <2> QED BY <1>1, <1>9, <1>10, <1>11, <2>2, PromiseStutters DEF PromiseStep
<1> QED BY <1>13, <1>14

\* A rank fails or is killed.
LEMMA DownPromise ==
  ASSUME TypeInv, ReportsInv, NEW r \in World, Raise(r) \/ Killed(r)
  PROVE  ReportsInv' /\ PromiseStep
<1>1. UNCHANGED <<calls, call_state, call_pending, results, posted>> BY DEF Raise, Killed, callers
<1>2. PICK a \in {"failing", "dead"} : at' = [at EXCEPT ![r] = a] BY DEF Raise, Killed
<1>3. at \in [World -> Places] BY DEF TypeInv, RanksType
<1>4. \A q \in World : Down(q)' <=> Down(q) \/ q = r BY <1>2, <1>3 DEF Down
<1>5. DownRanks' = DownRanks \cup {r} BY <1>4 DEF DownRanks, Down
<1>6. Ids' = Ids /\ UNCHANGED <<calls, Outcome, Reported>> BY <1>1 DEF Ids, Outcome, Reported
<1>7. PromiseStep BY <1>5, <1>6, PromiseDown DEF PromiseStep
<1>8. \A m \in posted : m.rank \in World BY DEF TypeInv, CallsType, Messages
<1> QED BY <1>1, <1>4, <1>6, <1>7, <1>8 DEF ReportsInv

LEMMA NextPromise ==
  ASSUME TypeInv, ReportsInv, [Next]_vars
  PROVE  ReportsInv' /\ PromiseStep
<1>1. ASSUME NEW s \in Shapes, Call(s) PROVE ReportsInv' /\ PromiseStep BY <1>1, CallPromise
<1>2. CASE SenderStep
  <2>1. UNCHANGED <<calls, call_state, call_pending, results, posted, at>>
    BY <1>2 DEF SenderStep, TakeLock, PutCommand, callers, work
  <2> QED BY <2>1, UnseenStep DEF Down
<1>3. CASE PumpStep
  <2>1. CASE PumpEmpty
    <3>1. UNCHANGED <<calls, call_state, call_pending, results, posted, at>>
      BY <2>1 DEF PumpEmpty, callers, work
    <3> QED BY <3>1, UnseenStep DEF Down
  <2> QED BY <1>3, <2>1, PumpResultPromise, PumpCheckPromise DEF PumpStep
<1>4. ASSUME NEW r \in World, RankStep(r) PROVE ReportsInv' /\ PromiseStep
  <2>1. ASSUME NEW c \in Ids, TakeCommand(r, c) PROVE ReportsInv' /\ PromiseStep
    <3>1. UNCHANGED <<calls, call_state, call_pending, results, posted>> BY <2>1 DEF TakeCommand, callers
    <3> QED BY <2>1, <3>1, DownSame, UnseenStep
  <2>2. CASE PickRefill(r) \/ PopMatching(r) \/ JoinOrDefer(r) \/ Exit(r)
    <3>1. UNCHANGED <<calls, call_state, call_pending, results, posted>>
      BY <2>2 DEF PickRefill, PopMatching, JoinOrDefer, Exit, callers
    <3>2. \A q \in World : Down(q)' <=> Down(q) BY <2>2, DownSame
    <3> QED BY <3>1, <3>2, UnseenStep
  <2>3. CASE PeerLost(r) BY <2>3, FailingRanks, DownPromise
  <2> QED BY <1>4, <2>1, <2>2, <2>3, PutResultPromise DEF RankStep
<1>5. ASSUME NEW g \in Groups, GroupStep(g) PROVE ReportsInv' /\ PromiseStep
  <2>1. UNCHANGED <<calls, call_state, call_pending, results, posted>>
    BY <1>5 DEF GroupStep, Execute, BroadcastHeader, Forward, callers
  <2> QED BY <1>5, <2>1, DownSame, UnseenStep
<1>6. CASE Fault
  <2>1. ASSUME NEW r \in World, WorkerRaises(r) \/ PopTimesOut(r) PROVE ReportsInv' /\ PromiseStep
    BY <2>1, FailingRanks, DownPromise
  <2> QED BY <1>6, <2>1, DownPromise, TimeOutPromise DEF Fault
<1>7. CASE Quiescent \/ UNCHANGED vars
  <2>1. UNCHANGED <<calls, call_state, call_pending, results, posted, at>>
    BY <1>7 DEF Quiescent, vars, callers, work
  <2> QED BY <2>1, UnseenStep DEF Down
<1> QED BY <1>1, <1>2, <1>3, <1>4, <1>5, <1>6, <1>7 DEF Next

LEMMA InitPromise == Init => ReportsInv /\ Promise!Init
<1> SUFFICES ASSUME Init PROVE ReportsInv /\ Promise!Init OBVIOUS
<1>1. Ids = {} BY DEF Init, Ids
<1>2. ReportsInv BY <1>1 DEF Init, ReportsInv
<1>3. Outcome = << >> /\ Reported = << >> BY <1>1 DEF Outcome, Reported
<1>4. DownRanks = {} BY DEF Init, DownRanks
<1>5. calls = << >> BY DEF Init
<1> QED BY <1>2, <1>3, <1>4, <1>5 DEF Promise!Init, Outcome, Reported, DownRanks

\* The cluster does what ClusterCalls says of call and call_async: a call
\* succeeds only when all the ranks it waits for have posted a success, and fails
\* only when a worker has raised or died.
THEOREM CallsKeepTheirPromise == Spec => KeepsPromise
<1>1. Init => TypeInv /\ ReportsInv /\ Promise!Init BY InitTypes, InitPromise
<1>2. TypeInv /\ ReportsInv /\ [Next]_vars => TypeInv' /\ ReportsInv' /\ [Promise!Next]_(Promise!vars)
  BY NextTypes, NextPromise DEF PromiseStep
<1> QED BY <1>1, <1>2, PTL DEF Spec, KeepsPromise, Promise!Spec

-----------------------------------------------------------------------------
(* Scripts                                                                 *)

\* A script is a sequence that begins with what was done.
LEMMA ScriptFacts ==
  ASSUME NEW X, NEW done \in Seq(X), NEW late \in Seq(X), NEW sent \in Seq(X),
         Len(done) + Len(late) <= Len(sent)
  PROVE  /\ ScriptOf(done, late, sent) \in [1..Len(sent) -> X]
         /\ \A i \in 1..Len(done) : i \in 1..Len(sent) /\ ScriptOf(done, late, sent)[i] = done[i]
         /\ \A i \in 1..Len(late) : ScriptOf(done, late, sent)[Len(done) + i] = late[i]
         /\ \A i \in Len(done) + Len(late) + 1 .. Len(sent) : ScriptOf(done, late, sent)[i] = sent[i]
<1> PICK a \in Nat, b \in Nat, n \in Nat : a = Len(done) /\ b = Len(late) /\ n = Len(sent) OBVIOUS
<1>1. \A i \in 1..n : ScriptOf(done, late, sent)[i] =
            IF i <= a THEN done[i] ELSE IF i <= a + b THEN late[i - a] ELSE sent[i]
  BY DEF ScriptOf
<1>2. /\ \A i \in 1..a : done[i] \in X
      /\ \A i \in 1..b : late[i] \in X
      /\ \A i \in 1..n : sent[i] \in X
  OBVIOUS
<1>3. ASSUME NEW i \in 1..n PROVE ScriptOf(done, late, sent)[i] \in X
  <2>1. CASE i <= a BY <1>1, <1>2, <2>1
  <2>2. CASE i > a /\ i <= a + b
    <3>0. i - a \in 1..b BY <2>2
    <3>1. PICK j \in 1..b : j = i - a BY <3>0, Zenon
    <3>2. ScriptOf(done, late, sent)[i] = late[i - a] BY <1>1, <2>2
    <3>3. late[j] \in X BY <1>2
    <3> QED BY <3>1, <3>2, <3>3, Zenon
  <2>3. CASE i > a + b BY <1>1, <1>2, <2>3
  <2> QED BY <2>1, <2>2, <2>3
<1>4. ScriptOf(done, late, sent) \in [1..n -> X] BY <1>3 DEF ScriptOf
<1>5. ASSUME NEW i \in 1..a PROVE i \in 1..n /\ ScriptOf(done, late, sent)[i] = done[i] BY <1>1
<1>6. ASSUME NEW i \in 1..b PROVE ScriptOf(done, late, sent)[a + i] = late[i]
  <2>1. a + i \in 1..n /\ ~(a + i <= a) /\ a + i <= a + b /\ (a + i) - a = i OBVIOUS
  <2> QED BY <1>1, <2>1
<1>7. ASSUME NEW i \in a + b + 1 .. n PROVE ScriptOf(done, late, sent)[i] = sent[i]
  <2>1. i \in 1..n /\ ~(i <= a) /\ ~(i <= a + b) OBVIOUS
  <2> QED BY <1>1, <2>1
<1> QED BY <1>4, <1>5, <1>6, <1>7

\* One more broadcast.
LEMMA ScriptGrows ==
  ASSUME NEW X, NEW done \in Seq(X), NEW late \in Seq(X), NEW sent \in Seq(X), NEW c \in X,
         Len(done) + Len(late) <= Len(sent)
  PROVE  ScriptOf(done, late, Append(sent, c)) = Append(ScriptOf(done, late, sent), c)
<1> DEFINE more == Append(sent, c)
           s == ScriptOf(done, late, sent)
           t == ScriptOf(done, late, more)
           u == Append(s, c)
<1> PICK n \in Nat : n = Len(sent) OBVIOUS
<1>1. more \in Seq(X) /\ Len(more) = n + 1 /\ more[n + 1] = c /\ \A i \in 1..n : more[i] = sent[i] OBVIOUS
<1>2. s \in [1..n -> X] BY ScriptFacts
<1>3. s \in Seq(X) /\ Len(s) = n BY <1>2, SeqOfFunction
<1> HIDE DEF s
<1>4. u \in Seq(X) /\ Len(u) = n + 1 /\ u[n + 1] = c /\ \A i \in 1..n : u[i] = s[i] BY <1>3
<1>5. Len(done) \in Nat /\ Len(late) \in Nat /\ Len(done) + Len(late) <= n OBVIOUS
<1>6. Len(done) + Len(late) <= Len(more) BY <1>1, <1>5
<1> HIDE DEF more
<1>7. t \in [1..n + 1 -> X]
  <2>1. t \in [1..Len(more) -> X] BY <1>1, <1>6, ScriptFacts
  <2> QED BY <1>1, <2>1
<1>8. ASSUME NEW i \in 1..n + 1 PROVE t[i] = u[i]
  <2>1. t[i] = IF i <= Len(done) THEN done[i]
               ELSE IF i <= Len(done) + Len(late) THEN late[i - Len(done)] ELSE more[i]
    BY <1>1 DEF ScriptOf
  <2>2. CASE i = n + 1
    <3>1. ~(i <= Len(done)) /\ ~(i <= Len(done) + Len(late)) BY <1>5, <2>2
    <3>2. t[i] = more[i] BY <2>1, <3>1
    <3> QED BY <1>1, <1>4, <2>2, <3>2
  <2>3. CASE i # n + 1
    <3>1. i \in 1..n BY <2>3
    <3>2. s[i] = IF i <= Len(done) THEN done[i]
                 ELSE IF i <= Len(done) + Len(late) THEN late[i - Len(done)] ELSE sent[i]
      BY <3>1 DEF s, ScriptOf
    <3>3. more[i] = sent[i] /\ u[i] = s[i] BY <1>1, <1>4, <3>1
    <3> QED BY <2>1, <3>2, <3>3
  <2> QED BY <2>2, <2>3
<1>9. u \in [1..n + 1 -> X] BY <1>4, SeqIsFunction
<1> HIDE DEF t, u
<1>10. t = u BY <1>7, <1>8, <1>9
<1> QED BY <1>10 DEF t, u, more, s

\* Two scripts of the same commands, place by place.
LEMMA SameScript ==
  ASSUME NEW X, NEW sent \in Seq(X), NEW d1 \in Seq(X), NEW l1 \in Seq(X), NEW d2 \in Seq(X), NEW l2 \in Seq(X),
         Len(d1) + Len(l1) <= Len(sent), Len(d2) + Len(l2) <= Len(sent),
         \A i \in 1..Len(sent) : ScriptOf(d1, l1, sent)[i] = ScriptOf(d2, l2, sent)[i]
  PROVE  ScriptOf(d1, l1, sent) = ScriptOf(d2, l2, sent)
<1>1. ScriptOf(d1, l1, sent) \in [1..Len(sent) -> X] BY ScriptFacts
<1>2. ScriptOf(d2, l2, sent) \in [1..Len(sent) -> X] BY ScriptFacts
<1> QED BY <1>1, <1>2

\* The next command that is not put off is the next that was sent.
LEMMA ScriptTakesSent ==
  ASSUME NEW X, NEW done \in Seq(X), NEW sent \in Seq(X), Len(done) + 1 <= Len(sent)
  PROVE  ScriptOf(Append(done, sent[Len(done) + 1]), << >>, sent) = ScriptOf(done, << >>, sent)
<1> PICK a \in Nat, n \in Nat : a = Len(done) /\ n = Len(sent) OBVIOUS
<1>1. PICK c \in X : c = sent[a + 1] OBVIOUS
<1>2. << >> \in Seq(X) /\ Len(<< >>) = 0 OBVIOUS
<1>3. Append(done, c) \in Seq(X) OBVIOUS
<1>4. PICK more \in Seq(X) : more = Append(done, c) BY <1>3, Zenon
<1>5. Len(more) = a + 1 /\ more[a + 1] = c /\ \A i \in 1..a : more[i] = done[i] BY <1>4
<1>6. ASSUME NEW i \in 1..n PROVE ScriptOf(more, << >>, sent)[i] = ScriptOf(done, << >>, sent)[i]
  <2>1. ScriptOf(more, << >>, sent)[i] = IF i <= a + 1 THEN more[i] ELSE sent[i] BY <1>2, <1>5 DEF ScriptOf
  <2>2. ScriptOf(done, << >>, sent)[i] = IF i <= a THEN done[i] ELSE sent[i] BY <1>2 DEF ScriptOf
  <2>3. i <= a \/ i = a + 1 \/ i > a + 1 OBVIOUS
  <2> QED BY <1>1, <1>5, <2>1, <2>2, <2>3
<1>7. PICK none \in Seq(X) : none = << >> BY <1>2, Zenon
<1>8. Len(more) + Len(none) <= Len(sent) /\ Len(done) + Len(none) <= Len(sent) BY <1>2, <1>5, <1>7
<1>9. \A i \in 1..Len(sent) : ScriptOf(more, none, sent)[i] = ScriptOf(done, none, sent)[i] BY <1>6, <1>7
<1>10. ScriptOf(more, none, sent) = ScriptOf(done, none, sent) BY <1>8, <1>9, SameScript
<1> QED BY <1>1, <1>4, <1>7, <1>10

\* The first command that was put off is the next.
LEMMA ScriptTakesLate ==
  ASSUME NEW X, NEW done \in Seq(X), NEW late \in Seq(X), NEW sent \in Seq(X), late # << >>,
         Len(done) + Len(late) <= Len(sent)
  PROVE  ScriptOf(Append(done, Head(late)), Tail(late), sent) = ScriptOf(done, late, sent)
<1> PICK a \in Nat, n \in Nat : a = Len(done) /\ n = Len(sent) OBVIOUS
<1>1. Head(late) \in X /\ Head(late) = late[1] /\ Tail(late) \in Seq(X) /\ Len(late) \in Nat \ {0}
      /\ Len(Tail(late)) = Len(late) - 1 /\ \A i \in 1..Len(late) - 1 : Tail(late)[i] = late[i + 1]
  BY HeadAndTail
<1>2. PICK c \in X : c = Head(late) BY <1>1, Zenon
<1>3. PICK rest \in Seq(X) : rest = Tail(late) BY <1>1, Zenon
<1>4. PICK b \in Nat : b + 1 = Len(late)
  <2>1. \A k \in Nat \ {0} : k - 1 \in Nat /\ (k - 1) + 1 = k OBVIOUS
  <2> QED BY <1>1, <2>1
<1>5. Len(rest) = b /\ \A i \in 1..b : rest[i] = late[i + 1]
  <2>1. Len(late) - 1 = b BY <1>4
  <2> QED BY <1>1, <1>3, <2>1, Zenon
<1>6. Append(done, c) \in Seq(X) OBVIOUS
<1>7. PICK more \in Seq(X) : more = Append(done, c) BY <1>6, Zenon
<1>8. Len(more) = a + 1 /\ more[a + 1] = c /\ \A i \in 1..a : more[i] = done[i] BY <1>7
<1>9. ASSUME NEW i \in 1..n PROVE ScriptOf(more, rest, sent)[i] = ScriptOf(done, late, sent)[i]
  <2>1. ScriptOf(more, rest, sent)[i] =
          IF i <= a + 1 THEN more[i] ELSE IF i <= a + 1 + b THEN rest[i - (a + 1)] ELSE sent[i]
    BY <1>5, <1>8 DEF ScriptOf
  <2>2. ScriptOf(done, late, sent)[i] =
          IF i <= a THEN done[i] ELSE IF i <= a + (b + 1) THEN late[i - a] ELSE sent[i]
    BY <1>4 DEF ScriptOf
  <2>3. CASE i <= a BY <1>8, <2>1, <2>2, <2>3
  <2>4. CASE i = a + 1
    <3>1. i - a = 1 BY <2>4
    <3> QED BY <1>1, <1>2, <1>8, <2>1, <2>2, <2>4, <3>1
  <2>5. CASE i > a + 1 /\ i <= a + 1 + b
    <3>1. i - (a + 1) \in 1..b /\ (i - (a + 1)) + 1 = i - a BY <2>5
    <3>2. ScriptOf(more, rest, sent)[i] = rest[i - (a + 1)] BY <2>1, <2>5
    <3>3. ScriptOf(done, late, sent)[i] = late[i - a] BY <2>2, <2>5
    <3>4. rest[i - (a + 1)] = late[(i - (a + 1)) + 1] BY <1>5, <3>1
    <3> QED BY <3>1, <3>2, <3>3, <3>4
  <2>6. CASE i > a + 1 + b BY <2>1, <2>2, <2>6
  <2> QED BY <2>3, <2>4, <2>5, <2>6
<1>10. Len(more) + Len(rest) <= Len(sent) BY <1>4, <1>5, <1>8
<1>11. ScriptOf(more, rest, sent) = ScriptOf(done, late, sent) BY <1>9, <1>10, SameScript
<1> QED BY <1>2, <1>3, <1>7, <1>11

\* A command that is put off is the next that was sent.
LEMMA ScriptDefers ==
  ASSUME NEW X, NEW done \in Seq(X), NEW late \in Seq(X), NEW sent \in Seq(X),
         Len(done) + Len(late) + 1 <= Len(sent)
  PROVE  ScriptOf(done, Append(late, sent[Len(done) + Len(late) + 1]), sent) = ScriptOf(done, late, sent)
<1>0. PICK a \in Nat, b \in Nat, n \in Nat : a = Len(done) /\ b = Len(late) /\ n = Len(sent) OBVIOUS
<1>1. PICK c \in X : c = sent[a + b + 1] BY <1>0
<1>2. Append(late, c) \in Seq(X) OBVIOUS
<1>3. PICK more \in Seq(X) : more = Append(late, c) BY <1>2, Zenon
<1>4. Len(more) = b + 1 /\ more[b + 1] = c /\ \A i \in 1..b : more[i] = late[i] BY <1>0, <1>3
<1>5. ASSUME NEW i \in 1..Len(sent) PROVE ScriptOf(done, more, sent)[i] = ScriptOf(done, late, sent)[i]
  <2>1. ScriptOf(done, more, sent)[i] =
          IF i <= a THEN done[i] ELSE IF i <= a + (b + 1) THEN more[i - a] ELSE sent[i]
    BY <1>0, <1>4 DEF ScriptOf
  <2>2. ScriptOf(done, late, sent)[i] =
          IF i <= a THEN done[i] ELSE IF i <= a + b THEN late[i - a] ELSE sent[i]
    BY <1>0 DEF ScriptOf
  <2>3. CASE i <= a BY <1>0, <2>1, <2>2, <2>3
  <2>4. CASE i > a /\ i <= a + b
    <3>0. i - a \in 1..b BY <1>0, <2>4
    <3>1. PICK j \in 1..b : j = i - a BY <3>0, Zenon
    <3>2. ScriptOf(done, more, sent)[i] = more[i - a] /\ ScriptOf(done, late, sent)[i] = late[i - a]
      BY <1>0, <2>1, <2>2, <2>4
    <3>3. more[j] = late[j] BY <1>4
    <3> QED BY <3>1, <3>2, <3>3, Zenon
  <2>5. CASE i = a + b + 1
    <3>1. i - a = b + 1 BY <1>0, <2>5
    <3> QED BY <1>0, <1>1, <1>4, <2>1, <2>2, <2>5, <3>1
  <2>6. CASE i > a + b + 1 BY <1>0, <2>1, <2>2, <2>6
  <2>7. i \in Nat /\ a \in Nat /\ b \in Nat BY <1>0
  <2> QED BY <2>3, <2>4, <2>5, <2>6, <2>7
<1>6. Len(done) + Len(more) <= Len(sent) /\ Len(done) + Len(late) <= Len(sent) BY <1>0, <1>4
<1>7. ScriptOf(done, more, sent) = ScriptOf(done, late, sent) BY <1>5, <1>6, SameScript
<1> QED BY <1>0, <1>1, <1>3, <1>7

\* Ranks that are equally far in the same script have put the same things off.
LEMMA SameLate ==
  ASSUME NEW X, NEW sent \in Seq(X), NEW d1 \in Seq(X), NEW l1 \in Seq(X), NEW d2 \in Seq(X), NEW l2 \in Seq(X),
         Len(d1) = Len(d2), Len(l1) = Len(l2), Len(d1) + Len(l1) <= Len(sent),
         ScriptOf(d1, l1, sent) = ScriptOf(d2, l2, sent)
  PROVE  d1 = d2 /\ l1 = l2
<1>0. Len(d2) + Len(l2) <= Len(sent) OBVIOUS
<1> DEFINE Begins(d, l) == /\ \A j \in 1..Len(d) : ScriptOf(d, l, sent)[j] = d[j]
                           /\ \A j \in 1..Len(l) : ScriptOf(d, l, sent)[Len(d) + j] = l[j]
<1>3. \A d, l \in Seq(X) : Len(d) + Len(l) <= Len(sent) => Begins(d, l) BY ScriptFacts
<1>4. Begins(d1, l1) /\ Begins(d2, l2) BY <1>0, <1>3
<1>1. ASSUME NEW i \in 1..Len(d1) PROVE d1[i] = d2[i]
  <2>1. \A j \in 1..Len(d1) : ScriptOf(d1, l1, sent)[j] = d1[j] BY <1>4
  <2>2. \A j \in 1..Len(d2) : ScriptOf(d2, l2, sent)[j] = d2[j] BY <1>4
  <2> QED BY <2>1, <2>2
<1>2. ASSUME NEW i \in 1..Len(l1) PROVE l1[i] = l2[i]
  <2>1. \A j \in 1..Len(l1) : ScriptOf(d1, l1, sent)[Len(d1) + j] = l1[j] BY <1>4
  <2>2. \A j \in 1..Len(l2) : ScriptOf(d2, l2, sent)[Len(d2) + j] = l2[j] BY <1>4
  <2> QED BY <2>1, <2>2
<1> QED BY <1>1, <1>2, SameSequence

-----------------------------------------------------------------------------
(* The queues carry what was broadcast, in order                           *)

\* The counts of a rank, as sums.
LEMMA RankNumbers ==
  ASSUME TypeInv, NEW r \in World
  PROVE  \E e \in Nat, d \in Nat, k \in 0..1, f \in 0..1, j \in 0..1 :
           /\ e = Len(executed[r]) /\ d = Len(deferred[r])
           /\ Taken(r) = e + d + k /\ (k = 1 <=> InHand(r))
           /\ Had(r) = e + d + f /\ (f = 1 <=> Refilling(r))
           /\ Level(r) = e + j /\ (j = 1 <=> Joining(r)) /\ j <= f
<1>1. executed[r] \in Seq(Ids) /\ deferred[r] \in Seq(Ids) /\ RankOk(r) BY DEF TypeInv, RanksType
<1>2. Joining(r) => Refilling(r) /\ picked[r] \in Ids BY <1>1 DEF Joining, Refilling, RankOk
<1>3. Len(executed[r]) \in Nat /\ Len(deferred[r]) \in Nat BY <1>1
<1>4. PICK e \in Nat, d \in Nat : e = Len(executed[r]) /\ d = Len(deferred[r]) BY <1>3, Zenon
<1>5. PICK k \in 0..1 : k = (IF InHand(r) THEN 1 ELSE 0) OBVIOUS
<1>6. PICK f \in 0..1 : f = (IF Refilling(r) THEN 1 ELSE 0) OBVIOUS
<1>7. PICK j \in 0..1 : j = (IF Joining(r) THEN 1 ELSE 0) OBVIOUS
<1>8. Taken(r) = e + d + k BY <1>4, <1>5, Zenon DEF Taken
<1>9. Had(r) = e + d + f BY <1>4, <1>6, Zenon DEF Had
<1>10. Level(r) = e + j
  <2>1. CASE Joining(r)
    <3>1. Len(Append(executed[r], picked[r])) = Len(executed[r]) + 1 BY <1>1, <1>2, <2>1
    <3>2. j = 1 BY <1>7, <2>1
    <3> QED BY <1>4, <2>1, <3>1, <3>2, Zenon DEF Level, Done
  <2>2. CASE ~Joining(r)
    <3>1. j = 0 BY <1>7, <2>2
    <3>2. Level(r) = e BY <1>4, <2>2, Zenon DEF Level, Done
    <3> QED BY <3>1, <3>2
  <2> QED BY <2>1, <2>2
<1>11. (k = 1 <=> InHand(r)) /\ (f = 1 <=> Refilling(r)) /\ (j = 1 <=> Joining(r)) BY <1>5, <1>6, <1>7
<1>12. j <= f BY <1>2, <1>6, <1>7
<1> QED BY <1>4, <1>8, <1>9, <1>10, <1>11, <1>12, Zenon

\* What a queue that agrees with `order' bounds.
RankBounds ==
  /\ order \in Seq(Ids)
  /\ \A r \in World : ~Down(r) =>
       /\ Done(r) \in Seq(Ids) /\ deferred[r] \in Seq(Ids)
       /\ Taken(r) \in Nat /\ Taken(r) + Len(cmdq[r]) <= Len(order)
       /\ Len(executed[r]) <= Level(r) /\ Level(r) + Len(deferred[r]) <= Had(r)
       /\ Had(r) \in Nat /\ Had(r) <= Len(order)
       /\ \A i \in 1..Len(executed[r]) : executed[r][i] = Script(r)[i]

LEMMA Bounds == TypeInv /\ QueueInv => RankBounds
<1> SUFFICES ASSUME TypeInv, QueueInv, NEW r \in World, ~Down(r)
             PROVE  /\ Done(r) \in Seq(Ids) /\ deferred[r] \in Seq(Ids)
                    /\ Taken(r) \in Nat /\ Taken(r) + Len(cmdq[r]) <= Len(order)
                    /\ Len(executed[r]) <= Level(r) /\ Level(r) + Len(deferred[r]) <= Had(r)
                    /\ Had(r) \in Nat /\ Had(r) <= Len(order)
                    /\ \A i \in 1..Len(executed[r]) : executed[r][i] = Script(r)[i]
  BY DEF RankBounds, TypeInv, CallsType
<1>1. /\ executed[r] \in Seq(Ids) /\ deferred[r] \in Seq(Ids) /\ cmdq[r] \in Seq(Ids) /\ RankOk(r)
      /\ order \in Seq(Ids)
  BY DEF TypeInv, RanksType, CallsType
<1>2. QueueOk(r) BY DEF QueueInv
<1>3. PICK e \in Nat, d \in Nat, k \in 0..1, f \in 0..1, j \in 0..1 :
           /\ e = Len(executed[r]) /\ d = Len(deferred[r])
           /\ Taken(r) = e + d + k /\ (k = 1 <=> InHand(r))
           /\ Had(r) = e + d + f /\ (f = 1 <=> Refilling(r))
           /\ Level(r) = e + j /\ (j = 1 <=> Joining(r)) /\ j <= f
  BY RankNumbers
<1>12. /\ Taken(r) = e + d + k /\ (k = 1 <=> InHand(r))
       /\ Had(r) = e + d + f /\ (f = 1 <=> Refilling(r))
       /\ Level(r) = e + j /\ j <= f
  BY <1>3, Zenon
<1>4. PICK n \in Nat, q \in Nat : n = Len(order) /\ q = Len(cmdq[r])
  <2>1. Len(order) \in Nat /\ Len(cmdq[r]) \in Nat BY <1>1
  <2> QED BY <2>1, Zenon
<1>5. Taken(r) \in Nat /\ Taken(r) + q <= n
  <2>1. Taken(r) + q = PutTo(r) BY <1>2, <1>4 DEF QueueOk
  <2>2. PutTo(r) = n \/ PutTo(r) = n - 1 BY <1>4 DEF PutTo
  <2> QED BY <1>12, <2>1, <2>2
<1>6. Had(r) <= n
  <2>1. CASE at[r] = "popping"
    <3>1. Taken(r) + 1 <= n /\ ~InHand(r) BY <1>2, <1>4, <2>1 DEF QueueOk, InHand
    <3> QED BY <1>12, <3>1
  <2>2. CASE at[r] # "popping"
    <3>1. Refilling(r) => InHand(r) BY <2>2 DEF Refilling, InHand
    <3>2. Had(r) <= Taken(r) BY <1>12, <3>1
    <3> QED BY <1>5, <1>12, <3>2
  <2> QED BY <2>1, <2>2
<1>7. Done(r) \in Seq(Ids) /\ Len(Done(r)) = Level(r) /\ \A i \in 1..Len(executed[r]) : Done(r)[i] = executed[r][i]
  <2>1. CASE Joining(r)
    <3>1. picked[r] \in Ids BY <1>1, <2>1 DEF Joining, Refilling, RankOk
    <3>2. Done(r) = Append(executed[r], picked[r]) BY <2>1 DEF Done
    <3>3. \A i \in 1..Len(executed[r]) : Append(executed[r], picked[r])[i] = executed[r][i] BY <1>1, <3>1
    <3>4. Append(executed[r], picked[r]) \in Seq(Ids) BY <1>1, <3>1
    <3> QED BY <3>2, <3>3, <3>4, Zenon DEF Level
  <2>2. CASE ~Joining(r) BY <1>1, <2>2 DEF Done, Level
  <2> QED BY <2>1, <2>2
<1>8. Level(r) + d <= Had(r) /\ e <= Level(r) /\ Had(r) \in Nat BY <1>12
<1>9. Level(r) + Len(deferred[r]) <= Had(r) /\ Len(executed[r]) <= Level(r) BY <1>3, <1>8, Zenon
<1>10. Len(Done(r)) + Len(deferred[r]) <= Len(order)
  <2>0. Level(r) = Len(Done(r)) BY <1>7
  <2>1. Level(r) + d <= n BY <1>6, <1>12
  <2> QED BY <1>3, <1>4, <2>0, <2>1, Zenon
<1>11. ASSUME NEW i \in 1..Len(executed[r]) PROVE executed[r][i] = Script(r)[i]
  <2>1. \A x \in 1..Len(Done(r)) : Script(r)[x] = Done(r)[x] BY <1>1, <1>7, <1>10, ScriptFacts DEF Script
  <2>2. i \in 1..Len(Done(r))
    <3>1. i \in 1..e /\ e <= Level(r) /\ Level(r) \in Nat BY <1>3
    <3>2. i \in 1..Level(r) BY <3>1
    <3> QED BY <1>7, <3>2
  <2> QED BY <1>7, <2>1, <2>2
<1> QED BY <1>1, <1>4, <1>5, <1>6, <1>7, <1>8, <1>9, <1>11, Zenon

LEMMA BoundsNext == TypeInv' /\ QueueInv' => RankBounds'
BY Bounds, PTL

\* A step that leaves the queue of a rank as it was.
LEMMA QueueFrame ==
  ASSUME NEW r \in World, QueueOk(r), UNCHANGED <<order, sender, put_rank>>,
         cmdq'[r] = cmdq[r], picked'[r] = picked[r], executed'[r] = executed[r],
         deferred'[r] = deferred[r], at'[r] = at[r]
  PROVE  QueueOk(r)'
BY DEF QueueOk, Taken, PutTo, InHand

\* A step of one rank: the queues of the others stay.
LEMMA OneRankQueues ==
  ASSUME TypeInv, QueueInv, NEW r \in World, UNCHANGED <<order, sender, put_rank>>,
         \A q \in World \ {r} :
            /\ cmdq'[q] = cmdq[q] /\ picked'[q] = picked[q] /\ executed'[q] = executed[q]
            /\ deferred'[q] = deferred[q] /\ at'[q] = at[q],
         ~Down(r)' => QueueOk(r)'
  PROVE  QueueInv'
<1>1. sender' # 0 => order' # << >> /\ sender' = order'[Len(order')] BY DEF QueueInv
<1>2. ASSUME NEW q \in World, ~Down(q)' PROVE QueueOk(q)'
  <2>1. CASE q = r BY <1>2, <2>1
  <2>2. CASE q # r
    <3>1. ~Down(q) BY <1>2, <2>2 DEF Down
    <3>2. QueueOk(q) BY <3>1 DEF QueueInv
    <3> QED BY <2>2, <3>2, QueueFrame
  <2> QED BY <2>1, <2>2
<1> QED BY <1>1, <1>2 DEF QueueInv

\* What QueueOk says, in numbers: r has executed e commands, put d off and taken
\* t, of n that were broadcast; l are in its queue.
QueueIs(r, e, d, l, n, t) ==
  /\ e = Len(executed[r]) /\ d = Len(deferred[r]) /\ l = Len(cmdq[r]) /\ n = Len(order)
  /\ t + l = PutTo(r)
  /\ InHand(r) => t = e + d + 1 /\ picked[r] = order[t]
  /\ ~InHand(r) => t = e + d
  /\ \A i \in 1..l : cmdq[r][i] = order[t + i]
  /\ at[r] = "popping" => t + 1 <= n /\ picked[r] = order[t + 1]

LEMMA QueueNumbers ==
  ASSUME TypeInv, QueueInv, NEW r \in World, ~Down(r)
  PROVE  \E e, d, l, n, t \in Nat : QueueIs(r, e, d, l, n, t) /\ t + l <= n
<1>1. /\ executed[r] \in Seq(Ids) /\ deferred[r] \in Seq(Ids) /\ cmdq[r] \in Seq(Ids) /\ order \in Seq(Ids)
  BY DEF TypeInv, RanksType, CallsType
<1>2. Len(executed[r]) \in Nat /\ Len(deferred[r]) \in Nat /\ Len(cmdq[r]) \in Nat /\ Len(order) \in Nat BY <1>1
<1>3. PICK e \in Nat, d \in Nat, l \in Nat, n \in Nat :
        e = Len(executed[r]) /\ d = Len(deferred[r]) /\ l = Len(cmdq[r]) /\ n = Len(order)
  BY <1>2, Zenon
<1>4. RankBounds BY Bounds
<1>5. Taken(r) \in Nat /\ Taken(r) + Len(cmdq[r]) <= Len(order) BY <1>4 DEF RankBounds
<1>6. PICK t \in Nat : t = Taken(r) BY <1>5, Zenon
<1>7. t + l <= n BY <1>3, <1>5, <1>6, Zenon
<1>8. QueueOk(r) BY DEF QueueInv
<1>9. (InHand(r) => Taken(r) = e + d + 1) /\ (~InHand(r) => Taken(r) = e + d + 0) BY <1>3, Zenon DEF Taken
<1>10. (InHand(r) => t = e + d + 1) /\ (~InHand(r) => t = e + d) BY <1>6, <1>9
<1>11. /\ Taken(r) + Len(cmdq[r]) = PutTo(r)
       /\ \A i \in 1..Len(cmdq[r]) : cmdq[r][i] = order[Taken(r) + i]
       /\ InHand(r) => picked[r] = order[Taken(r)]
       /\ at[r] = "popping" => Taken(r) + 1 <= Len(order) /\ picked[r] = order[Taken(r) + 1]
  BY <1>8, Zenon DEF QueueOk
<1>12. QueueIs(r, e, d, l, n, t) BY <1>3, <1>6, <1>10, <1>11, Zenon DEF QueueIs
<1>13. e \in Nat /\ d \in Nat /\ l \in Nat /\ n \in Nat /\ t \in Nat BY <1>3, <1>6
<1> QED BY <1>7, <1>12, <1>13, Zenon

\* A queue is right after a step when its numbers are.
LEMMA QueueOkNext ==
  ASSUME NEW r \in World, NEW e \in Nat, NEW d \in Nat, NEW l \in Nat, NEW n \in Nat, NEW t \in Nat,
         QueueIs(r, e, d, l, n, t)'
  PROVE  QueueOk(r)'
<1> USE DEF QueueIs
<1>1. (InHand(r)' => Taken(r)' = e + d + 1) /\ (~InHand(r)' => Taken(r)' = e + d + 0) BY Zenon DEF Taken
<1>2. Taken(r)' = t
  <2>1. CASE InHand(r)' BY <1>1, <2>1
  <2>2. CASE ~InHand(r)'
    <3>1. e + d + 0 = t BY <2>2
    <3> QED BY <1>1, <2>2, <3>1
  <2> QED BY <2>1, <2>2
<1> QED BY <1>2, Zenon DEF QueueOk

LEMMA TakeLockQueues ==
  ASSUME TypeInv, QueueInv, NEW c \in Ids, TakeLock(c)
  PROVE  QueueInv'
<1>1. /\ sender = 0 /\ order' = Append(order, c) /\ sender' = c /\ put_rank' = 0
      /\ UNCHANGED <<cmdq, deferred, executed, picked, at>>
  BY DEF TakeLock, LockFree, work
<1>2. order \in Seq(Ids) BY DEF TypeInv, CallsType
<1>3. /\ Len(order) \in Nat /\ Len(order') = Len(order) + 1 /\ order'[Len(order) + 1] = c
      /\ \A i \in 1..Len(order) : order'[i] = order[i]
  BY <1>1, <1>2
<1>4. c # 0 BY DEF TypeInv, CallsType, Ids
<1>5. sender' # 0 => order' # << >> /\ sender' = order'[Len(order')] BY <1>1, <1>3
<1>6. ASSUME NEW r \in World, ~Down(r)' PROVE QueueOk(r)'
  <2>1. ~Down(r) BY <1>1, <1>6 DEF Down
  <2>2. PICK e, d, l, n, t \in Nat : QueueIs(r, e, d, l, n, t) /\ t + l <= n BY <2>1, QueueNumbers
  <2>3. PICK m \in Nat : m = n + 1 OBVIOUS
  <2>4. InHand(r)' = InHand(r) BY <1>1 DEF InHand
  <2>5. PutTo(r) = n /\ PutTo(r)' = n
    <3>1. PutTo(r) = n BY <1>1, <2>2 DEF PutTo, QueueIs
    <3>2. 0 <= r BY WorldFacts
    <3>3. PutTo(r)' = Len(order') - 1 BY <1>1, <1>4, <3>2 DEF PutTo
    <3>4. Len(order') = n + 1 BY <1>3, <2>2 DEF QueueIs
    <3> QED BY <3>1, <3>3, <3>4
  <2>6. \A i \in 1..n : order'[i] = order[i] BY <1>3, <2>2 DEF QueueIs
  <2>7. ASSUME NEW i \in 1..l PROVE cmdq'[r][i] = order'[t + i]
    <3>1. t + i \in 1..n BY <2>2
    <3> QED BY <1>1, <2>2, <2>6, <3>1 DEF QueueIs
  <2>8. InHand(r)' => t = e + d + 1 /\ picked'[r] = order'[t]
    <3>0. t + l <= n /\ (InHand(r) => t = e + d + 1) BY <2>2, Zenon DEF QueueIs
    <3>1. InHand(r) => t \in 1..n BY <3>0
    <3> QED BY <1>1, <2>2, <2>4, <2>6, <3>1 DEF QueueIs
  <2>9. at'[r] = "popping" => t + 1 <= m /\ picked'[r] = order'[t + 1]
    <3>1. t + 1 <= n => t + 1 \in 1..n /\ t + 1 <= n + 1 OBVIOUS
    <3> QED BY <1>1, <2>2, <2>3, <2>6, <3>1 DEF QueueIs
  <2>10. m = Len(order') BY <1>3, <2>2, <2>3 DEF QueueIs
  <2>11. e = Len(executed'[r]) /\ d = Len(deferred'[r]) /\ l = Len(cmdq'[r]) BY <1>1, <2>2 DEF QueueIs
  <2>12. ~InHand(r)' => t = e + d BY <2>2, <2>4 DEF QueueIs
  <2>13. t + l = PutTo(r)' BY <2>2, <2>5 DEF QueueIs
  <2>14. QueueIs(r, e, d, l, m, t)' BY <2>7, <2>8, <2>9, <2>10, <2>11, <2>12, <2>13, Zenon DEF QueueIs
  <2> QED BY <2>14, QueueOkNext
<1> QED BY <1>5, <1>6 DEF QueueInv

LEMMA PutCommandQueues ==
  ASSUME TypeInv, QueueInv, PutCommand
  PROVE  QueueInv'
<1>1. /\ sender # 0 /\ cmdq' = [cmdq EXCEPT ![put_rank] = Append(@, sender)]
      /\ UNCHANGED <<order, deferred, executed, picked, at>>
      /\ \/ MoreRanks /\ put_rank' = put_rank + 1 /\ sender' = sender
         \/ ~MoreRanks /\ put_rank' = 0 /\ sender' = 0
  BY DEF PutCommand, work
<1>2. PICK w \in Nat \ {0} : World = 0 .. w - 1 /\ w = TpSize * DpSize BY WorldFacts
<1>3. /\ sender \in Ids /\ put_rank \in 0 .. w - 1 /\ cmdq \in [World -> Seq(Ids)] /\ order \in Seq(Ids)
      /\ order # << >> /\ sender = order[Len(order)]
  BY <1>1, <1>2 DEF TypeInv, CallsType, RanksType, QueueInv
<1>4. sender' # 0 => order' # << >> /\ sender' = order'[Len(order')] BY <1>1, <1>3
<1>5. ASSUME NEW r \in World, ~Down(r)' PROVE QueueOk(r)'
  <2>1. ~Down(r) BY <1>1, <1>5 DEF Down
  <2>2. PICK e, d, l, n, t \in Nat : QueueIs(r, e, d, l, n, t) /\ t + l <= n BY <2>1, QueueNumbers
  <2>3. InHand(r)' = InHand(r) BY <1>1 DEF InHand
  <2>4. CASE r = put_rank
    <3>1. PICK k \in Nat : k = l + 1 OBVIOUS
    <3>2. cmdq[r] \in Seq(Ids) /\ cmdq'[r] = Append(cmdq[r], sender) BY <1>1, <1>3, <2>4
    <3>3. Len(cmdq'[r]) = Len(cmdq[r]) + 1 /\ cmdq'[r][Len(cmdq[r]) + 1] = sender
          /\ \A i \in 1..Len(cmdq[r]) : cmdq'[r][i] = cmdq[r][i]
      BY <1>3, <3>2
    <3>4. Len(cmdq'[r]) = l + 1 /\ cmdq'[r][l + 1] = sender /\ \A i \in 1..l : cmdq'[r][i] = cmdq[r][i]
      BY <2>2, <3>3, Zenon DEF QueueIs
    <3>5. t + l = n - 1
      <4>1. PutTo(r) = Len(order) - 1 BY <1>1, <2>4, <1>3 DEF PutTo
      <4> QED BY <2>2, <4>1, Zenon DEF QueueIs
    <3>6. PutTo(r)' = t + k
      <4>1. PutTo(r)' = Len(order)
        <5>1. CASE MoreRanks BY <1>1, <1>3, <2>4, <5>1 DEF PutTo
        <5>2. CASE ~MoreRanks BY <1>1, <5>2 DEF PutTo
        <5> QED BY <5>1, <5>2
      <4>2. Len(order) = n BY <2>2 DEF QueueIs
      <4>3. t + k = n BY <3>1, <3>5
      <4> QED BY <4>1, <4>2, <4>3
    <3>7. ASSUME NEW i \in 1..k PROVE cmdq'[r][i] = order'[t + i]
      <4>1. CASE i \in 1..l BY <1>1, <2>2, <3>4, <4>1 DEF QueueIs
      <4>2. CASE i = l + 1
        <5>1. t + i = n BY <3>5, <4>2
        <5>2. order[n] = sender BY <1>3, <2>2 DEF QueueIs
        <5> QED BY <1>1, <3>4, <4>2, <5>1, <5>2
      <4> QED BY <3>1, <4>1, <4>2
    <3>8. QueueIs(r, e, d, k, n, t)'
      <4>1. /\ e = Len(executed'[r]) /\ d = Len(deferred'[r]) /\ n = Len(order')
            /\ (InHand(r)' => t = e + d + 1 /\ picked'[r] = order'[t])
            /\ (~InHand(r)' => t = e + d)
            /\ at'[r] = "popping" => t + 1 <= n /\ picked'[r] = order'[t + 1]
        BY <1>1, <2>2, <2>3 DEF QueueIs
      <4>2. k = Len(cmdq'[r]) BY <3>1, <3>4
      <4> QED BY <3>6, <3>7, <4>1, <4>2, Zenon DEF QueueIs
    <3> QED BY <3>8, QueueOkNext
  <2>5. CASE r # put_rank
    <3>1. cmdq'[r] = cmdq[r] BY <1>1, <1>3, <2>5
    <3>2. PutTo(r)' = PutTo(r)
      <4>1. CASE MoreRanks
        <5>1. put_rank + 1 <= r <=> put_rank <= r BY <1>2, <1>3, <2>5
        <5> QED BY <1>1, <4>1, <5>1 DEF PutTo
      <4>2. CASE ~MoreRanks
        <5>1. ~(put_rank <= r) BY <1>2, <1>3, <2>5, <4>2 DEF MoreRanks
        <5> QED BY <1>1, <4>2, <5>1 DEF PutTo
      <4> QED BY <4>1, <4>2
    <3>3. QueueIs(r, e, d, l, n, t)' BY <1>1, <2>2, <2>3, <3>1, <3>2 DEF QueueIs
    <3> QED BY <3>3, QueueOkNext
  <2> QED BY <2>4, <2>5
<1> QED BY <1>4, <1>5 DEF QueueInv

LEMMA TakeCommandQueues ==
  ASSUME TypeInv, QueueInv, NEW r \in World, NEW c \in Ids, TakeCommand(r, c)
  PROVE  QueueInv'
<1>1. /\ at[r] = "idle" /\ NextCommand(r, c) /\ executed' = [executed EXCEPT ![r] = Append(@, c)]
      /\ picked' = picked /\ UNCHANGED <<order, sender, put_rank>>
  BY DEF TakeCommand, sending
<1>2. RanksType BY DEF TypeInv
<1>3. calls[c] \in Shapes BY DEF TypeInv, CallsType, Ids
<1>4. PICK a \in {"exec", "refill", "posting"} : at' = [at EXCEPT ![r] = a]
  <2>1. CASE calls[c].op = "other" BY <2>1 DEF TakeCommand
  <2>2. CASE calls[c].op = "rollout" /\ Group(r) \in calls[c].rows BY <2>2 DEF TakeCommand
  <2>3. CASE calls[c].op = "rollout" /\ Group(r) \notin calls[c].rows BY <2>3 DEF TakeCommand
  <2> QED BY <1>3, <2>1, <2>2, <2>3, ClusterAssumption
<1>5. ~InHand(r) /\ ~InHand(r)' /\ at'[r] # "popping" /\ ~Down(r) BY <1>1, <1>2, <1>4 DEF InHand, RanksType, Down
<1>6. PICK e, d, l, n, t \in Nat : QueueIs(r, e, d, l, n, t) /\ t + l <= n BY <1>5, QueueNumbers
<1>7. /\ executed[r] \in Seq(Ids) /\ deferred[r] \in Seq(Ids) /\ cmdq[r] \in Seq(Ids) BY <1>2 DEF RanksType
<1>8. PICK x \in Nat : x = e + 1 OBVIOUS
<1>9. x = Len(executed'[r])
  <2>1. executed'[r] = Append(executed[r], c) BY <1>1, <1>2 DEF RanksType
  <2>2. Len(executed'[r]) = Len(executed[r]) + 1 BY <1>7, <2>1
  <2> QED BY <1>6, <1>8, <2>2, Zenon DEF QueueIs
<1>10. t = e + d BY <1>5, <1>6 DEF QueueIs
<1>11. PutTo(r)' = t + l BY <1>1, <1>6 DEF PutTo, QueueIs
<1>12. QueueOk(r)'
  <2>1. CASE deferred[r] # << >>
    <3>1. cmdq'[r] = cmdq[r] /\ deferred'[r] = Tail(deferred[r]) BY <1>1, <1>2, <2>1 DEF NextCommand, RanksType
    <3>2. Len(deferred'[r]) = d - 1 /\ d \in Nat \ {0}
      <4>1. Len(Tail(deferred[r])) = Len(deferred[r]) - 1 /\ Len(deferred[r]) \in Nat \ {0} BY <1>7, <2>1, HeadAndTail
      <4> QED BY <1>6, <3>1, <4>1, Zenon DEF QueueIs
    <3>3. PICK y \in Nat : y + 1 = d
      <4>1. \A k \in Nat \ {0} : k - 1 \in Nat /\ (k - 1) + 1 = k OBVIOUS
      <4> QED BY <3>2, <4>1
    <3>4. y = Len(deferred'[r]) BY <3>2, <3>3
    <3>5. t = x + y BY <1>8, <1>10, <3>3
    <3>6. QueueIs(r, x, y, l, n, t)' BY <1>1, <1>5, <1>6, <1>9, <1>11, <3>1, <3>4, <3>5, Zenon DEF QueueIs
    <3> QED BY <3>6, QueueOkNext
  <2>2. CASE deferred[r] = << >>
    <3>1. cmdq[r] # << >> /\ cmdq'[r] = Tail(cmdq[r]) /\ deferred'[r] = deferred[r]
      BY <1>1, <1>2, <2>2 DEF NextCommand, RanksType
    <3>2. /\ Len(Tail(cmdq[r])) = Len(cmdq[r]) - 1 /\ Len(cmdq[r]) \in Nat \ {0}
          /\ \A i \in 1..Len(cmdq[r]) - 1 : Tail(cmdq[r])[i] = cmdq[r][i + 1]
      BY <1>7, <3>1, HeadAndTail
    <3>3. /\ Len(cmdq'[r]) = l - 1 /\ l \in Nat \ {0} /\ \A i \in 1..l - 1 : cmdq'[r][i] = cmdq[r][i + 1]
      BY <1>6, <3>1, <3>2, Zenon DEF QueueIs
    <3>4. PICK y \in Nat : y + 1 = l
      <4>1. \A k \in Nat \ {0} : k - 1 \in Nat /\ (k - 1) + 1 = k OBVIOUS
      <4> QED BY <3>3, <4>1
    <3>5. y = Len(cmdq'[r]) BY <3>3, <3>4
    <3>6. PICK u \in Nat : u = t + 1 OBVIOUS
    <3>7. u = x + d /\ u + y = t + l BY <1>8, <1>10, <3>4, <3>6
    <3>8. ASSUME NEW i \in 1..y PROVE cmdq'[r][i] = order'[u + i]
      <4>1. i \in 1..l - 1 /\ i + 1 \in 1..l /\ u + i = t + (i + 1) BY <3>4, <3>6
      <4>2. cmdq[r][i + 1] = order[t + (i + 1)] BY <1>6, <4>1 DEF QueueIs
      <4> QED BY <1>1, <3>3, <4>1, <4>2
    <3>9. QueueIs(r, x, d, y, n, u)' BY <1>1, <1>5, <1>6, <1>9, <1>11, <3>1, <3>5, <3>7, <3>8, Zenon DEF QueueIs
    <3> QED BY <3>9, QueueOkNext
  <2> QED BY <2>1, <2>2
<1>13. \A q \in World \ {r} :
            /\ cmdq'[q] = cmdq[q] /\ picked'[q] = picked[q] /\ executed'[q] = executed[q]
            /\ deferred'[q] = deferred[q] /\ at'[q] = at[q]
  <2>1. \A q \in World \ {r} : cmdq'[q] = cmdq[q] /\ deferred'[q] = deferred[q]
    BY <1>1, <1>2 DEF NextCommand, RanksType
  <2> QED BY <1>1, <1>2, <1>4, <2>1 DEF RanksType
<1> QED BY <1>1, <1>12, <1>13, OneRankQueues

LEMMA PickRefillQueues ==
  ASSUME TypeInv, QueueInv, NEW r \in World, PickRefill(r)
  PROVE  QueueInv'
<1>1. /\ at[r] = "refill" /\ at' = [at EXCEPT ![r] = "picked"] /\ UNCHANGED <<deferred, executed, order, sender, put_rank>>
      /\ \/ cmdq[r] = << >> /\ picked' = [picked EXCEPT ![r] = 0] /\ cmdq' = cmdq
         \/ cmdq[r] # << >> /\ picked' = [picked EXCEPT ![r] = Head(cmdq[r])] /\ cmdq' = [cmdq EXCEPT ![r] = Tail(@)]
  BY DEF PickRefill, sending
<1>2. RanksType BY DEF TypeInv
<1>3. ~InHand(r) /\ ~Down(r) /\ at'[r] = "picked" BY <1>1, <1>2 DEF InHand, RanksType, Down
<1>4. PICK e, d, l, n, t \in Nat : QueueIs(r, e, d, l, n, t) /\ t + l <= n BY <1>3, QueueNumbers
<1>5. cmdq[r] \in Seq(Ids) /\ 0 \notin Ids BY <1>2 DEF RanksType, Ids
<1>6. t = e + d BY <1>3, <1>4 DEF QueueIs
<1>7. PutTo(r)' = t + l BY <1>1, <1>4 DEF PutTo, QueueIs
<1>8. QueueOk(r)'
  <2>1. CASE cmdq[r] = << >>
    <3>1. ~InHand(r)' /\ cmdq' = cmdq BY <1>1, <1>2, <1>3, <2>1 DEF InHand, RanksType
    <3>2. QueueIs(r, e, d, l, n, t)' BY <1>1, <1>3, <1>4, <1>6, <1>7, <3>1 DEF QueueIs
    <3> QED BY <3>2, QueueOkNext
  <2>2. CASE cmdq[r] # << >>
    <3>1. /\ Head(cmdq[r]) \in Ids /\ Head(cmdq[r]) = cmdq[r][1]
          /\ Len(Tail(cmdq[r])) = Len(cmdq[r]) - 1 /\ Len(cmdq[r]) \in Nat \ {0}
          /\ \A i \in 1..Len(cmdq[r]) - 1 : Tail(cmdq[r])[i] = cmdq[r][i + 1]
      BY <1>5, <2>2, HeadAndTail
    <3>2. cmdq'[r] = Tail(cmdq[r]) /\ picked'[r] = cmdq[r][1] /\ InHand(r)'
      BY <1>1, <1>2, <1>3, <1>5, <2>2, <3>1 DEF InHand, RanksType
    <3>3. /\ Len(cmdq'[r]) = l - 1 /\ l \in Nat \ {0} /\ \A i \in 1..l - 1 : cmdq'[r][i] = cmdq[r][i + 1]
      BY <1>4, <3>1, <3>2, Zenon DEF QueueIs
    <3>4. PICK y \in Nat : y + 1 = l
      <4>1. \A k \in Nat \ {0} : k - 1 \in Nat /\ (k - 1) + 1 = k OBVIOUS
      <4> QED BY <3>3, <4>1
    <3>5. y = Len(cmdq'[r]) BY <3>3, <3>4
    <3>6. PICK u \in Nat : u = t + 1 OBVIOUS
    <3>7. u = e + d + 1 /\ u + y = t + l BY <1>6, <3>4, <3>6
    <3>8. ASSUME NEW i \in 1..y PROVE cmdq'[r][i] = order'[u + i]
      <4>1. i \in 1..l - 1 /\ i + 1 \in 1..l /\ u + i = t + (i + 1) BY <3>4, <3>6
      <4>2. cmdq[r][i + 1] = order[t + (i + 1)] BY <1>4, <4>1 DEF QueueIs
      <4> QED BY <1>1, <3>3, <4>1, <4>2
    <3>9. picked'[r] = order'[u]
      <4>1. 1 \in 1..l BY <3>3
      <4>2. cmdq[r][1] = order[t + 1] BY <1>4, <4>1 DEF QueueIs
      <4> QED BY <1>1, <3>2, <3>6, <4>2
    <3>10. QueueIs(r, e, d, y, n, u)' BY <1>1, <1>3, <1>4, <1>7, <3>2, <3>5, <3>7, <3>8, <3>9, Zenon DEF QueueIs
    <3> QED BY <3>10, QueueOkNext
  <2> QED BY <2>1, <2>2
<1>9. \A q \in World \ {r} :
            /\ cmdq'[q] = cmdq[q] /\ picked'[q] = picked[q] /\ executed'[q] = executed[q]
            /\ deferred'[q] = deferred[q] /\ at'[q] = at[q]
  BY <1>1, <1>2 DEF RanksType
<1> QED BY <1>1, <1>8, <1>9, OneRankQueues

\* The next command of the queue of a sibling is the one it looks for: broadcasts
\* hold a lock (_broadcast_and_collect), so every rank is sent the same commands
\* in the same order, and ranks of a group run and defer the same ones.
LEMMA NextIsPicked ==
  ASSUME TypeInv, QueueInv, NEW r \in World, at[r] = "popping", cmdq[r] # << >>
  PROVE  Head(cmdq[r]) = picked[r]
<1>1. ~Down(r) /\ ~InHand(r) BY DEF Down, InHand
<1>2. PICK e, d, l, n, t \in Nat : QueueIs(r, e, d, l, n, t) /\ t + l <= n BY <1>1, QueueNumbers
<1>3. cmdq[r] \in Seq(Ids) BY DEF TypeInv, RanksType
<1>4. Head(cmdq[r]) = cmdq[r][1] /\ Len(cmdq[r]) \in Nat \ {0} BY <1>3, HeadAndTail
<1>5. l = Len(cmdq[r]) BY <1>2 DEF QueueIs
<1>6. 1 \in 1..l BY <1>4, <1>5
<1> QED BY <1>2, <1>4, <1>6 DEF QueueIs

\* So it never puts another one aside.
LEMMA PopsPicked ==
  ASSUME TypeInv, QueueInv, NEW r \in World, PopMatching(r)
  PROVE  /\ at[r] = "popping" /\ cmdq[r] # << >> /\ cmdq' = [cmdq EXCEPT ![r] = Tail(@)]
         /\ at' = [at EXCEPT ![r] = "refilling"]
         /\ UNCHANGED <<calls, order, sender, put_rank, deferred, cmd, picked, current, outbox, next_at, executed>>
<1>1. Head(cmdq[r]) = picked[r] BY NextIsPicked DEF PopMatching
<1> QED BY <1>1 DEF PopMatching, callers, sending

LEMMA PopMatchingQueues ==
  ASSUME TypeInv, QueueInv, NEW r \in World, PopMatching(r)
  PROVE  QueueInv'
<1>1. /\ at[r] = "popping" /\ cmdq[r] # << >> /\ cmdq' = [cmdq EXCEPT ![r] = Tail(@)]
      /\ at' = [at EXCEPT ![r] = "refilling"] /\ UNCHANGED <<order, sender, put_rank, deferred, picked, executed>>
  BY PopsPicked
<1>2. RanksType BY DEF TypeInv
<1>3. ~InHand(r) /\ ~Down(r) /\ InHand(r)' /\ at'[r] # "popping" BY <1>1, <1>2 DEF InHand, RanksType, Down
<1>4. PICK e, d, l, n, t \in Nat : QueueIs(r, e, d, l, n, t) /\ t + l <= n BY <1>3, QueueNumbers
<1>5. cmdq[r] \in Seq(Ids) BY <1>2 DEF RanksType
<1>6. t = e + d BY <1>3, <1>4 DEF QueueIs
<1>7. PutTo(r)' = t + l BY <1>1, <1>4 DEF PutTo, QueueIs
<1>8. QueueOk(r)'
    <3>1. /\ Len(Tail(cmdq[r])) = Len(cmdq[r]) - 1 /\ Len(cmdq[r]) \in Nat \ {0}
          /\ \A i \in 1..Len(cmdq[r]) - 1 : Tail(cmdq[r])[i] = cmdq[r][i + 1]
      BY <1>1, <1>5, HeadAndTail
    <3>2. cmdq'[r] = Tail(cmdq[r]) BY <1>1, <1>2 DEF RanksType
    <3>3. /\ Len(cmdq'[r]) = l - 1 /\ l \in Nat \ {0} /\ \A i \in 1..l - 1 : cmdq'[r][i] = cmdq[r][i + 1]
      BY <1>4, <3>1, <3>2, Zenon DEF QueueIs
    <3>4. PICK y \in Nat : y + 1 = l
      <4>1. \A k \in Nat \ {0} : k - 1 \in Nat /\ (k - 1) + 1 = k OBVIOUS
      <4> QED BY <3>3, <4>1
    <3>5. y = Len(cmdq'[r]) BY <3>3, <3>4
    <3>6. PICK u \in Nat : u = t + 1 OBVIOUS
    <3>7. u = e + d + 1 /\ u + y = t + l BY <1>6, <3>4, <3>6
    <3>8. ASSUME NEW i \in 1..y PROVE cmdq'[r][i] = order'[u + i]
      <4>1. i \in 1..l - 1 /\ i + 1 \in 1..l /\ u + i = t + (i + 1) BY <3>4, <3>6
      <4>2. cmdq[r][i + 1] = order[t + (i + 1)] BY <1>4, <4>1 DEF QueueIs
      <4> QED BY <1>1, <3>3, <4>1, <4>2
    <3>9. picked'[r] = order'[u] BY <1>1, <1>4, <3>6 DEF QueueIs
    <3>10. QueueIs(r, e, d, y, n, u)' BY <1>1, <1>3, <1>4, <1>7, <3>2, <3>5, <3>7, <3>8, <3>9, Zenon DEF QueueIs
    <3> QED BY <3>10, QueueOkNext
<1>9. \A q \in World \ {r} :
            /\ cmdq'[q] = cmdq[q] /\ picked'[q] = picked[q] /\ executed'[q] = executed[q]
            /\ deferred'[q] = deferred[q] /\ at'[q] = at[q]
  BY <1>1, <1>2 DEF RanksType
<1> QED BY <1>1, <1>8, <1>9, OneRankQueues

\* What JoinOrDefer does, without its outbox.
LEMMA Joins ==
  ASSUME TypeInv, NEW r \in World, JoinOrDefer(r)
  PROVE  /\ at[r] = "refilling" /\ picked[r] \in Ids /\ cmd[r] \in Ids
         /\ UNCHANGED <<calls, order, sender, put_rank, cmdq, cmd, picked>>
         /\ \/ /\ ~Compatible(r, picked[r])
               /\ deferred' = [deferred EXCEPT ![r] = Append(@, picked[r])]
               /\ at' = [at EXCEPT ![r] = AfterRefill(r)]
               /\ UNCHANGED <<current, next_at, executed>>
            \/ /\ Compatible(r, picked[r]) /\ Group(r) \in calls[picked[r]].rows
               /\ current' = [current EXCEPT ![r] = Append(@, picked[r])]
               /\ executed' = [executed EXCEPT ![r] = Append(@, picked[r])]
               /\ at' = [at EXCEPT ![r] = "refill"]
               /\ UNCHANGED <<deferred, next_at>>
            \/ /\ Compatible(r, picked[r]) /\ Group(r) \notin calls[picked[r]].rows
               /\ executed' = [executed EXCEPT ![r] = Append(@, picked[r])]
               /\ at' = [at EXCEPT ![r] = "posting"] /\ next_at' = [next_at EXCEPT ![r] = "refill"]
               /\ UNCHANGED <<deferred, current>>
<1>1. at[r] = "refilling" /\ UNCHANGED <<calls, order, sender, put_rank, cmdq, cmd, picked>>
  BY DEF JoinOrDefer, callers, sending
<1>2. RankOk(r) BY DEF TypeInv
<1>3. picked[r] \in Ids /\ cmd[r] \in Ids BY <1>1, <1>2 DEF RankOk
<1>4. CASE ~Compatible(r, picked[r]) BY <1>1, <1>3, <1>4 DEF JoinOrDefer
<1>5. CASE Compatible(r, picked[r]) /\ Group(r) \in calls[picked[r]].rows BY <1>1, <1>3, <1>5 DEF JoinOrDefer
<1>6. CASE Compatible(r, picked[r]) /\ Group(r) \notin calls[picked[r]].rows BY <1>1, <1>3, <1>6 DEF JoinOrDefer
<1> QED BY <1>4, <1>5, <1>6

LEMMA JoinOrDeferQueues ==
  ASSUME TypeInv, QueueInv, NEW r \in World, JoinOrDefer(r)
  PROVE  QueueInv'
<1>1. at[r] = "refilling" /\ picked[r] \in Ids /\ UNCHANGED <<order, sender, put_rank, cmdq, picked>> BY Joins
<1>2. RanksType BY DEF TypeInv
<1>3. \/ /\ deferred' = [deferred EXCEPT ![r] = Append(@, picked[r])] /\ executed' = executed
         /\ \E a \in {"idle", "forward"} : at' = [at EXCEPT ![r] = a]
      \/ /\ executed' = [executed EXCEPT ![r] = Append(@, picked[r])] /\ deferred' = deferred
         /\ \E a \in {"refill", "posting"} : at' = [at EXCEPT ![r] = a]
  BY Joins DEF AfterRefill
<1>4. ~Down(r) /\ InHand(r) /\ ~InHand(r)' /\ at'[r] # "popping" BY <1>1, <1>2, <1>3 DEF InHand, RanksType, Down
<1>5. PICK e, d, l, n, t \in Nat : QueueIs(r, e, d, l, n, t) /\ t + l <= n BY <1>4, QueueNumbers
<1>6. t = e + d + 1 BY <1>4, <1>5 DEF QueueIs
<1>7. PutTo(r)' = t + l BY <1>1, <1>5 DEF PutTo, QueueIs
<1>8. executed[r] \in Seq(Ids) /\ deferred[r] \in Seq(Ids) BY <1>2 DEF RanksType
<1>9. QueueOk(r)'
  <2>1. CASE deferred' = [deferred EXCEPT ![r] = Append(@, picked[r])] /\ executed' = executed
    <3>1. PICK y \in Nat : y = d + 1 OBVIOUS
    <3>2. deferred'[r] = Append(deferred[r], picked[r]) BY <1>2, <2>1 DEF RanksType
    <3>3. Len(Append(deferred[r], picked[r])) = Len(deferred[r]) + 1 BY <1>1, <1>8
    <3>4. y = Len(deferred'[r]) BY <1>5, <3>1, <3>2, <3>3, Zenon DEF QueueIs
    <3>5. t = e + y BY <1>6, <3>1
    <3>6. QueueIs(r, e, y, l, n, t)' BY <1>1, <1>4, <1>5, <1>7, <2>1, <3>4, <3>5, Zenon DEF QueueIs
    <3> QED BY <3>6, QueueOkNext
  <2>2. CASE executed' = [executed EXCEPT ![r] = Append(@, picked[r])] /\ deferred' = deferred
    <3>1. PICK y \in Nat : y = e + 1 OBVIOUS
    <3>2. executed'[r] = Append(executed[r], picked[r]) BY <1>2, <2>2 DEF RanksType
    <3>3. Len(Append(executed[r], picked[r])) = Len(executed[r]) + 1 BY <1>1, <1>8
    <3>4. y = Len(executed'[r]) BY <1>5, <3>1, <3>2, <3>3, Zenon DEF QueueIs
    <3>5. t = y + d BY <1>6, <3>1
    <3>6. QueueIs(r, y, d, l, n, t)' BY <1>1, <1>4, <1>5, <1>7, <2>2, <3>4, <3>5, Zenon DEF QueueIs
    <3> QED BY <3>6, QueueOkNext
  <2> QED BY <1>3, <2>1, <2>2
<1>10. \A q \in World \ {r} :
            /\ cmdq'[q] = cmdq[q] /\ picked'[q] = picked[q] /\ executed'[q] = executed[q]
            /\ deferred'[q] = deferred[q] /\ at'[q] = at[q]
  BY <1>1, <1>2, <1>3 DEF RanksType
<1> QED BY <1>1, <1>9, <1>10, OneRankQueues

\* Steps that take nothing off a queue and put nothing on one.
LEMMA QuietQueues ==
  ASSUME TypeInv, QueueInv, UNCHANGED <<order, sender, put_rank, cmdq, deferred, executed>>,
         \A q \in World : ~Down(q)' =>
            /\ ~Down(q) /\ (InHand(q)' <=> InHand(q)) /\ (at'[q] = "popping" => at[q] = "popping")
            /\ (InHand(q)' \/ at'[q] = "popping" => picked'[q] = picked[q])
  PROVE  QueueInv'
<1>1. sender' # 0 => order' # << >> /\ sender' = order'[Len(order')] BY DEF QueueInv
<1>2. ASSUME NEW q \in World, ~Down(q)' PROVE QueueOk(q)'
  <2>1. ~Down(q) /\ QueueOk(q) BY <1>2 DEF QueueInv
  <2>2. Taken(q)' = Taken(q)
    <3>1. CASE InHand(q) BY <1>2, <3>1 DEF Taken
    <3>2. CASE ~InHand(q) BY <1>2, <3>2 DEF Taken
    <3> QED BY <3>1, <3>2
  <2>3. PutTo(q)' = PutTo(q) BY DEF PutTo
  <2> QED BY <1>2, <2>1, <2>2, <2>3 DEF QueueOk
<1> QED BY <1>1, <1>2 DEF QueueInv

-----------------------------------------------------------------------------
(* Where the ranks are                                                     *)

\* A step that leaves the place of q as it was.
SamePlaceAsBefore(q) ==
  Level(q)' = Level(q) /\ Had(q)' = Had(q) /\ Phase(q)' = Phase(q) /\ cmd'[q] = cmd[q] /\ Batch(q)' = Batch(q)
SameView(q) == Script(q)' = Script(q) /\ SamePlaceAsBefore(q)

\* It is all the same to the other ranks, as long as the script up to there is.
LEMMA PairFrame ==
  ASSUME NEW r \in World, NEW q \in World, PairOk(r, q), SamePlaceAsBefore(r), SamePlaceAsBefore(q),
         Level(r) \in Nat, Level(q) \in Nat, Script(r) = Script(q) => Script(r)' = Script(q)',
         \A i \in 1..Level(q) : /\ Script(r)'[i] = Script(r)[i]
                                /\ StartOf(calls', Group(r), Script(r)[i]) = StartOf(calls, Group(r), Script(r)[i])
  PROVE  PairOk(r, q)'
<1> USE DEF SamePlaceAsBefore
<1>1. Level(r) = Level(q) => SamePlace(r, q)' BY DEF PairOk, SamePlace
<1>2. ASSUME Level(r) < Level(q) PROVE Behind(r, q)'
  <2>1. Behind(r, q) BY <1>2 DEF PairOk
  <2>2. Level(q) \in 1..Level(q) BY <1>2
  <2>3. ASSUME NEW i \in Level(r)' + 1 .. Level(q)' - 1
        PROVE  StartOf(calls', Group(r), Script(r)'[i]) = "main"
    <3>1. i \in 1..Level(q) /\ i \in Level(r) + 1 .. Level(q) - 1 BY <2>3
    <3> QED BY <2>1, <3>1 DEF Behind
  <2>4. StartOf(calls', Group(r), Script(r)'[Level(q)']) = StartOf(calls, Group(r), Script(r)[Level(q)]) BY <2>2
  <2>5. Script(r)'[Level(q)'] = Script(r)[Level(q)] BY <2>2
  <2>7. Phase(r)' = "main" BY <2>1 DEF Behind
  <2>8. Phase(q)' = StartOf(calls', Group(r), Script(r)'[Level(q)']) BY <2>1, <2>4 DEF Behind
  <2>9. /\ Phase(q)' # "main" => cmd'[q] = Script(r)'[Level(q)']
        /\ Phase(q)' = "refill" => Batch(q)' = <<Script(r)'[Level(q)']>>
        /\ Had(q)' = IF Had(r)' < Level(q)' THEN Level(q)' ELSE Had(r)'
    BY <2>1, <2>5 DEF Behind
  <2> QED BY <2>3, <2>7, <2>8, <2>9 DEF Behind
<1>3. Script(r)' = Script(q)' BY DEF PairOk
<1> QED BY <1>1, <1>2, <1>3 DEF PairOk

\* What to show of a step.
LEMMA GroupInvStep ==
  ASSUME TypeInv, QueueInv, GroupInv, TypeInv', QueueInv', Len(order) <= Len(order'),
         \A r, q \in World : Group(r) = Group(q) /\ ~Down(r)' /\ ~Down(q)' => PairOk(r, q)',
         \A r \in World : Down(r)' => executed'[r] = executed[r],
         \A r, q \in World : Group(r) = Group(q) /\ Down(r)' /\ ~Down(q)' =>
            ~Down(q) /\ \A i \in 1..Len(order) : Script(q)'[i] = Script(q)[i]
  PROVE  GroupInv'
<1>1. RankBounds' BY BoundsNext
<1>2. order \in Seq(Ids) /\ order' \in Seq(Ids') /\ RanksType /\ RanksType' BY DEF TypeInv, CallsType
<1>3. Len(order) \in Nat /\ Len(order') \in Nat BY <1>2
<1>4. ASSUME NEW r \in World, ~Down(r)' PROVE Len(executed'[r]) \in Nat /\ Len(executed'[r]) <= Len(order')
  <2>1. executed'[r] \in Seq(Ids') /\ deferred'[r] \in Seq(Ids') BY <1>2 DEF RanksType
  <2>2. PICK e \in Nat, d \in Nat : e = Len(executed'[r]) /\ d = Len(deferred'[r])
    <3>1. Len(executed'[r]) \in Nat /\ Len(deferred'[r]) \in Nat BY <2>1
    <3> QED BY <3>1, Zenon
  <2>3. PICK h \in Nat : h = Had(r)' /\ h <= Len(order') BY <1>1, <1>4 DEF RankBounds
  <2>4. e <= Level(r)' /\ Level(r)' + d <= h BY <1>1, <1>4, <2>2, <2>3 DEF RankBounds
  <2>5. Level(r)' \in Nat
    <3>1. Done(r)' \in Seq(Ids') BY <1>1, <1>4 DEF RankBounds
    <3> QED BY <3>1 DEF Level
  <2>6. e <= Len(order') BY <1>3, <2>3, <2>4, <2>5
  <2> QED BY <2>2, <2>6
<1>5. ASSUME NEW r \in World, NEW q \in World, Group(r) = Group(q), ~Down(q)' PROVE OnScript(r, q)'
  <2>1. CASE ~Down(r)'
    <3>1. Script(r)' = Script(q)' BY <1>5, <2>1 DEF PairOk
    <3>2. ASSUME NEW i \in 1..Len(executed'[r]) PROVE i <= Len(order') /\ executed'[r][i] = Script(q)'[i]
      <4>1. executed'[r][i] = Script(r)'[i] BY <1>1, <2>1, <3>2 DEF RankBounds
      <4>2. i <= Len(order') BY <1>3, <1>4, <2>1, <3>2
      <4> QED BY <3>1, <4>1, <4>2
    <3> QED BY <3>2 DEF OnScript
  <2>2. CASE Down(r)'
    <3>1. executed'[r] = executed[r] /\ ~Down(q) /\ \A i \in 1..Len(order) : Script(q)'[i] = Script(q)[i]
      BY <1>5, <2>2
    <3>2. OnScript(r, q) BY <1>5, <3>1 DEF GroupInv
    <3>3. ASSUME NEW i \in 1..Len(executed[r]) PROVE i <= Len(order') /\ executed[r][i] = Script(q)'[i]
      <4>1. i <= Len(order) /\ executed[r][i] = Script(q)[i] BY <3>2 DEF OnScript
      <4>2. executed[r] \in Seq(Ids) BY <1>2 DEF RanksType
      <4>3. i \in 1..Len(order) BY <1>3, <4>1, <4>2
      <4> QED BY <1>3, <3>1, <4>1, <4>3
    <3> QED BY <3>1, <3>3 DEF OnScript
  <2> QED BY <2>1, <2>2
<1>6. ASSUME NEW r \in World, NEW q \in World, Group(r) = Group(q), NEW i \in 1..Len(executed'[r]), i <= Len(executed'[q])
      PROVE  executed'[r][i] = executed'[q][i]
  <2>1. executed'[r] \in Seq(Ids') /\ executed'[q] \in Seq(Ids') BY <1>2 DEF RanksType
  <2>2. i \in 1..Len(executed'[q]) BY <1>6, <2>1
  <2>3. CASE ~Down(q)'
    <3>1. OnScript(r, q)' /\ OnScript(q, q)' BY <1>5, <1>6, <2>3
    <3> QED BY <2>2, <3>1 DEF OnScript
  <2>4. CASE ~Down(r)'
    <3>1. OnScript(q, r)' /\ OnScript(r, r)' BY <1>5, <1>6, <2>4
    <3> QED BY <2>2, <3>1 DEF OnScript
  <2>5. CASE Down(r)' /\ Down(q)'
    <3>1. executed'[r] = executed[r] /\ executed'[q] = executed[q] BY <2>5
    <3> QED BY <1>6, <3>1 DEF GroupInv, TPLockstep
  <2> QED BY <2>3, <2>4, <2>5
<1>7. TPLockstep'
  <2>1. \A r, q \in World : Group(r) = Group(q) =>
          \A i \in 1..Len(executed'[r]) : i <= Len(executed'[q]) => executed'[r][i] = executed'[q][i]
    BY <1>6
  <2> QED BY <2>1 DEF TPLockstep
<1> QED BY <1>5, <1>7 DEF GroupInv

\* Steps after which every rank that is up is where it was.
LEMMA QuietGroup ==
  ASSUME TypeInv, QueueInv, GroupInv, TypeInv', QueueInv', UNCHANGED <<calls, order>>,
         \A q \in World : ~Down(q)' => ~Down(q) /\ SameView(q),
         \A q \in World : Down(q)' => executed'[q] = executed[q]
  PROVE  GroupInv'
<1>1. RankBounds BY Bounds
<1>2. ASSUME NEW r \in World, NEW q \in World, Group(r) = Group(q), ~Down(r)', ~Down(q)' PROVE PairOk(r, q)'
  <2>1. ~Down(r) /\ ~Down(q) /\ SameView(r) /\ SameView(q) /\ PairOk(r, q) BY <1>2 DEF GroupInv
  <2>2. Done(r) \in Seq(Ids) /\ Done(q) \in Seq(Ids) BY <1>1, <2>1 DEF RankBounds
  <2>3. Level(r) \in Nat /\ Level(q) \in Nat BY <2>2 DEF Level
  <2>5. /\ SamePlaceAsBefore(r) /\ SamePlaceAsBefore(q) /\ Script(r)' = Script(r) /\ Script(q)' = Script(q)
    BY <2>1 DEF SameView
  <2> QED BY <2>1, <2>3, <2>5, PairFrame
<1>3. \A r, q \in World : Group(r) = Group(q) /\ Down(r)' /\ ~Down(q)' =>
            ~Down(q) /\ \A i \in 1..Len(order) : Script(q)'[i] = Script(q)[i]
  BY DEF SameView
<1>4. Len(order) <= Len(order')
  <2>1. Len(order) \in Nat BY DEF TypeInv, CallsType
  <2> QED BY <2>1
<1> QED BY <1>2, <1>3, <1>4, GroupInvStep

\* A rank that a step does not touch.
LEMMA ViewFrame ==
  ASSUME NEW q \in World, UNCHANGED <<calls, order>>, executed'[q] = executed[q], deferred'[q] = deferred[q],
         at'[q] = at[q], cmd'[q] = cmd[q], picked'[q] = picked[q], current'[q] = current[q], next_at'[q] = next_at[q]
  PROVE  SameView(q)
BY DEF SameView, SamePlaceAsBefore, Script, Level, Had, Phase, Batch, Done, Joining, Refilling, Compatible

\* A step of one rank that leaves it where it was, or takes it down.
LEMMA OneQuietRank ==
  ASSUME TypeInv, QueueInv, GroupInv, TypeInv', QueueInv', UNCHANGED <<calls, order>>, NEW r \in World,
         \A q \in World \ {r} :
            /\ executed'[q] = executed[q] /\ deferred'[q] = deferred[q] /\ at'[q] = at[q] /\ cmd'[q] = cmd[q]
            /\ picked'[q] = picked[q] /\ current'[q] = current[q] /\ next_at'[q] = next_at[q],
         Down(r)' => executed'[r] = executed[r],
         ~Down(r)' => ~Down(r) /\ SameView(r)
  PROVE  GroupInv'
<1>1. \A q \in World \ {r} : (Down(q)' <=> Down(q)) /\ executed'[q] = executed[q] BY DEF Down
<1>2. \A q \in World \ {r} : SameView(q) BY ViewFrame
<1>3. \A q \in World : ~Down(q)' => ~Down(q) /\ SameView(q) BY <1>1, <1>2
<1>4. \A q \in World : Down(q)' => executed'[q] = executed[q] BY <1>1
<1> QED BY <1>3, <1>4, QuietGroup

\* The coordinator takes no part.
LEMMA QuietCoordinator ==
  ASSUME TypeInv, QueueInv, GroupInv, TypeInv', QueueInv', UNCHANGED <<calls, order, deferred, work, executed>>
  PROVE  GroupInv'
<1>1. \A q \in World : SameView(q) /\ executed'[q] = executed[q] BY ViewFrame DEF work
<1>2. \A q \in World : Down(q)' <=> Down(q) BY DEF Down, work
<1> QED BY <1>1, <1>2, QuietGroup

LEMMA PickRefillGroup ==
  ASSUME TypeInv, QueueInv, GroupInv, TypeInv', QueueInv', NEW r \in World, PickRefill(r)
  PROVE  GroupInv'
<1>1. /\ at[r] = "refill" /\ at' = [at EXCEPT ![r] = "picked"]
      /\ UNCHANGED <<calls, order, deferred, cmd, current, next_at, executed>>
      /\ \E p : picked' = [picked EXCEPT ![r] = p]
  BY DEF PickRefill, callers, sending
<1>2. RanksType BY DEF TypeInv
<1>3. at'[r] = "picked" BY <1>1, <1>2 DEF RanksType
<1>4. ~Refilling(r) /\ ~Refilling(r)' /\ ~Joining(r) /\ ~Joining(r)' BY <1>1, <1>3 DEF Refilling, Joining
<1>5. SameView(r) BY <1>1, <1>3, <1>4 DEF SameView, SamePlaceAsBefore, Script, Level, Had, Phase, Batch, Done
<1>6. ~Down(r) BY <1>1 DEF Down
<1>7. \A q \in World \ {r} :
            /\ executed'[q] = executed[q] /\ deferred'[q] = deferred[q] /\ at'[q] = at[q] /\ cmd'[q] = cmd[q]
            /\ picked'[q] = picked[q] /\ current'[q] = current[q] /\ next_at'[q] = next_at[q]
  BY <1>1, <1>2 DEF RanksType
<1> QED BY <1>1, <1>5, <1>6, <1>7, OneQuietRank

LEMMA PopMatchingGroup ==
  ASSUME TypeInv, QueueInv, GroupInv, TypeInv', QueueInv', NEW r \in World, PopMatching(r)
  PROVE  GroupInv'
<1>1. /\ at[r] = "popping" /\ at' = [at EXCEPT ![r] = "refilling"]
      /\ UNCHANGED <<calls, order, deferred, cmd, picked, current, next_at, executed>>
  BY PopsPicked
<1>2. RanksType BY DEF TypeInv
<1>3. at'[r] = "refilling" BY <1>1, <1>2 DEF RanksType
<1>4. Refilling(r) /\ Refilling(r)' /\ (Joining(r)' <=> Joining(r))
  BY <1>1, <1>3 DEF Refilling, Joining, Compatible
<1>5. SameView(r) BY <1>1, <1>3, <1>4 DEF SameView, SamePlaceAsBefore, Script, Level, Had, Phase, Batch, Done
<1>6. ~Down(r) BY <1>1 DEF Down
<1>7. \A q \in World \ {r} : at'[q] = at[q] BY <1>1, <1>2 DEF RanksType
<1> QED BY <1>1, <1>5, <1>6, <1>7, OneQuietRank

LEMMA PutResultGroup ==
  ASSUME TypeInv, QueueInv, GroupInv, TypeInv', QueueInv', NEW r \in World, PutResult(r)
  PROVE  GroupInv'
<1>1. /\ outbox[r] # << >>
      /\ \E a \in {at[r], next_at[r]} : at' = [at EXCEPT ![r] = a]
      /\ UNCHANGED <<calls, order, deferred, cmd, picked, current, next_at, executed>>
  BY DEF PutResult, callers, sending
<1>2. RanksType /\ RankOk(r) BY DEF TypeInv
<1>3. /\ at[r] \in {"posting", "failing"} /\ at'[r] \in {at[r], next_at[r]}
      /\ at[r] = "posting" => next_at[r] \in {"idle", "refill"}
      /\ at[r] = "failing" => next_at[r] = "exiting"
  BY <1>1, <1>2 DEF RanksType, RankOk
<1>4. CASE at[r] = "posting"
  <2>1. ~Refilling(r) /\ ~Refilling(r)' /\ ~Joining(r) /\ ~Joining(r)' BY <1>3, <1>4 DEF Refilling, Joining
  <2>2. Phase(r)' = Phase(r) BY <1>1, <1>3, <1>4, <2>1 DEF Phase
  <2>3. SameView(r) BY <1>1, <2>1, <2>2 DEF SameView, SamePlaceAsBefore, Script, Level, Had, Batch, Done
  <2>4. ~Down(r) BY <1>4 DEF Down
  <2>5. \A q \in World \ {r} : at'[q] = at[q] BY <1>1, <1>2 DEF RanksType
  <2> QED BY <1>1, <2>3, <2>4, <2>5, OneQuietRank
<1>5. CASE at[r] = "failing"
  <2>1. Down(r)' BY <1>3, <1>5 DEF Down
  <2>2. \A q \in World \ {r} : at'[q] = at[q] BY <1>1, <1>2 DEF RanksType
  <2> QED BY <1>1, <2>1, <2>2, OneQuietRank
<1> QED BY <1>3, <1>4, <1>5

\* A rank goes down.
LEMMA DownGroup ==
  ASSUME TypeInv, QueueInv, GroupInv, TypeInv', QueueInv', NEW r \in World, Raise(r) \/ Exit(r) \/ Killed(r)
  PROVE  GroupInv'
<1>1. UNCHANGED <<calls, order, deferred, cmd, picked, current, executed>>
  BY DEF Raise, Exit, Killed, callers, sending
<1>2. RanksType BY DEF TypeInv
<1>3. Down(r)' /\ \A q \in World \ {r} : at'[q] = at[q] /\ next_at'[q] = next_at[q]
  BY <1>2 DEF Raise, Exit, Killed, Down, RanksType
<1> QED BY <1>1, <1>3, OneQuietRank

LEMMA JoinOrDeferGroup ==
  ASSUME TypeInv, QueueInv, GroupInv, TypeInv', QueueInv', NEW r \in World, JoinOrDefer(r)
  PROVE  GroupInv'
<1>1. /\ at[r] = "refilling" /\ picked[r] \in Ids /\ cmd[r] \in Ids
      /\ UNCHANGED <<calls, order, cmd, picked>>
  BY Joins
<1>2. RanksType BY DEF TypeInv
<1>3. ~Down(r) /\ InHand(r) /\ Refilling(r) BY <1>1 DEF Down, InHand, Refilling
<1>4. PICK e, d, l, n, t \in Nat : QueueIs(r, e, d, l, n, t) /\ t + l <= n BY <1>3, QueueNumbers
<1>5. e = Len(executed[r]) /\ d = Len(deferred[r]) /\ n = Len(order) /\ t = e + d + 1 /\ picked[r] = order[t]
  BY <1>3, <1>4 DEF QueueIs
<1>6. executed[r] \in Seq(Ids) /\ deferred[r] \in Seq(Ids) /\ order \in Seq(Ids)
  BY <1>2 DEF RanksType, TypeInv, CallsType
<1>7. SameView(r) /\ ~Down(r)' /\ \A q \in World \ {r} :
            /\ executed'[q] = executed[q] /\ deferred'[q] = deferred[q] /\ at'[q] = at[q]
            /\ current'[q] = current[q] /\ next_at'[q] = next_at[q]
  <2>1. CASE ~Compatible(r, picked[r])
    <3>1. /\ deferred' = [deferred EXCEPT ![r] = Append(@, picked[r])]
          /\ at' = [at EXCEPT ![r] = AfterRefill(r)]
          /\ UNCHANGED <<current, next_at, executed>>
      BY <2>1, Joins
    <3>2. at'[r] = AfterRefill(r) /\ deferred'[r] = Append(deferred[r], picked[r]) BY <1>2, <3>1 DEF RanksType
    <3>3. ~Joining(r) /\ ~Refilling(r)' /\ ~Joining(r)' BY <2>1, <3>2 DEF Joining, Refilling, AfterRefill
    <3>4. Done(r) = executed[r] /\ Done(r)' = executed[r] BY <3>1, <3>3 DEF Done
    <3>5. Script(r)' = Script(r)
      <4>1. Script(r) = ScriptOf(executed[r], deferred[r], order) BY <3>4 DEF Script
      <4>2. Script(r)' = ScriptOf(executed[r], Append(deferred[r], picked[r]), order)
        BY <1>1, <3>2, <3>4 DEF Script
      <4>3. Len(executed[r]) + Len(deferred[r]) + 1 = t BY <1>5, Zenon
      <4>4. t <= n BY <1>4
      <4>5. Len(executed[r]) + Len(deferred[r]) + 1 <= Len(order) BY <1>5, <4>3, <4>4, Zenon
      <4>6. picked[r] = order[Len(executed[r]) + Len(deferred[r]) + 1] BY <1>5, <4>3, Zenon
      <4>7. ScriptOf(executed[r], Append(deferred[r], order[Len(executed[r]) + Len(deferred[r]) + 1]), order)
              = ScriptOf(executed[r], deferred[r], order)
        BY <1>6, <4>5, ScriptDefers
      <4> QED BY <4>1, <4>2, <4>6, <4>7, Zenon
    <3>6. Had(r)' = Had(r)
      <4>1. Len(deferred'[r]) = Len(deferred[r]) + 1 BY <1>1, <1>6, <3>2
      <4>2. Had(r) = Len(executed[r]) + Len(deferred[r]) + 1 BY <1>3 DEF Had
      <4>3. Had(r)' = Len(executed[r]) + Len(deferred'[r]) + 0 BY <3>1, <3>3 DEF Had
      <4>4. Had(r) = e + d + 1 /\ Had(r)' = e + (d + 1) + 0 BY <1>5, <4>1, <4>2, <4>3, Zenon
      <4>5. e + d + 1 = e + (d + 1) + 0 OBVIOUS
      <4> QED BY <4>4, <4>5, Zenon
    <3>7. Phase(r)' = Phase(r) BY <1>1, <1>3, <3>1, <3>2, <3>3 DEF Phase, AfterRefill
    <3>8. Level(r)' = Level(r) /\ Batch(r)' = Batch(r) /\ cmd'[r] = cmd[r] BY <1>1, <3>1, <3>3, <3>4 DEF Level, Batch
    <3>9. ~Down(r)' BY <3>2 DEF Down, AfterRefill
    <3>10. \A q \in World \ {r} : deferred'[q] = deferred[q] /\ at'[q] = at[q] BY <1>2, <3>1 DEF RanksType
    <3> QED BY <3>1, <3>5, <3>6, <3>7, <3>8, <3>9, <3>10 DEF SameView, SamePlaceAsBefore
  <2>2. CASE Compatible(r, picked[r])
    <3>1. /\ executed' = [executed EXCEPT ![r] = Append(@, picked[r])] /\ deferred' = deferred
          /\ \/ /\ Group(r) \in calls[picked[r]].rows
                /\ current' = [current EXCEPT ![r] = Append(@, picked[r])]
                /\ at' = [at EXCEPT ![r] = "refill"] /\ next_at' = next_at
             \/ /\ Group(r) \notin calls[picked[r]].rows /\ current' = current
                /\ at' = [at EXCEPT ![r] = "posting"] /\ next_at' = [next_at EXCEPT ![r] = "refill"]
      BY <2>2, Joins
    <3>2. /\ executed'[r] = Append(executed[r], picked[r])
          /\ \/ /\ Group(r) \in calls[picked[r]].rows
                /\ current'[r] = Append(current[r], picked[r]) /\ at'[r] = "refill"
             \/ /\ Group(r) \notin calls[picked[r]].rows
                /\ current'[r] = current[r] /\ at'[r] = "posting" /\ next_at'[r] = "refill"
      BY <1>2, <3>1 DEF RanksType
    <3>3. Joining(r) /\ ~Refilling(r)' /\ ~Joining(r)' BY <1>3, <2>2, <3>2 DEF Joining, Refilling
    <3>4. Done(r) = Append(executed[r], picked[r]) /\ Done(r)' = Done(r) BY <3>2, <3>3 DEF Done
    <3>5. Script(r)' = Script(r) BY <1>1, <3>1, <3>4 DEF Script
    <3>6. Had(r)' = Had(r)
      <4>1. Len(executed'[r]) = Len(executed[r]) + 1 BY <1>1, <1>6, <3>2
      <4>2. Had(r) = Len(executed[r]) + Len(deferred[r]) + 1 BY <1>3 DEF Had
      <4>3. Had(r)' = Len(executed'[r]) + Len(deferred[r]) + 0 BY <3>1, <3>3 DEF Had
      <4>4. Had(r) = e + d + 1 /\ Had(r)' = (e + 1) + d + 0 BY <1>5, <4>1, <4>2, <4>3, Zenon
      <4>5. e + d + 1 = (e + 1) + d + 0 OBVIOUS
      <4> QED BY <4>4, <4>5, Zenon
    <3>7. Phase(r)' = Phase(r) BY <1>1, <1>3, <3>2, <3>3 DEF Phase
    <3>8. Level(r)' = Level(r) /\ Batch(r)' = Batch(r) /\ cmd'[r] = cmd[r]
      BY <1>1, <3>2, <3>3, <3>4 DEF Level, Batch
    <3>9. ~Down(r)' BY <3>2 DEF Down
    <3>10. \A q \in World \ {r} :
             executed'[q] = executed[q] /\ current'[q] = current[q] /\ at'[q] = at[q] /\ next_at'[q] = next_at[q]
      BY <1>2, <3>1 DEF RanksType
    <3> QED BY <3>1, <3>5, <3>6, <3>7, <3>8, <3>9, <3>10 DEF SameView, SamePlaceAsBefore
  <2> QED BY <2>1, <2>2
<1> QED BY <1>1, <1>3, <1>7, OneQuietRank

\* The script of a rank that is up, and how far that rank is.
LEMMA UpRank ==
  ASSUME TypeInv, QueueInv, NEW q \in World, ~Down(q)
  PROVE  /\ order \in Seq(Ids) /\ Done(q) \in Seq(Ids) /\ deferred[q] \in Seq(Ids)
         /\ Level(q) \in Nat /\ Had(q) \in Nat /\ Len(order) \in Nat
         /\ Len(Done(q)) + Len(deferred[q]) <= Len(order)
         /\ Script(q) \in [1..Len(order) -> Ids] /\ \A i \in 1..Level(q) : i \in 1..Len(order)
<1>1. RankBounds BY Bounds
<1>2. order \in Seq(Ids) /\ Done(q) \in Seq(Ids) /\ deferred[q] \in Seq(Ids) /\ Had(q) \in Nat
  BY <1>1 DEF RankBounds
<1>3. Level(q) \in Nat /\ Len(deferred[q]) \in Nat /\ Len(order) \in Nat BY <1>2 DEF Level
<1>4. PICK m \in Nat, d \in Nat, h \in Nat, n \in Nat :
        m = Level(q) /\ d = Len(deferred[q]) /\ h = Had(q) /\ n = Len(order)
  BY <1>2, <1>3, Zenon
<1>5. m + d <= h /\ h <= n BY <1>1, <1>4, Zenon DEF RankBounds
<1>6. m + d <= n BY <1>5
<1>7. Len(Done(q)) + Len(deferred[q]) <= Len(order) BY <1>4, <1>6, Zenon DEF Level
<1>8. Script(q) \in [1..Len(order) -> Ids] BY <1>2, <1>7, ScriptFacts DEF Script
<1>9. \A i \in 1..m : i \in 1..n BY <1>6
<1> QED BY <1>2, <1>3, <1>4, <1>7, <1>8, <1>9

LEMMA TakeLockGroup ==
  ASSUME TypeInv, QueueInv, GroupInv, TypeInv', QueueInv', NEW c \in Ids, TakeLock(c)
  PROVE  GroupInv'
<1>1. order' = Append(order, c) /\ UNCHANGED <<calls, deferred, at, cmd, picked, current, next_at, executed>>
  BY DEF TakeLock, callers, work
<1>2. RankBounds BY Bounds
<1>3. order \in Seq(Ids) BY <1>2 DEF RankBounds
<1>4. Len(order) \in Nat /\ Len(order) <= Len(order') BY <1>1, <1>3
<1>5. \A q \in World : Down(q)' <=> Down(q) BY <1>1 DEF Down
<1>6. ASSUME NEW q \in World PROVE SamePlaceAsBefore(q) /\ Done(q)' = Done(q)
  BY <1>1 DEF SamePlaceAsBefore, Level, Had, Phase, Batch, Done, Joining, Refilling, Compatible
<1>7. ASSUME NEW q \in World, ~Down(q)
      PROVE  /\ Script(q)' = Append(Script(q), c)
             /\ \A i \in 1..Len(order) : Script(q)'[i] = Script(q)[i]
             /\ Level(q) \in Nat /\ \A i \in 1..Level(q) : i \in 1..Len(order)
  <2>1. /\ Done(q) \in Seq(Ids) /\ deferred[q] \in Seq(Ids) /\ Level(q) \in Nat
        /\ Len(Done(q)) + Len(deferred[q]) <= Len(order) /\ Script(q) \in [1..Len(order) -> Ids]
        /\ \A i \in 1..Level(q) : i \in 1..Len(order)
    BY <1>7, UpRank
  <2>7. Script(q) \in Seq(Ids) /\ Len(Script(q)) = Len(order) BY <1>4, <2>1, SeqOfFunction
  <2>8. Script(q)' = ScriptOf(Done(q), deferred[q], Append(order, c)) BY <1>1, <1>6 DEF Script
  <2>9. ScriptOf(Done(q), deferred[q], Append(order, c)) = Append(ScriptOf(Done(q), deferred[q], order), c)
    BY <1>3, <2>1, ScriptGrows
  <2>10. Script(q)' = Append(Script(q), c) BY <2>8, <2>9 DEF Script
  <2>11. \A i \in 1..Len(order) : Append(Script(q), c)[i] = Script(q)[i] BY <2>7
  <2> QED BY <2>1, <2>10, <2>11
<1>8. ASSUME NEW r \in World, NEW q \in World, Group(r) = Group(q), ~Down(r)', ~Down(q)' PROVE PairOk(r, q)'
  <2>1. PairOk(r, q) /\ ~Down(r) /\ ~Down(q) BY <1>5, <1>8 DEF GroupInv
  <2>2. Script(r) = Script(q) => Script(r)' = Script(q)' BY <1>7, <2>1
  <2>3. Script(r) = Script(q) BY <2>1 DEF PairOk
  <2>4. \A i \in 1..Level(q) : Script(q)'[i] = Script(q)[i] BY <1>7, <2>1
  <2>5. \A i \in 1..Level(q) : /\ Script(r)'[i] = Script(r)[i]
                               /\ StartOf(calls', Group(r), Script(r)[i]) = StartOf(calls, Group(r), Script(r)[i])
    BY <1>1, <2>2, <2>3, <2>4
  <2> QED BY <1>6, <1>7, <2>1, <2>2, <2>5, PairFrame
<1>9. \A r, q \in World : Group(r) = Group(q) /\ Down(r)' /\ ~Down(q)' =>
            ~Down(q) /\ \A i \in 1..Len(order) : Script(q)'[i] = Script(q)[i]
  BY <1>5, <1>7
<1>10. \A r \in World : Down(r)' => executed'[r] = executed[r] BY <1>1
<1> QED BY <1>4, <1>8, <1>9, <1>10, GroupInvStep

LEMMA CallGroup ==
  ASSUME TypeInv, QueueInv, GroupInv, TypeInv', QueueInv', NEW s \in Shapes, Call(s)
  PROVE  GroupInv'
<1>1. calls' = Append(calls, s) /\ UNCHANGED <<order, deferred, at, cmd, picked, current, next_at, executed>>
  BY DEF Call, sending, work
<1>2. calls \in Seq(Shapes) /\ RanksType BY DEF TypeInv, CallsType
<1>3. \A c \in Ids : calls'[c] = calls[c] BY <1>1, <1>2 DEF Ids
<1>4. RankBounds BY Bounds
<1>5. order \in Seq(Ids) BY <1>4 DEF RankBounds
<1>6. Len(order) \in Nat /\ Len(order) <= Len(order') BY <1>1, <1>5
<1>7. \A q \in World : Down(q)' <=> Down(q) BY <1>1 DEF Down
<1>8. ASSUME NEW q \in World, ~Down(q) PROVE SameView(q)
  <2>1. RankOk(q) BY DEF TypeInv
  <2>2. Refilling(q)' <=> Refilling(q) BY <1>1 DEF Refilling
  <2>3. Refilling(q) => picked[q] \in Ids /\ cmd[q] \in Ids BY <2>1 DEF RankOk, Refilling
  <2>4. Refilling(q) => (Compatible(q, picked[q])' <=> Compatible(q, picked[q])) BY <1>1, <1>3, <2>3 DEF Compatible
  <2>5. Joining(q)' <=> Joining(q) BY <1>1, <2>2, <2>4 DEF Joining
  <2>6. Done(q)' = Done(q) BY <1>1, <2>5 DEF Done
  <2>7. Batch(q)' = Batch(q)
    <3>1. Joining(q) => calls'[picked[q]] = calls[picked[q]] BY <1>3, <2>3 DEF Joining
    <3> QED BY <1>1, <2>5, <3>1 DEF Batch
  <2>8. Phase(q)' = Phase(q) BY <1>1, <2>2, <2>5 DEF Phase
  <2>9. Script(q)' = Script(q) /\ Level(q)' = Level(q) /\ Had(q)' = Had(q)
    BY <1>1, <2>2, <2>6 DEF Script, Level, Had
  <2> QED BY <1>1, <2>7, <2>8, <2>9 DEF SameView, SamePlaceAsBefore
<1>9. ASSUME NEW q \in World, ~Down(q)
      PROVE  Level(q) \in Nat /\ \A i \in 1..Level(q) : Script(q)[i] \in Ids
  BY <1>9, UpRank
<1>10. ASSUME NEW r \in World, NEW q \in World, Group(r) = Group(q), ~Down(r)', ~Down(q)' PROVE PairOk(r, q)'
  <2>1. PairOk(r, q) /\ ~Down(r) /\ ~Down(q) BY <1>7, <1>10 DEF GroupInv
  <2>2. /\ SamePlaceAsBefore(r) /\ SamePlaceAsBefore(q) /\ Script(r)' = Script(r) /\ Script(q)' = Script(q)
    BY <1>8, <2>1 DEF SameView
  <2>3. Script(r) = Script(q) BY <2>1 DEF PairOk
  <2>4. \A i \in 1..Level(q) : StartOf(calls', Group(r), Script(r)[i]) = StartOf(calls, Group(r), Script(r)[i])
    BY <1>3, <1>9, <2>1, <2>3 DEF StartOf
  <2> QED BY <1>9, <2>1, <2>2, <2>4, PairFrame
<1>11. \A r, q \in World : Group(r) = Group(q) /\ Down(r)' /\ ~Down(q)' =>
            ~Down(q) /\ \A i \in 1..Len(order) : Script(q)'[i] = Script(q)[i]
  BY <1>7, <1>8 DEF SameView
<1>12. \A r \in World : Down(r)' => executed'[r] = executed[r] BY <1>1
<1> QED BY <1>6, <1>10, <1>11, <1>12, GroupInvStep

\* The larger of what was had and the level reached.
AtLeast(h, m) == IF h < m THEN m ELSE h

LEMMA AtLeastTwice ==
  ASSUME NEW h \in Nat, NEW a \in Nat, NEW b \in Nat, a <= b
  PROVE  AtLeast(AtLeast(h, a), b) = AtLeast(h, b)
BY DEF AtLeast

\* A rank of the main loop begins the next command of its script.
Advances(r) ==
  LET c == Script(r)[Level(r) + 1]
  IN  /\ Phase(r) = "main"
      /\ Script(r)' = Script(r) /\ Level(r)' = Level(r) + 1 /\ Had(r)' = AtLeast(Had(r), Level(r) + 1)
      /\ Phase(r)' = StartOf(calls, Group(r), c) /\ cmd'[r] = c
      /\ Phase(r)' = "refill" => Batch(r)' = <<c>>

LEMMA AdvancePair ==
  ASSUME NEW r \in World, NEW q \in World, Group(r) = Group(q), PairOk(r, q), PairOk(q, r), calls' = calls,
         Level(r) \in Nat, Level(q) \in Nat, Had(r) \in Nat, Had(q) \in Nat,
         Advances(r), SameView(q)
  PROVE  PairOk(r, q)' /\ PairOk(q, r)'
<1> DEFINE c == Script(r)[Level(r) + 1]
<1>1. /\ Phase(r) = "main" /\ Script(r)' = Script(r) /\ Level(r)' = Level(r) + 1
      /\ Had(r)' = AtLeast(Had(r), Level(r) + 1) /\ Phase(r)' = StartOf(calls, Group(r), c) /\ cmd'[r] = c
      /\ Phase(r)' = "refill" => Batch(r)' = <<c>>
  BY DEF Advances
<1>2. /\ Script(q)' = Script(q) /\ Level(q)' = Level(q) /\ Had(q)' = Had(q) /\ Phase(q)' = Phase(q)
      /\ cmd'[q] = cmd[q] /\ Batch(q)' = Batch(q)
  BY DEF SameView, SamePlaceAsBefore
<1>3. Script(r) = Script(q) BY DEF PairOk
<1>4. StartOf(calls, Group(r), c) \in {"exec", "refill", "main"} BY DEF StartOf
<1>5. CASE Level(r) + 1 < Level(q)
  <2>1. Behind(r, q) BY <1>5 DEF PairOk
  <2>2. StartOf(calls, Group(r), c) = "main" BY <1>5, <2>1 DEF Behind
  <2>3. Had(q) = AtLeast(Had(r), Level(q)) BY <2>1 DEF Behind, AtLeast
  <2>4. Had(q) = AtLeast(Had(r)', Level(q)) BY <1>1, <1>5, <2>3, AtLeastTwice
  <2>5. Behind(r, q)'
    <3>1. \A i \in Level(r)' + 1 .. Level(q)' - 1 : StartOf(calls', Group(r), Script(r)'[i]) = "main"
      BY <1>1, <1>2, <2>1 DEF Behind
    <3> QED BY <1>1, <1>2, <2>1, <2>2, <2>4, <3>1 DEF Behind, AtLeast
  <2>6. ~(Level(r)' = Level(q)') /\ ~(Level(q)' < Level(r)') BY <1>1, <1>2, <1>5
  <2> QED BY <1>1, <1>2, <1>3, <2>5, <2>6 DEF PairOk
<1>6. CASE Level(r) + 1 = Level(q)
  <2>1. Behind(r, q) BY <1>6 DEF PairOk
  <2>2. Phase(q) = StartOf(calls, Group(r), c) /\ (Phase(q) # "main" => cmd[q] = c)
        /\ (Phase(q) = "refill" => Batch(q) = <<c>>) /\ Had(q) = AtLeast(Had(r), Level(r) + 1)
    BY <1>6, <2>1 DEF Behind, AtLeast
  <2>3. SamePlace(r, q)' /\ SamePlace(q, r)' BY <1>1, <1>2, <1>4, <2>2 DEF SamePlace
  <2>4. ~(Level(r)' < Level(q)') /\ ~(Level(q)' < Level(r)') BY <1>1, <1>2, <1>6
  <2> QED BY <1>1, <1>2, <1>3, <2>3, <2>4 DEF PairOk
<1>7. CASE Level(q) = Level(r)
  <2>1. SamePlace(r, q) BY <1>7 DEF PairOk
  <2>2. Phase(q) = "main" /\ Had(q) = Had(r) BY <1>1, <2>1 DEF SamePlace
  <2>3. Behind(q, r)'
    <3>1. \A i \in Level(q)' + 1 .. Level(r)' - 1 : StartOf(calls', Group(q), Script(q)'[i]) = "main"
      BY <1>1, <1>2, <1>7
    <3>2. Script(q)'[Level(r)'] = c BY <1>1, <1>2, <1>3, <1>7
    <3> QED BY <1>1, <1>2, <1>7, <2>2, <3>1, <3>2 DEF Behind, AtLeast
  <2>4. ~(Level(r)' = Level(q)') /\ ~(Level(r)' < Level(q)') BY <1>1, <1>2, <1>7
  <2> QED BY <1>1, <1>2, <1>3, <2>3, <2>4 DEF PairOk
<1>8. CASE Level(q) < Level(r)
  <2>1. Behind(q, r) BY <1>8 DEF PairOk
  <2>2. Phase(q) = "main" /\ StartOf(calls, Group(q), Script(q)[Level(r)]) = "main" BY <1>1, <2>1 DEF Behind
  <2>3. Had(r) = AtLeast(Had(q), Level(r)) BY <2>1 DEF Behind, AtLeast
  <2>4. Had(r)' = AtLeast(Had(q), Level(r) + 1) BY <1>1, <2>3, AtLeastTwice
  <2>5. Behind(q, r)'
    <3>1. ASSUME NEW i \in Level(q)' + 1 .. Level(r)' - 1 PROVE StartOf(calls', Group(q), Script(q)'[i]) = "main"
      <4>1. i = Level(r) \/ i \in Level(q) + 1 .. Level(r) - 1 BY <1>1, <1>2, <1>8
      <4> QED BY <1>2, <2>1, <2>2, <4>1 DEF Behind
    <3>2. Script(q)'[Level(r)'] = c BY <1>1, <1>2, <1>3
    <3> QED BY <1>1, <1>2, <2>2, <2>4, <3>1, <3>2 DEF Behind, AtLeast
  <2>6. ~(Level(r)' = Level(q)') /\ ~(Level(r)' < Level(q)') BY <1>1, <1>2, <1>8
  <2> QED BY <1>1, <1>2, <1>3, <2>5, <2>6 DEF PairOk
<1> QED BY <1>5, <1>6, <1>7, <1>8

\* TakeCommand, without its queues.
LEMMA Takes ==
  ASSUME TypeInv, NEW r \in World, NEW c \in Ids, TakeCommand(r, c)
  PROVE  /\ at[r] = "idle" /\ NextCommand(r, c)
         /\ cmd'[r] = c /\ executed'[r] = Append(executed[r], c)
         /\ UNCHANGED <<calls, order, sender, put_rank, picked>>
         /\ \A q \in World \ {r} :
              /\ executed'[q] = executed[q] /\ deferred'[q] = deferred[q] /\ at'[q] = at[q] /\ cmd'[q] = cmd[q]
              /\ picked'[q] = picked[q] /\ current'[q] = current[q] /\ next_at'[q] = next_at[q]
         /\ \/ calls[c].op = "other" /\ at'[r] = "exec"
            \/ /\ calls[c].op = "rollout" /\ Group(r) \in calls[c].rows
               /\ at'[r] = "refill" /\ current'[r] = <<c>>
            \/ /\ calls[c].op = "rollout" /\ Group(r) \notin calls[c].rows
               /\ at'[r] = "posting" /\ next_at'[r] = "idle"
<1>1. RanksType BY DEF TypeInv
<1>2. calls[c] \in Shapes BY DEF TypeInv, CallsType, Ids
<1>3. calls[c].op \in {"rollout", "other"} BY <1>2, ClusterAssumption
<1>4. /\ at[r] = "idle" /\ NextCommand(r, c) /\ cmd' = [cmd EXCEPT ![r] = c]
      /\ executed' = [executed EXCEPT ![r] = Append(@, c)] /\ UNCHANGED <<calls, order, sender, put_rank, picked>>
  BY DEF TakeCommand, callers, sending
<1>5. cmd'[r] = c /\ executed'[r] = Append(executed[r], c)
      /\ \A q \in World \ {r} : executed'[q] = executed[q] /\ cmd'[q] = cmd[q] /\ deferred'[q] = deferred[q]
  BY <1>1, <1>4 DEF RanksType, NextCommand
<1>6. CASE calls[c].op = "other"
  <2>1. at' = [at EXCEPT ![r] = "exec"] /\ UNCHANGED <<current, next_at>> BY <1>6 DEF TakeCommand
  <2> QED BY <1>1, <1>4, <1>5, <1>6, <2>1 DEF RanksType
<1>7. CASE calls[c].op = "rollout" /\ Group(r) \in calls[c].rows
  <2>1. at' = [at EXCEPT ![r] = "refill"] /\ current' = [current EXCEPT ![r] = <<c>>] /\ UNCHANGED next_at
    BY <1>7 DEF TakeCommand
  <2> QED BY <1>1, <1>4, <1>5, <1>7, <2>1 DEF RanksType
<1>8. CASE calls[c].op = "rollout" /\ Group(r) \notin calls[c].rows
  <2>1. at' = [at EXCEPT ![r] = "posting"] /\ next_at' = [next_at EXCEPT ![r] = "idle"] /\ UNCHANGED current
    BY <1>8 DEF TakeCommand
  <2> QED BY <1>1, <1>4, <1>5, <1>8, <2>1 DEF RanksType
<1> QED BY <1>3, <1>6, <1>7, <1>8

\* What it takes is the next command of its script.
LEMMA TakeCommandAdvances ==
  ASSUME TypeInv, QueueInv, NEW r \in World, NEW c \in Ids, TakeCommand(r, c)
  PROVE  Advances(r)
<1>1. at[r] = "idle" /\ NextCommand(r, c) /\ cmd'[r] = c /\ executed'[r] = Append(executed[r], c)
      /\ UNCHANGED <<calls, order, sender, put_rank, picked>>
  BY Takes
<1>2. at'[r] \in {"exec", "refill", "posting"} BY Takes
<1>3. ~Down(r) /\ ~InHand(r) /\ ~Refilling(r) /\ ~Joining(r) /\ ~Refilling(r)' /\ ~Joining(r)'
  BY <1>1, <1>2 DEF Down, InHand, Refilling, Joining
<1>4. PICK e, d, l, n, t \in Nat : QueueIs(r, e, d, l, n, t) /\ t + l <= n BY <1>3, QueueNumbers
<1>5. /\ e = Len(executed[r]) /\ d = Len(deferred[r]) /\ l = Len(cmdq[r]) /\ n = Len(order) /\ t = e + d
      /\ \A i \in 1..l : cmdq[r][i] = order[t + i]
  BY <1>3, <1>4, Zenon DEF QueueIs
<1>6. RanksType BY DEF TypeInv
<1>7. executed[r] \in Seq(Ids) /\ deferred[r] \in Seq(Ids) /\ cmdq[r] \in Seq(Ids) /\ order \in Seq(Ids)
  BY <1>6 DEF RanksType, TypeInv, CallsType
<1>8. Done(r) = executed[r] /\ Done(r)' = Append(executed[r], c) BY <1>1, <1>3 DEF Done
<1>9. Level(r) = e BY <1>5, <1>8, Zenon DEF Level
<1>10. Level(r)' = e + 1
  <2>1. Len(Append(executed[r], c)) = Len(executed[r]) + 1 BY <1>7
  <2> QED BY <1>5, <1>8, <2>1, Zenon DEF Level
<1>11. Had(r) = e + d
  <2>1. Had(r) = e + d + 0 BY <1>3, <1>5, Zenon DEF Had
  <2> QED BY <2>1
<1>12. Script(r) = ScriptOf(executed[r], deferred[r], order) /\ Script(r)' = ScriptOf(Append(executed[r], c), deferred'[r], order)
  BY <1>1, <1>8 DEF Script
<1>13. Len(executed[r]) + Len(deferred[r]) <= Len(order) BY <1>3, <1>8, UpRank
<1>14. Script(r)' = Script(r) /\ Script(r)[e + 1] = c /\ Had(r)' = AtLeast(Had(r), e + 1)
  <2>1. CASE deferred[r] # << >>
    <3>1. c = Head(deferred[r]) /\ deferred'[r] = Tail(deferred[r]) BY <1>1, <1>6, <2>1 DEF NextCommand, RanksType
    <3>2. ScriptOf(Append(executed[r], Head(deferred[r])), Tail(deferred[r]), order) = ScriptOf(executed[r], deferred[r], order)
      BY <1>7, <1>13, <2>1, ScriptTakesLate
    <3>3. Script(r)' = Script(r) BY <1>12, <3>1, <3>2, Zenon
    <3>4. Head(deferred[r]) = deferred[r][1] /\ Len(deferred[r]) \in Nat \ {0} /\ Len(Tail(deferred[r])) = Len(deferred[r]) - 1
      BY <1>7, <2>1, HeadAndTail
    <3>5. d \in Nat \ {0} /\ Len(deferred'[r]) = d - 1 BY <1>5, <3>1, <3>4, Zenon
    <3>6. \A i \in 1..n : Script(r)[i] = IF i <= e THEN executed[r][i] ELSE IF i <= e + d THEN deferred[r][i - e] ELSE order[i]
      BY <1>5, <1>12, Zenon DEF ScriptOf
    <3>7. e + 1 \in 1..n /\ ~(e + 1 <= e) /\ e + 1 <= e + d /\ (e + 1) - e = 1
      <4>1. t = e + d /\ t + l <= n BY <1>4, <1>5, Zenon
      <4> HIDE <1>5
      <4> QED BY <3>5, <4>1
    <3>8. Script(r)[e + 1] = c BY <3>1, <3>4, <3>6, <3>7, Zenon
    <3>9. Had(r)' = (e + 1) + (d - 1) + 0 BY <1>3, <1>8, <1>10, <3>5, Zenon DEF Had, Level, Done
    <3>10. (e + 1) + (d - 1) + 0 = e + d /\ ~(e + d < e + 1) BY <3>5
    <3> QED BY <1>11, <3>3, <3>8, <3>9, <3>10, Zenon DEF AtLeast
  <2>2. CASE deferred[r] = << >>
    <3>1. cmdq[r] # << >> /\ c = Head(cmdq[r]) /\ deferred'[r] = deferred[r] BY <1>1, <1>6, <2>2 DEF NextCommand, RanksType
    <3>2. Head(cmdq[r]) = cmdq[r][1] /\ Len(cmdq[r]) \in Nat \ {0} BY <1>7, <3>1, HeadAndTail
    <3>3. l \in Nat \ {0} /\ c = cmdq[r][1] BY <1>5, <3>1, <3>2, Zenon
    <3>4. d = 0
      <4>1. Len(<< >>) = 0 OBVIOUS
      <4> QED BY <1>5, <2>2, <4>1, Zenon
    <3>5. 1 \in 1..l /\ t + 1 = e + 1 /\ e + 1 <= n /\ e + 1 \in 1..n
      <4>1. t = e + d /\ t + l <= n BY <1>4, <1>5, Zenon
      <4> HIDE <1>5
      <4> QED BY <3>3, <3>4, <4>1
    <3>6. c = order[e + 1] BY <1>5, <3>3, <3>5, Zenon
    <3>7. Script(r)' = Script(r)
      <4>1. Len(executed[r]) + 1 <= Len(order) BY <1>5, <3>5, Zenon
      <4>2. ScriptOf(Append(executed[r], order[Len(executed[r]) + 1]), << >>, order) = ScriptOf(executed[r], << >>, order)
        BY <1>7, <4>1, ScriptTakesSent
      <4>3. c = order[Len(executed[r]) + 1] BY <1>5, <3>6, Zenon
      <4> QED BY <1>12, <2>2, <3>1, <4>2, <4>3, Zenon
    <3>8. Script(r)[e + 1] = c
      <4>1. \A i \in 1..n : Script(r)[i] = IF i <= e THEN executed[r][i] ELSE IF i <= e + d THEN deferred[r][i - e] ELSE order[i]
        BY <1>5, <1>12, Zenon DEF ScriptOf
      <4>2. ~(e + 1 <= e) /\ ~(e + 1 <= e + d) BY <3>4
      <4> QED BY <3>5, <3>6, <4>1, <4>2, Zenon
    <3>9. Had(r)' = (e + 1) + d + 0 BY <1>3, <1>5, <1>8, <1>10, <3>1, Zenon DEF Had, Level, Done
    <3>10. (e + 1) + d + 0 = e + 1 /\ e + d < e + 1 BY <3>4
    <3> QED BY <1>11, <3>7, <3>8, <3>9, <3>10, Zenon DEF AtLeast
  <2> QED BY <2>1, <2>2
<1>15. Phase(r) = "main" BY <1>1 DEF Phase
<1>16. Phase(r)' = StartOf(calls, Group(r), c) /\ (Phase(r)' = "refill" => Batch(r)' = <<c>>)
  <2>1. CASE calls[c].op = "other" /\ at'[r] = "exec"
    <3>1. Phase(r)' = "exec" BY <1>3, <2>1 DEF Phase
    <3> QED BY <2>1, <3>1 DEF StartOf
  <2>2. CASE calls[c].op = "rollout" /\ Group(r) \in calls[c].rows /\ at'[r] = "refill" /\ current'[r] = <<c>>
    <3>1. Phase(r)' = "refill" /\ Batch(r)' = <<c>> BY <1>3, <2>2 DEF Phase, Batch
    <3> QED BY <2>2, <3>1 DEF StartOf
  <2>3. CASE calls[c].op = "rollout" /\ Group(r) \notin calls[c].rows /\ at'[r] = "posting" /\ next_at'[r] = "idle"
    <3>1. Phase(r)' = "main" BY <1>3, <2>3 DEF Phase
    <3> QED BY <2>3, <3>1 DEF StartOf
  <2> QED BY <2>1, <2>2, <2>3, Takes
<1> QED BY <1>1, <1>9, <1>10, <1>14, <1>15, <1>16, Zenon DEF Advances

LEMMA TakeCommandGroup ==
  ASSUME TypeInv, QueueInv, GroupInv, TypeInv', QueueInv', NEW r \in World, NEW c \in Ids, TakeCommand(r, c)
  PROVE  GroupInv'
<1>1. /\ at[r] = "idle" /\ UNCHANGED <<calls, order>> /\ at'[r] \in {"exec", "refill", "posting"}
      /\ \A q \in World \ {r} :
              /\ executed'[q] = executed[q] /\ deferred'[q] = deferred[q] /\ at'[q] = at[q] /\ cmd'[q] = cmd[q]
              /\ picked'[q] = picked[q] /\ current'[q] = current[q] /\ next_at'[q] = next_at[q]
  BY Takes
<1>2. Advances(r) BY TakeCommandAdvances
<1>3. \A q \in World \ {r} : SameView(q) BY <1>1, ViewFrame
<1>4. ~Down(r) /\ ~Down(r)' /\ \A q \in World \ {r} : Down(q)' <=> Down(q) BY <1>1 DEF Down
<1>5. ASSUME NEW q \in World, NEW p \in World, Group(q) = Group(p), ~Down(q)', ~Down(p)' PROVE PairOk(q, p)'
  <2>1. ~Down(q) /\ ~Down(p) BY <1>4, <1>5
  <2>2. /\ Level(q) \in Nat /\ Level(p) \in Nat /\ Had(q) \in Nat /\ Had(p) \in Nat BY <2>1, UpRank
  <2>3. PairOk(q, p) /\ PairOk(p, q) BY <1>5, <2>1 DEF GroupInv
  <2>4. CASE q = r /\ p = r
    <3>1. Level(r)' = Level(r) + 1 BY <1>2 DEF Advances
    <3>2. ~(Level(r)' < Level(r)') BY <2>2, <2>4, <3>1
    <3> QED BY <2>4, <3>2 DEF PairOk, SamePlace
  <2>5. CASE q = r /\ p # r BY <1>1, <1>2, <1>3, <1>5, <2>2, <2>3, <2>5, AdvancePair
  <2>6. CASE q # r /\ p = r BY <1>1, <1>2, <1>3, <1>5, <2>2, <2>3, <2>6, AdvancePair
  <2>7. CASE q # r /\ p # r
    <3>1. SamePlaceAsBefore(q) /\ SamePlaceAsBefore(p) /\ Script(q)' = Script(q) /\ Script(p)' = Script(p)
      BY <1>3, <2>7 DEF SameView
    <3> QED BY <1>1, <2>2, <2>3, <3>1, PairFrame
  <2> QED BY <2>4, <2>5, <2>6, <2>7
<1>6. \A q, p \in World : Group(q) = Group(p) /\ Down(q)' /\ ~Down(p)' =>
            ~Down(p) /\ \A i \in 1..Len(order) : Script(p)'[i] = Script(p)[i]
  <2>1. Script(r)' = Script(r) BY <1>2 DEF Advances
  <2> QED BY <1>3, <1>4, <2>1 DEF SameView
<1>7. \A q \in World : Down(q)' => executed'[q] = executed[q] BY <1>1, <1>4
<1>8. Len(order) <= Len(order')
  <2>1. Len(order) \in Nat BY <1>4, UpRank
  <2> QED BY <1>1, <2>1
<1> QED BY <1>5, <1>6, <1>7, <1>8, GroupInvStep

\* Ranks in the same phase, other than that of the main loop, are in the same place.
LEMMA Together ==
  ASSUME TypeInv, QueueInv, GroupInv, NEW r \in World, NEW q \in World, Group(r) = Group(q), ~Down(r), ~Down(q),
         Phase(r) = Phase(q), Phase(r) # "main"
  PROVE  Script(r) = Script(q) /\ Level(r) = Level(q) /\ SamePlace(r, q)
<1>1. PairOk(r, q) /\ PairOk(q, r) BY DEF GroupInv
<1>2. Level(r) \in Nat /\ Level(q) \in Nat BY UpRank
<1>3. ~(Level(r) < Level(q)) BY <1>1 DEF PairOk, Behind
<1>4. ~(Level(q) < Level(r)) BY <1>1 DEF PairOk, Behind
<1>5. Level(r) = Level(q) BY <1>2, <1>3, <1>4
<1> QED BY <1>1, <1>5 DEF PairOk

\* A step that all the ranks of a group, and no others, take together.
LEMMA TogetherGroup ==
  ASSUME TypeInv, QueueInv, GroupInv, TypeInv', QueueInv', UNCHANGED <<calls, order>>, NEW g,
         \A q \in World : Group(q) # g =>
            /\ executed'[q] = executed[q] /\ deferred'[q] = deferred[q] /\ at'[q] = at[q] /\ cmd'[q] = cmd[q]
            /\ picked'[q] = picked[q] /\ current'[q] = current[q] /\ next_at'[q] = next_at[q],
         \A q \in World : Group(q) = g => ~Down(q)',
         \A r, q \in World : Group(r) = g /\ Group(q) = g =>
            Script(r)' = Script(q)' /\ Level(r)' = Level(q)' /\ SamePlace(r, q)'
  PROVE  GroupInv'
<1>1. \A q \in World : Group(q) # g => SameView(q) /\ (Down(q)' <=> Down(q)) /\ executed'[q] = executed[q]
  BY ViewFrame DEF Down
<1>2. ASSUME NEW q \in World, NEW p \in World, Group(q) = Group(p), ~Down(q)', ~Down(p)' PROVE PairOk(q, p)'
  <2>1. CASE Group(q) = g
    <3>1. Script(q)' = Script(p)' /\ Level(q)' = Level(p)' /\ SamePlace(q, p)' BY <1>2, <2>1
    <3>2. Level(p)' \in Nat
      <4>1. RankBounds' BY BoundsNext
      <4>2. Done(p)' \in Seq(Ids') BY <1>2, <4>1 DEF RankBounds
      <4> QED BY <4>2 DEF Level
    <3>3. ~(Level(q)' < Level(p)') BY <3>1, <3>2
    <3> QED BY <3>1, <3>3 DEF PairOk
  <2>2. CASE Group(q) # g
    <3>1. ~Down(q) /\ ~Down(p) /\ SameView(q) /\ SameView(p) BY <1>1, <1>2, <2>2
    <3>2. /\ SamePlaceAsBefore(q) /\ SamePlaceAsBefore(p) /\ Script(q)' = Script(q) /\ Script(p)' = Script(p)
      BY <3>1 DEF SameView
    <3>3. PairOk(q, p) BY <1>2, <3>1 DEF GroupInv
    <3>4. Level(q) \in Nat /\ Level(p) \in Nat BY <3>1, UpRank
    <3> QED BY <3>2, <3>3, <3>4, PairFrame
  <2> QED BY <2>1, <2>2
<1>3. \A q, p \in World : Group(q) = Group(p) /\ Down(q)' /\ ~Down(p)' =>
            ~Down(p) /\ \A i \in 1..Len(order) : Script(p)'[i] = Script(p)[i]
  BY <1>1 DEF SameView
<1>4. \A q \in World : Down(q)' => executed'[q] = executed[q] BY <1>1
<1>5. Len(order) <= Len(order')
  <2>1. Len(order) \in Nat BY DEF TypeInv, CallsType
  <2> QED BY <2>1
<1> QED BY <1>2, <1>3, <1>4, <1>5, GroupInvStep

LEMMA ExecuteGroup ==
  ASSUME TypeInv, QueueInv, GroupInv, TypeInv', QueueInv', NEW g \in Groups, Execute(g)
  PROVE  GroupInv'
<1>1. /\ \A r \in World : Group(r) = g => at[r] = "exec"
      /\ at' = [r \in World |-> IF Group(r) = g THEN "posting" ELSE at[r]]
      /\ next_at' = [r \in World |-> IF Group(r) = g THEN "idle" ELSE next_at[r]]
      /\ UNCHANGED <<calls, order, deferred, cmd, picked, current, executed>>
  BY DEF Execute, Members, callers, sending
<1>2. \A q \in World : Group(q) = g => at'[q] = "posting" /\ next_at'[q] = "idle" BY <1>1
<1>3. \A q \in World : Group(q) # g => at'[q] = at[q] /\ next_at'[q] = next_at[q] BY <1>1
<1>4. ASSUME NEW r \in World, Group(r) = g
      PROVE  /\ ~Down(r) /\ ~Down(r)' /\ Phase(r) = "exec" /\ Phase(r)' = "main"
             /\ Script(r)' = Script(r) /\ Level(r)' = Level(r) /\ Had(r)' = Had(r)
  <2>1. ~Refilling(r) /\ ~Refilling(r)' /\ ~Joining(r) /\ ~Joining(r)' BY <1>1, <1>2, <1>4 DEF Refilling, Joining
  <2>2. Phase(r) = "exec" /\ Phase(r)' = "main" BY <1>1, <1>2, <1>4, <2>1 DEF Phase
  <2>3. Script(r)' = Script(r) /\ Level(r)' = Level(r) /\ Had(r)' = Had(r)
    BY <1>1, <2>1 DEF Script, Level, Had, Done
  <2> QED BY <1>1, <1>2, <1>4, <2>2, <2>3 DEF Down
<1>5. ASSUME NEW r \in World, NEW q \in World, Group(r) = g, Group(q) = g
      PROVE  Script(r)' = Script(q)' /\ Level(r)' = Level(q)' /\ SamePlace(r, q)'
  <2>1. Script(r) = Script(q) /\ Level(r) = Level(q) /\ SamePlace(r, q) BY <1>4, <1>5, Together
  <2> QED BY <1>4, <1>5, <2>1 DEF SamePlace
<1> QED BY <1>1, <1>3, <1>4, <1>5, TogetherGroup

LEMMA ForwardGroup ==
  ASSUME TypeInv, QueueInv, GroupInv, TypeInv', QueueInv', NEW g \in Groups, Forward(g)
  PROVE  GroupInv'
<1>1. PICK done : /\ current' = [r \in World |-> IF Group(r) = g THEN Left(r, done) ELSE current[r]]
                  /\ at' = [r \in World |->
                              IF Group(r) # g THEN at[r]
                              ELSE IF Finished(r, done) = << >> THEN "refill" ELSE "posting"]
                  /\ next_at' = [r \in World |-> IF Group(r) = g THEN "refill" ELSE next_at[r]]
  BY DEF Forward
<1>2. /\ \A r \in World : Group(r) = g => at[r] = "forward"
      /\ UNCHANGED <<calls, order, deferred, cmd, picked, executed>>
  BY DEF Forward, Members, callers, sending
<1>3. \A q \in World : Group(q) = g =>
        at'[q] \in {"refill", "posting"} /\ next_at'[q] = "refill" /\ current'[q] = Left(q, done)
  BY <1>1
<1>4. \A q \in World : Group(q) # g => at'[q] = at[q] /\ next_at'[q] = next_at[q] /\ current'[q] = current[q] BY <1>1
<1>5. ASSUME NEW r \in World, Group(r) = g
      PROVE  /\ ~Down(r) /\ ~Down(r)' /\ Phase(r) = "forward" /\ Phase(r)' = "refill"
             /\ Script(r)' = Script(r) /\ Level(r)' = Level(r) /\ Had(r)' = Had(r)
             /\ Batch(r) = current[r] /\ Batch(r)' = Left(r, done)
  <2>1. ~Refilling(r) /\ ~Refilling(r)' /\ ~Joining(r) /\ ~Joining(r)' BY <1>2, <1>3, <1>5 DEF Refilling, Joining
  <2>2. Phase(r) = "forward" /\ Phase(r)' = "refill" BY <1>2, <1>3, <1>5, <2>1 DEF Phase
  <2>3. Script(r)' = Script(r) /\ Level(r)' = Level(r) /\ Had(r)' = Had(r)
    BY <1>2, <2>1 DEF Script, Level, Had, Done
  <2>4. Batch(r) = current[r] /\ Batch(r)' = Left(r, done) BY <1>3, <1>5, <2>1 DEF Batch
  <2> QED BY <1>2, <1>3, <1>5, <2>2, <2>3, <2>4 DEF Down
<1>6. ASSUME NEW r \in World, NEW q \in World, Group(r) = g, Group(q) = g
      PROVE  Script(r)' = Script(q)' /\ Level(r)' = Level(q)' /\ SamePlace(r, q)'
  <2>1. Script(r) = Script(q) /\ Level(r) = Level(q) /\ SamePlace(r, q) BY <1>5, <1>6, Together
  <2>2. cmd[r] = cmd[q] /\ Had(r) = Had(q) /\ current[r] = current[q] BY <1>5, <1>6, <2>1 DEF SamePlace
  <2>3. Left(r, done) = Left(q, done) BY <2>2 DEF Left
  <2> QED BY <1>2, <1>5, <1>6, <2>1, <2>2, <2>3 DEF SamePlace
<1> QED BY <1>2, <1>4, <1>5, <1>6, TogetherGroup

\* Before a broadcast the ranks of the group have done and put off the same.
LEMMA BeforeBroadcast ==
  ASSUME TypeInv, QueueInv, GroupInv, NEW r \in World, NEW q \in World, Group(r) = Group(q),
         at[r] \in {"refill", "picked"}, at[q] \in {"refill", "picked"}
  PROVE  executed[r] = executed[q] /\ deferred[r] = deferred[q] /\ current[r] = current[q] /\ cmd[r] = cmd[q]
<1>1. /\ ~Down(r) /\ ~Refilling(r) /\ ~Joining(r) /\ ~Down(q) /\ ~Refilling(q) /\ ~Joining(q)
  BY DEF Down, Refilling, Joining
<1>2. Phase(r) = "refill" /\ Phase(q) = "refill" BY <1>1 DEF Phase
<1>3. Script(r) = Script(q) /\ Level(r) = Level(q) /\ SamePlace(r, q) BY <1>1, <1>2, Together
<1>4. Done(r) = executed[r] /\ Done(q) = executed[q] /\ Batch(r) = current[r] /\ Batch(q) = current[q]
  BY <1>1 DEF Done, Batch
<1>5. /\ executed[r] \in Seq(Ids) /\ executed[q] \in Seq(Ids) /\ deferred[r] \in Seq(Ids) /\ deferred[q] \in Seq(Ids)
      /\ order \in Seq(Ids)
  BY DEF TypeInv, RanksType, CallsType
<1>6. Len(executed[r]) = Len(executed[q]) BY <1>3, <1>4 DEF Level
<1>7. Len(deferred[r]) = Len(deferred[q])
  <2>1. Len(executed[r]) + Len(deferred[r]) + 0 = Len(executed[q]) + Len(deferred[q]) + 0
    BY <1>1, <1>3, Zenon DEF SamePlace, Had
  <2>2. Len(executed[r]) \in Nat /\ Len(deferred[r]) \in Nat /\ Len(deferred[q]) \in Nat BY <1>5
  <2>3. \A a, b, c \in Nat : a + b + 0 = a + c + 0 => b = c OBVIOUS
  <2> QED BY <1>6, <2>1, <2>2, <2>3
<1>8. Len(executed[r]) + Len(deferred[r]) <= Len(order) BY <1>1, <1>4, UpRank
<1>9. ScriptOf(executed[r], deferred[r], order) = ScriptOf(executed[q], deferred[q], order) BY <1>3, <1>4 DEF Script
<1>10. \A s, d1, l1, d2, l2 \in Seq(Ids) :
         /\ Len(d1) = Len(d2) /\ Len(l1) = Len(l2) /\ Len(d1) + Len(l1) <= Len(s)
         /\ ScriptOf(d1, l1, s) = ScriptOf(d2, l2, s)
         => d1 = d2 /\ l1 = l2
  BY SameLate
<1>11. \A d1, l1, d2, l2 \in Seq(Ids) :
         /\ Len(d1) = Len(d2) /\ Len(l1) = Len(l2) /\ Len(d1) + Len(l1) <= Len(order)
         /\ ScriptOf(d1, l1, order) = ScriptOf(d2, l2, order)
         => d1 = d2 /\ l1 = l2
  BY <1>5, <1>10, Zenon
<1>12. \A d2, l2 \in Seq(Ids) :
         /\ Len(executed[r]) = Len(d2) /\ Len(deferred[r]) = Len(l2)
         /\ ScriptOf(executed[r], deferred[r], order) = ScriptOf(d2, l2, order)
         => executed[r] = d2 /\ deferred[r] = l2
  BY <1>5, <1>8, <1>11, Zenon
<1>13. executed[r] = executed[q] /\ deferred[r] = deferred[q] BY <1>5, <1>6, <1>7, <1>9, <1>12, Zenon
<1> QED BY <1>2, <1>3, <1>4, <1>13 DEF SamePlace

LEMMA BroadcastQueues ==
  ASSUME TypeInv, QueueInv, GroupInv, NEW g \in Groups, BroadcastHeader(g)
  PROVE  QueueInv'
<1>1. PICK leader \in World :
        /\ Group(leader) = g /\ at[leader] = "picked"
        /\ \A r \in World : Group(r) = g => at[r] \in {"refill", "picked"}
        /\ \A r \in World : Group(r) = g /\ r # leader => at[r] = "refill"
        /\ picked' = [r \in World |-> IF Group(r) = g THEN picked[leader] ELSE picked[r]]
        /\ at' = [r \in World |->
                IF Group(r) # g THEN at[r]
                ELSE IF picked[leader] = 0 THEN AfterRefill(r)
                ELSE IF r = leader THEN "refilling" ELSE "popping"]
  BY DEF BroadcastHeader, Members
<1>2. UNCHANGED <<order, sender, put_rank, cmdq, deferred, executed>> BY DEF BroadcastHeader, sending
<1>3. ~Down(leader) BY <1>1 DEF Down
<1>4. PICK e, d, l, n, t \in Nat : QueueIs(leader, e, d, l, n, t) /\ t + l <= n BY <1>3, QueueNumbers
<1>5. ASSUME NEW r \in World, ~Down(r)' PROVE QueueOk(r)'
  <2>1. CASE Group(r) # g
    <3>1. at'[r] = at[r] /\ picked'[r] = picked[r] BY <1>1, <2>1
    <3>2. ~Down(r) BY <1>5, <3>1 DEF Down
    <3>3. QueueOk(r) BY <3>2 DEF QueueInv
    <3> QED BY <1>2, <3>1, <3>3, QueueFrame
  <2>2. CASE Group(r) = g /\ picked[leader] = 0
    <3>1. picked'[r] = 0 /\ at'[r] \in {"idle", "forward"} BY <1>1, <2>2 DEF AfterRefill
    <3>2. ~InHand(r)' /\ at'[r] # "popping" BY <3>1 DEF InHand
    <3>3. ~Down(r) /\ ~InHand(r) BY <1>1, <2>2 DEF Down, InHand
    <3>4. QueueOk(r) BY <3>3 DEF QueueInv
    <3>5. Taken(r)' = Taken(r) /\ PutTo(r)' = PutTo(r) BY <1>2, <3>2, <3>3 DEF Taken, PutTo
    <3> QED BY <1>2, <3>2, <3>4, <3>5 DEF QueueOk
  <2>3. CASE r = leader /\ picked[leader] # 0
    <3>1. picked'[r] = picked[r] /\ at'[r] = "refilling" BY <1>1, <2>3
    <3>2. ~Down(r) /\ InHand(r) /\ InHand(r)' BY <1>1, <2>3, <3>1 DEF Down, InHand
    <3>3. QueueOk(r) BY <3>2 DEF QueueInv
    <3>4. Taken(r)' = Taken(r) /\ PutTo(r)' = PutTo(r) BY <1>2, <3>2 DEF Taken, PutTo
    <3> QED BY <1>2, <3>1, <3>2, <3>3, <3>4 DEF QueueOk
  <2>4. CASE Group(r) = g /\ r # leader /\ picked[leader] # 0
    <3>1. at[r] = "refill" /\ picked'[r] = picked[leader] /\ at'[r] = "popping" BY <1>1, <2>4
    <3>2. ~Down(r) /\ ~InHand(r) /\ ~InHand(r)' /\ InHand(leader) BY <1>1, <2>4, <3>1 DEF Down, InHand
    <3>3. executed[r] = executed[leader] /\ deferred[r] = deferred[leader] BY <1>1, <2>4, BeforeBroadcast
    <3>4. PICK e2, d2, l2, n2, t2 \in Nat : QueueIs(r, e2, d2, l2, n2, t2) /\ t2 + l2 <= n2 BY <3>2, QueueNumbers
    <3>5. e2 = e /\ d2 = d /\ n2 = n BY <1>4, <3>3, <3>4 DEF QueueIs
    <3>6. t = e + d + 1 /\ picked[leader] = order[t] /\ t2 = e2 + d2 BY <1>4, <3>2, <3>4, Zenon DEF QueueIs
    <3>7. t2 + 1 = t /\ t2 + 1 <= n2
      <4>1. t + l <= n BY <1>4
      <4> HIDE <1>4, <3>4
      <4> QED BY <3>5, <3>6, <4>1
    <3>8. picked'[r] = order'[t2 + 1] BY <1>2, <3>1, <3>6, <3>7
    <3>9. PutTo(r)' = PutTo(r) BY <1>2 DEF PutTo
    <3>10. QueueIs(r, e2, d2, l2, n2, t2)' BY <1>2, <3>2, <3>4, <3>6, <3>7, <3>8, <3>9, Zenon DEF QueueIs
    <3> QED BY <3>10, QueueOkNext
  <2> QED BY <1>1, <2>1, <2>2, <2>3, <2>4
<1>6. sender' # 0 => order' # << >> /\ sender' = order'[Len(order')] BY <1>2 DEF QueueInv
<1> QED BY <1>5, <1>6 DEF QueueInv

LEMMA BroadcastGroup ==
  ASSUME TypeInv, QueueInv, GroupInv, TypeInv', QueueInv', NEW g \in Groups, BroadcastHeader(g)
  PROVE  GroupInv'
<1>1. PICK leader \in World :
        /\ Group(leader) = g
        /\ \A r \in World : Group(r) = g => at[r] \in {"refill", "picked"}
        /\ picked' = [r \in World |-> IF Group(r) = g THEN picked[leader] ELSE picked[r]]
        /\ at' = [r \in World |->
                IF Group(r) # g THEN at[r]
                ELSE IF picked[leader] = 0 THEN AfterRefill(r)
                ELSE IF r = leader THEN "refilling" ELSE "popping"]
  BY DEF BroadcastHeader, Members
<1>2. UNCHANGED <<calls, order, deferred, cmd, current, next_at, executed>>
  BY DEF BroadcastHeader, callers, sending
<1>3. \A q \in World : Group(q) # g => at'[q] = at[q] /\ picked'[q] = picked[q] BY <1>1
<1>4. ASSUME NEW r \in World, Group(r) = g
      PROVE  /\ ~Down(r)' /\ picked'[r] = picked[leader] /\ (Refilling(r)' <=> picked[leader] # 0)
             /\ ~Refilling(r)' => at'[r] = IF current[r] = << >> THEN "idle" ELSE "forward"
             /\ Refilling(r)' => at'[r] \notin {"idle", "exec", "forward", "posting"}
  BY <1>1, <1>4 DEF Down, Refilling, AfterRefill
<1>5. ASSUME NEW r \in World, NEW q \in World, Group(r) = g, Group(q) = g
      PROVE  Script(r)' = Script(q)' /\ Level(r)' = Level(q)' /\ SamePlace(r, q)'
  <2>1. executed[r] = executed[q] /\ deferred[r] = deferred[q] /\ current[r] = current[q] /\ cmd[r] = cmd[q]
    BY <1>1, <1>5, BeforeBroadcast
  <2>2. /\ executed'[r] = executed'[q] /\ deferred'[r] = deferred'[q] /\ current'[r] = current'[q]
        /\ cmd'[r] = cmd'[q] /\ picked'[r] = picked'[q] /\ (Refilling(r)' <=> Refilling(q)')
    BY <1>2, <1>4, <1>5, <2>1
  <2>3. Joining(r)' <=> Joining(q)' BY <2>2 DEF Joining, Compatible
  <2>4. Done(r)' = Done(q)' BY <2>2, <2>3 DEF Done
  <2>5. Script(r)' = Script(q)' /\ Level(r)' = Level(q)' BY <2>2, <2>4 DEF Script, Level
  <2>6. Had(r)' = Had(q)' BY <2>2 DEF Had
  <2>7. Batch(r)' = Batch(q)' BY <1>5, <2>2, <2>3 DEF Batch
  <2>8. Phase(r)' = Phase(q)'
    <3>1. CASE Refilling(r)' BY <1>4, <1>5, <2>2, <2>3, <3>1 DEF Phase
    <3>2. CASE ~Refilling(r)' BY <1>4, <1>5, <2>1, <2>2, <3>2 DEF Phase
    <3> QED BY <3>1, <3>2
  <2> QED BY <2>2, <2>5, <2>6, <2>7, <2>8 DEF SamePlace
<1> QED BY <1>2, <1>3, <1>4, <1>5, TogetherGroup

-----------------------------------------------------------------------------
(* All the steps                                                           *)

\* A step of one rank that takes nothing off a queue.
LEMMA OneQuietQueue ==
  ASSUME TypeInv, QueueInv, UNCHANGED <<order, sender, put_rank, cmdq, deferred, picked, executed>>, NEW r \in World,
         \A q \in World \ {r} : at'[q] = at[q],
         ~Down(r)' => at[r] = "posting" /\ at'[r] \in {"posting", "idle", "refill"}
  PROVE  QueueInv'
<1>1. ASSUME NEW q \in World, ~Down(q)'
      PROVE  /\ ~Down(q) /\ (InHand(q)' <=> InHand(q)) /\ (at'[q] = "popping" => at[q] = "popping")
             /\ (InHand(q)' \/ at'[q] = "popping" => picked'[q] = picked[q])
  <2>1. CASE q = r BY <1>1, <2>1 DEF Down, InHand
  <2>2. CASE q # r BY <1>1, <2>2 DEF Down, InHand
  <2> QED BY <2>1, <2>2
<1> QED BY <1>1, QuietQueues

\* A step of the callers or the pump.
LEMMA QuietCoordinatorQueues ==
  ASSUME TypeInv, QueueInv, UNCHANGED <<order, sender, put_rank, cmdq, deferred, picked, executed, at>>
  PROVE  QueueInv'
<1>1. \A q \in World : ~Down(q)' =>
            /\ ~Down(q) /\ (InHand(q)' <=> InHand(q)) /\ (at'[q] = "popping" => at[q] = "popping")
            /\ (InHand(q)' \/ at'[q] = "popping" => picked'[q] = picked[q])
  BY DEF Down, InHand
<1> QED BY <1>1, QuietQueues

LEMMA PutResultQueues ==
  ASSUME TypeInv, QueueInv, NEW r \in World, PutResult(r)
  PROVE  QueueInv'
<1>1. /\ outbox[r] # << >>
      /\ \E a \in {at[r], next_at[r]} : at' = [at EXCEPT ![r] = a]
      /\ UNCHANGED <<order, sender, put_rank, cmdq, deferred, picked, executed>>
  BY DEF PutResult, sending
<1>2. RanksType /\ RankOk(r) BY DEF TypeInv
<1>3. /\ at[r] \in {"posting", "failing"} /\ at'[r] \in {at[r], next_at[r]}
      /\ at[r] = "posting" => next_at[r] \in {"idle", "refill"}
      /\ at[r] = "failing" => next_at[r] = "exiting"
  BY <1>1, <1>2 DEF RanksType, RankOk
<1>4. ~Down(r)' => at[r] = "posting" /\ at'[r] \in {"posting", "idle", "refill"} BY <1>3 DEF Down
<1>5. \A q \in World \ {r} : at'[q] = at[q] BY <1>1, <1>2 DEF RanksType
<1> QED BY <1>1, <1>4, <1>5, OneQuietQueue

LEMMA DownQueues ==
  ASSUME TypeInv, QueueInv, NEW r \in World, Raise(r) \/ Exit(r) \/ Killed(r)
  PROVE  QueueInv'
<1>1. UNCHANGED <<order, sender, put_rank, cmdq, deferred, picked, executed>> BY DEF Raise, Exit, Killed, sending
<1>2. RanksType BY DEF TypeInv
<1>3. Down(r)' /\ \A q \in World \ {r} : at'[q] = at[q] BY <1>2 DEF Raise, Exit, Killed, Down, RanksType
<1> QED BY <1>1, <1>3, OneQuietQueue

LEMMA CollectiveQueues ==
  ASSUME TypeInv, QueueInv, NEW g \in Groups, Execute(g) \/ Forward(g)
  PROVE  QueueInv'
<1>1. UNCHANGED <<order, sender, put_rank, cmdq, deferred, picked, executed>> BY DEF Execute, Forward, sending
<1>2. ASSUME NEW q \in World
      PROVE  \/ at'[q] = at[q]
             \/ at[q] \in {"exec", "forward"} /\ at'[q] \in {"refill", "posting"}
  BY DEF Execute, Forward, Members
<1>3. \A q \in World : ~Down(q)' =>
            /\ ~Down(q) /\ (InHand(q)' <=> InHand(q)) /\ (at'[q] = "popping" => at[q] = "popping")
            /\ (InHand(q)' \/ at'[q] = "popping" => picked'[q] = picked[q])
  BY <1>1, <1>2 DEF Down, InHand
<1> QED BY <1>1, <1>3, QuietQueues

\* A step of the coordinator, or one that changes nothing.
CoordinatorStep ==
  \/ \E s \in Shapes : Call(s)
  \/ SenderStep
  \/ PumpStep
  \/ \E c \in Ids : CallTimesOut(c)
  \/ Quiescent
  \/ UNCHANGED vars

\* A rank raises, exits or is killed.
FailStep == \E r \in World : Raise(r) \/ Exit(r) \/ Killed(r)

\* A rank takes a command, agrees on one or puts a result.
AdvanceStep ==
  \E r \in World :
    \/ \E c \in Ids : TakeCommand(r, c)
    \/ PutResult(r) \/ PickRefill(r) \/ PopMatching(r) \/ JoinOrDefer(r)

LEMMA NextSplits == [Next]_vars => CoordinatorStep \/ FailStep \/ AdvanceStep \/ \E g \in Groups : GroupStep(g)
<1>1. Fault => CoordinatorStep \/ FailStep BY DEF Fault, WorkerRaises, PopTimesOut, CoordinatorStep, FailStep
<1>2. ASSUME NEW r \in World, RankStep(r) PROVE FailStep \/ AdvanceStep
  BY <1>2 DEF RankStep, PeerLost, FailStep, AdvanceStep
<1> QED BY <1>1, <1>2 DEF Next, CoordinatorStep

LEMMA NextQueues ==
  ASSUME TypeInv, QueueInv, GroupInv, [Next]_vars
  PROVE  QueueInv'
<1>1. CASE CoordinatorStep
  <2>1. CASE SenderStep BY <2>1, TakeLockQueues, PutCommandQueues DEF SenderStep
  <2>2. CASE ~SenderStep
    <3>1. UNCHANGED <<order, sender, put_rank, cmdq, deferred, picked, executed, at>>
      BY <1>1, <2>2 DEF CoordinatorStep, Call, PumpStep, PumpResult, PumpEmpty, PumpCheck, CallTimesOut, Quiescent,
           vars, sending, work
    <3> QED BY <3>1, QuietCoordinatorQueues
  <2> QED BY <2>1, <2>2
<1>2. CASE FailStep BY <1>2, DownQueues DEF FailStep
<1>3. CASE AdvanceStep
  BY <1>3, TakeCommandQueues, PutResultQueues, PickRefillQueues, PopMatchingQueues, JoinOrDeferQueues DEF AdvanceStep
<1>4. ASSUME NEW g \in Groups, GroupStep(g) PROVE QueueInv'
  BY <1>4, CollectiveQueues, BroadcastQueues DEF GroupStep
<1> QED BY <1>1, <1>2, <1>3, <1>4, NextSplits

LEMMA NextGroups ==
  ASSUME TypeInv, QueueInv, GroupInv, TypeInv', QueueInv', [Next]_vars
  PROVE  GroupInv'
<1>1. CASE CoordinatorStep
  <2>1. ASSUME NEW s \in Shapes, Call(s) PROVE GroupInv' BY <2>1, CallGroup
  <2>2. ASSUME NEW c \in Ids, TakeLock(c) PROVE GroupInv' BY <2>2, TakeLockGroup
  <2>3. CASE PutCommand \/ PumpStep \/ (\E c \in Ids : CallTimesOut(c)) \/ Quiescent \/ UNCHANGED vars
    <3>1. UNCHANGED <<calls, order, deferred, work, executed>>
      BY <2>3 DEF PutCommand, PumpStep, PumpResult, PumpEmpty, PumpCheck, CallTimesOut, Quiescent, vars, callers, sending
    <3> QED BY <3>1, QuietCoordinator
  <2> QED BY <1>1, <2>1, <2>2, <2>3 DEF CoordinatorStep, SenderStep
<1>2. CASE FailStep BY <1>2, DownGroup DEF FailStep
<1>3. CASE AdvanceStep
  BY <1>3, TakeCommandGroup, PutResultGroup, PickRefillGroup, PopMatchingGroup, JoinOrDeferGroup DEF AdvanceStep
<1>4. ASSUME NEW g \in Groups, GroupStep(g) PROVE GroupInv'
  BY <1>4, ExecuteGroup, BroadcastGroup, ForwardGroup DEF GroupStep
<1> QED BY <1>1, <1>2, <1>3, <1>4, NextSplits

LEMMA InitQueuesAndGroups == Init => QueueInv /\ GroupInv
<1> SUFFICES ASSUME Init PROVE QueueInv /\ GroupInv OBVIOUS
<1> USE DEF Init
<1>1. ASSUME NEW r \in World
      PROVE  /\ ~InHand(r) /\ ~Refilling(r) /\ ~Joining(r) /\ Phase(r) = "main"
             /\ executed[r] = << >> /\ deferred[r] = << >> /\ cmdq[r] = << >> /\ at[r] = "idle"
  BY DEF InHand, Refilling, Joining, Phase
<1>2. Len(<< >>) = 0 OBVIOUS
<1>3. ASSUME NEW r \in World PROVE QueueOk(r)
  <2>1. Taken(r) = 0 /\ PutTo(r) = 0 BY <1>1, <1>2 DEF Taken, PutTo
  <2> QED BY <1>1, <1>2, <2>1 DEF QueueOk
<1>4. ASSUME NEW r \in World PROVE Done(r) = << >> /\ Level(r) = 0 /\ Had(r) = 0 /\ Script(r) = ScriptOf(<< >>, << >>, << >>)
  BY <1>1, <1>2 DEF Done, Level, Had, Script
<1>5. \A r, q \in World : PairOk(r, q) BY <1>1, <1>4 DEF PairOk, SamePlace
<1>6. \A r, q \in World : OnScript(r, q) BY <1>1, <1>2 DEF OnScript
<1>7. TPLockstep BY <1>1, <1>2 DEF TPLockstep
<1> QED BY <1>3, <1>5, <1>6, <1>7 DEF QueueInv, GroupInv

\* What the places of the ranks mean for the collectives.
LEMMA AgreementFollows == TypeInv /\ QueueInv /\ GroupInv => RanksAgree
<1> SUFFICES ASSUME TypeInv, QueueInv, GroupInv PROVE RanksAgree OBVIOUS
<1>1. TPLockstep BY DEF GroupInv
<1>2. ASSUME NEW r \in World, NEW q \in World, Group(r) = Group(q)
      PROVE  /\ at[r] = "exec" /\ at[q] # "dead" => at[q] \notin {"refill", "picked", "forward"}
             /\ at[r] = "exec" /\ at[q] = "exec" => cmd[r] = cmd[q]
             /\ at[r] = "forward" /\ at[q] = "forward" => current[r] = current[q]
  <2>1. at[r] = "exec" => ~Down(r) /\ Phase(r) = "exec" BY DEF Down, Phase, Refilling
  <2>2. at[q] = "exec" => ~Down(q) /\ Phase(q) = "exec" BY DEF Down, Phase, Refilling
  <2>3. at[q] \in {"refill", "picked", "forward"} => ~Down(q) /\ Phase(q) \in {"refill", "forward"}
    BY DEF Down, Phase, Refilling
  <2>4. ASSUME at[r] = "exec", at[q] \in {"refill", "picked", "forward"} PROVE FALSE
    <3>1. PairOk(r, q) /\ PairOk(q, r) /\ Level(r) \in Nat /\ Level(q) \in Nat BY <1>2, <2>1, <2>3, <2>4, UpRank DEF GroupInv
    <3>2. CASE Level(r) = Level(q) BY <2>1, <2>3, <2>4, <3>1, <3>2 DEF PairOk, SamePlace
    <3>3. CASE Level(r) < Level(q) BY <2>1, <2>4, <3>1, <3>3 DEF PairOk, Behind
    <3>4. CASE Level(q) < Level(r) BY <2>3, <2>4, <3>1, <3>4 DEF PairOk, Behind
    <3> QED BY <3>1, <3>2, <3>3, <3>4
  <2>5. ASSUME at[r] = "exec", at[q] = "exec" PROVE cmd[r] = cmd[q]
    <3>1. SamePlace(r, q) BY <1>2, <2>1, <2>2, <2>5, Together
    <3> QED BY <2>1, <2>5, <3>1 DEF SamePlace
  <2>6. ASSUME at[r] = "forward", at[q] = "forward" PROVE current[r] = current[q]
    <3>1. /\ ~Down(r) /\ ~Down(q) /\ Phase(r) = "forward" /\ Phase(q) = "forward"
          /\ Batch(r) = current[r] /\ Batch(q) = current[q]
      BY <2>6 DEF Down, Phase, Batch, Joining, Refilling
    <3>2. SamePlace(r, q) BY <1>2, <3>1, Together
    <3> QED BY <3>1, <3>2 DEF SamePlace
  <2> QED BY <2>4, <2>5, <2>6
<1>3. CollectivesAgree BY <1>2 DEF CollectivesAgree
<1> QED BY <1>1, <1>3 DEF RanksAgree

\* The ranks of a TP group run and join the same commands in the same order, and
\* meet in the same collectives with the same batch, whatever the callers submit,
\* however the processes are scheduled and whoever fails.
THEOREM RanksOfAGroupAgree == Spec => []RanksAgree
<1>1. Init => TypeInv /\ QueueInv /\ GroupInv BY InitTypes, InitQueuesAndGroups
<1>2. TypeInv /\ QueueInv /\ GroupInv /\ [Next]_vars => TypeInv' /\ QueueInv' /\ GroupInv'
  BY NextTypes, NextQueues, NextGroups
<1>3. TypeInv /\ QueueInv /\ GroupInv => RanksAgree BY AgreementFollows
<1> QED BY <1>1, <1>2, <1>3, PTL DEF Spec

-----------------------------------------------------------------------------
(* The order of the operations other than rollouts                         *)

\* Of what was sent, c came before d.
Ahead(sent, c, d) == \A m, n \in 1..Len(sent) : sent[m] = c /\ sent[n] = d => m < n

\* The members of `others' were done in the order in which they were sent.
DoneInTurn(sent, others, done) ==
  /\ \A i \in 1..Len(done) : \E m \in 1..Len(sent) : sent[m] = done[i]
  /\ \A i, j \in 1..Len(done) : i < j /\ done[i] \in others /\ done[j] \in others => Ahead(sent, done[i], done[j])

\* What was put off comes after them, and in order: nothing beyond the first
\* Len(done) + Len(late) of what was sent was looked at.
InTurn(sent, others, done, late) ==
  /\ Len(done) + Len(late) <= Len(sent)
  /\ DoneInTurn(sent, others, done)
  /\ \A i \in 1..Len(done) : \E m \in 1..Len(done) + Len(late) : sent[m] = done[i]
  /\ \A j \in 1..Len(late) : \E m \in 1..Len(done) + Len(late) : sent[m] = late[j]
  /\ \A i, j \in 1..Len(late) : i < j => Ahead(sent, late[i], late[j])
  /\ \A i \in 1..Len(done), j \in 1..Len(late) :
       done[i] \in others /\ late[j] \in others => Ahead(sent, done[i], late[j])

Others == {c \in Ids : calls[c].op = "other"}

OrderInv ==
  /\ NoDuplicates(order)
  /\ \A r \in World : InTurn(order, Others, executed[r], deferred[r])

\* The next that was sent comes after all that was looked at.
LEMMA NextIsLast ==
  ASSUME NEW X, NEW sent \in Seq(X), NoDuplicates(sent), NEW k \in Nat, k + 1 <= Len(sent),
         NEW c, \E m \in 1..k : sent[m] = c
  PROVE  Ahead(sent, c, sent[k + 1])
<1>1. PICK m \in 1..k : sent[m] = c OBVIOUS
<1>2. Len(sent) \in Nat OBVIOUS
<1>3. m \in 1..Len(sent) /\ k + 1 \in 1..Len(sent) /\ m < k + 1 BY <1>2
<1>4. \A a, b \in 1..Len(sent) : sent[a] = sent[m] /\ sent[b] = sent[k + 1] => a = m /\ b = k + 1
  BY <1>3 DEF NoDuplicates
<1> QED BY <1>1, <1>3, <1>4 DEF Ahead

\* The next that was sent is put off.
LEMMA TurnDefers ==
  ASSUME NEW X, NEW sent \in Seq(X), NEW done \in Seq(X), NEW late \in Seq(X), NEW others, NoDuplicates(sent),
         Len(done) + Len(late) + 1 <= Len(sent), InTurn(sent, others, done, late)
  PROVE  InTurn(sent, others, done, Append(late, sent[Len(done) + Len(late) + 1]))
<1>0. PICK a \in Nat, b \in Nat, n \in Nat : a = Len(done) /\ b = Len(late) /\ n = Len(sent) OBVIOUS
<1>1. PICK k \in Nat : k = a + b OBVIOUS
<1>2. k + 1 \in 1..n /\ k + 1 <= n BY <1>0, <1>1
<1>3. PICK c \in X : c = sent[k + 1] BY <1>0, <1>2
<1>4. Append(late, c) \in Seq(X) OBVIOUS
<1>5. PICK more \in Seq(X) : more = Append(late, c) BY <1>4, Zenon
<1>6. Len(more) = b + 1 /\ more[b + 1] = c /\ \A i \in 1..b : more[i] = late[i] BY <1>0, <1>5
<1>7. /\ DoneInTurn(sent, others, done)
      /\ \A i \in 1..a : \E m \in 1..k : sent[m] = done[i]
      /\ \A j \in 1..b : \E m \in 1..k : sent[m] = late[j]
      /\ \A i, j \in 1..b : i < j => Ahead(sent, late[i], late[j])
      /\ \A i \in 1..a, j \in 1..b : done[i] \in others /\ late[j] \in others => Ahead(sent, done[i], late[j])
  BY <1>0, <1>1, Zenon DEF InTurn
<1>8. \A x : (\E m \in 1..k : sent[m] = x) => Ahead(sent, x, c) BY <1>0, <1>2, <1>3, NextIsLast
<1>9. ASSUME NEW j \in 1..b + 1 PROVE j \in 1..b \/ j = b + 1 OBVIOUS
<1>10. \A i \in 1..a : \E m \in 1..k + 1 : sent[m] = done[i]
  <2>1. 1..k \subseteq 1..k + 1 OBVIOUS
  <2> QED BY <1>7, <2>1, Zenon
<1>11. \A j \in 1..b + 1 : \E m \in 1..k + 1 : sent[m] = more[j]
  <2>1. 1..k \subseteq 1..k + 1 /\ k + 1 \in 1..k + 1 OBVIOUS
  <2> QED BY <1>3, <1>6, <1>7, <1>9, <2>1, Zenon
<1>12. ASSUME NEW i \in 1..b + 1, NEW j \in 1..b + 1, i < j PROVE Ahead(sent, more[i], more[j])
  <2>1. i \in 1..b BY <1>12
  <2>2. CASE j \in 1..b BY <1>6, <1>7, <1>12, <2>1, <2>2, Zenon
  <2>3. CASE j = b + 1 BY <1>6, <1>7, <1>8, <2>1, <2>3, Zenon
  <2> QED BY <1>9, <2>2, <2>3
<1>13. ASSUME NEW i \in 1..a, NEW j \in 1..b + 1, done[i] \in others, more[j] \in others PROVE Ahead(sent, done[i], more[j])
  <2>1. CASE j \in 1..b BY <1>6, <1>7, <1>13, <2>1, Zenon
  <2>2. CASE j = b + 1 BY <1>6, <1>7, <1>8, <2>2, Zenon
  <2> QED BY <1>9, <2>1, <2>2
<1>14. Len(done) + Len(more) = k + 1
  <2>1. a + (b + 1) = k + 1 BY <1>1
  <2> QED BY <1>0, <1>6, <2>1, Zenon
<1>15. InTurn(sent, others, done, more)
  BY <1>0, <1>2, <1>6, <1>7, <1>10, <1>11, <1>12, <1>13, <1>14, Zenon DEF InTurn
<1>16. sent[Len(done) + Len(late) + 1] = c BY <1>0, <1>1, <1>3, Zenon
<1> QED BY <1>5, <1>15, <1>16, Zenon

\* The next that was sent is done: a rollout, or nothing was put off.
LEMMA TurnTakesSent ==
  ASSUME NEW X, NEW sent \in Seq(X), NEW done \in Seq(X), NEW late \in Seq(X), NEW others, NoDuplicates(sent),
         Len(done) + Len(late) + 1 <= Len(sent), InTurn(sent, others, done, late),
         sent[Len(done) + Len(late) + 1] \in others => Len(late) = 0
  PROVE  InTurn(sent, others, Append(done, sent[Len(done) + Len(late) + 1]), late)
<1>0. PICK a \in Nat, b \in Nat, n \in Nat : a = Len(done) /\ b = Len(late) /\ n = Len(sent) OBVIOUS
<1>1. PICK k \in Nat : k = a + b OBVIOUS
<1>2. k + 1 \in 1..n /\ k + 1 <= n BY <1>0, <1>1
<1>3. PICK c \in X : c = sent[k + 1] BY <1>0, <1>2
<1>4. Append(done, c) \in Seq(X) OBVIOUS
<1>5. PICK more \in Seq(X) : more = Append(done, c) BY <1>4, Zenon
<1>6. Len(more) = a + 1 /\ more[a + 1] = c /\ \A i \in 1..a : more[i] = done[i] BY <1>0, <1>5
<1>7. /\ \A i, j \in 1..a : i < j /\ done[i] \in others /\ done[j] \in others => Ahead(sent, done[i], done[j])
      /\ \A i \in 1..a : \E m \in 1..k : sent[m] = done[i]
      /\ \A j \in 1..b : \E m \in 1..k : sent[m] = late[j]
      /\ \A i, j \in 1..b : i < j => Ahead(sent, late[i], late[j])
      /\ \A i \in 1..a, j \in 1..b : done[i] \in others /\ late[j] \in others => Ahead(sent, done[i], late[j])
  BY <1>0, <1>1, Zenon DEF InTurn, DoneInTurn
<1>8. \A x : (\E m \in 1..k : sent[m] = x) => Ahead(sent, x, c) BY <1>0, <1>2, <1>3, NextIsLast
<1>9. sent[Len(done) + Len(late) + 1] = c BY <1>0, <1>1, <1>3, Zenon
<1>10. c \in others => b = 0 BY <1>0, <1>9, Zenon
<1>11. ASSUME NEW i \in 1..a + 1 PROVE i \in 1..a \/ i = a + 1 OBVIOUS
<1>12. \A i \in 1..a + 1 : \E m \in 1..k + 1 : sent[m] = more[i]
  <2>1. 1..k \subseteq 1..k + 1 /\ k + 1 \in 1..k + 1 OBVIOUS
  <2> QED BY <1>3, <1>6, <1>7, <1>11, <2>1, Zenon
<1>13. \A j \in 1..b : \E m \in 1..k + 1 : sent[m] = late[j]
  <2>1. 1..k \subseteq 1..k + 1 OBVIOUS
  <2> QED BY <1>7, <2>1, Zenon
<1>14. ASSUME NEW i \in 1..a + 1, NEW j \in 1..b, more[i] \in others, late[j] \in others PROVE Ahead(sent, more[i], late[j])
  <2>1. CASE i \in 1..a BY <1>6, <1>7, <1>14, <2>1, Zenon
  <2>2. CASE i = a + 1
    <3>1. b = 0 BY <1>6, <1>10, <1>14, <2>2, Zenon
    <3> QED BY <3>1
  <2> QED BY <1>11, <2>1, <2>2
<1>15. ASSUME NEW i \in 1..a + 1, NEW j \in 1..a + 1, i < j, more[i] \in others, more[j] \in others
       PROVE  Ahead(sent, more[i], more[j])
  <2>1. i \in 1..a BY <1>15
  <2>2. CASE j \in 1..a BY <1>6, <1>7, <1>15, <2>1, <2>2, Zenon
  <2>3. CASE j = a + 1 BY <1>6, <1>7, <1>8, <2>1, <2>3, Zenon
  <2> QED BY <1>11, <2>2, <2>3
<1>16. DoneInTurn(sent, others, more)
  <2>1. 1..k + 1 \subseteq 1..n BY <1>2
  <2>2. \A i \in 1..a + 1 : \E m \in 1..n : sent[m] = more[i] BY <1>12, <2>1, Zenon
  <2> QED BY <1>0, <1>6, <1>15, <2>2, Zenon DEF DoneInTurn
<1>17. Len(more) + Len(late) = k + 1
  <2>1. (a + 1) + b = k + 1 BY <1>1
  <2> QED BY <1>0, <1>6, <2>1, Zenon
<1>18. InTurn(sent, others, more, late) BY <1>0, <1>2, <1>6, <1>7, <1>12, <1>13, <1>14, <1>16, <1>17, Zenon DEF InTurn
<1> QED BY <1>5, <1>9, <1>18, Zenon

\* The first that was put off is done.
LEMMA TurnTakesLate ==
  ASSUME NEW X, NEW sent \in Seq(X), NEW done \in Seq(X), NEW late \in Seq(X), NEW others, late # << >>,
         InTurn(sent, others, done, late)
  PROVE  InTurn(sent, others, Append(done, Head(late)), Tail(late))
<1>0. PICK a \in Nat, n \in Nat : a = Len(done) /\ n = Len(sent) OBVIOUS
<1>1. Head(late) \in X /\ Head(late) = late[1] /\ Tail(late) \in Seq(X) /\ Len(late) \in Nat \ {0}
      /\ Len(Tail(late)) = Len(late) - 1 /\ \A i \in 1..Len(late) - 1 : Tail(late)[i] = late[i + 1]
  BY HeadAndTail
<1>2. PICK c \in X : c = Head(late) BY <1>1, Zenon
<1>3. PICK rest \in Seq(X) : rest = Tail(late) BY <1>1, Zenon
<1>4. PICK b \in Nat : b + 1 = Len(late)
  <2>1. \A k \in Nat \ {0} : k - 1 \in Nat /\ (k - 1) + 1 = k OBVIOUS
  <2> QED BY <1>1, <2>1
<1>5. Len(rest) = b /\ \A i \in 1..b : rest[i] = late[i + 1]
  <2>1. Len(late) - 1 = b BY <1>4
  <2> QED BY <1>1, <1>3, <2>1, Zenon
<1>6. Append(done, c) \in Seq(X) OBVIOUS
<1>7. PICK more \in Seq(X) : more = Append(done, c) BY <1>6, Zenon
<1>8. Len(more) = a + 1 /\ more[a + 1] = c /\ \A i \in 1..a : more[i] = done[i] BY <1>0, <1>7
<1>9. PICK k \in Nat : k = a + (b + 1) OBVIOUS
<1>10. /\ \A i, j \in 1..a : i < j /\ done[i] \in others /\ done[j] \in others => Ahead(sent, done[i], done[j])
       /\ \A i \in 1..a : \E m \in 1..k : sent[m] = done[i]
       /\ \A j \in 1..b + 1 : \E m \in 1..k : sent[m] = late[j]
       /\ \A i, j \in 1..b + 1 : i < j => Ahead(sent, late[i], late[j])
       /\ \A i \in 1..a, j \in 1..b + 1 : done[i] \in others /\ late[j] \in others => Ahead(sent, done[i], late[j])
  BY <1>0, <1>4, <1>9, Zenon DEF InTurn, DoneInTurn
<1>11. c = late[1] /\ 1 \in 1..b + 1 /\ \A j \in 1..b : j + 1 \in 1..b + 1 /\ 1 < j + 1 BY <1>1, <1>2
<1>12. ASSUME NEW i \in 1..a + 1 PROVE i \in 1..a \/ i = a + 1 OBVIOUS
<1>13. ASSUME NEW i \in 1..a + 1 PROVE \E m \in 1..k : sent[m] = more[i]
  <2>1. CASE i \in 1..a BY <1>8, <1>10, <2>1, Zenon
  <2>2. CASE i = a + 1
    <3>1. more[i] = late[1] BY <1>8, <1>11, <2>2, Zenon
    <3>2. \E m \in 1..k : sent[m] = late[1] BY <1>10, <1>11, Zenon
    <3> QED BY <3>1, <3>2, Zenon
  <2> QED BY <1>12, <2>1, <2>2
<1>14. \A j \in 1..b : \E m \in 1..k : sent[m] = rest[j] BY <1>5, <1>10, <1>11, ZenonT(30)
<1>15. ASSUME NEW i \in 1..b, NEW j \in 1..b, i < j PROVE Ahead(sent, rest[i], rest[j])
  <2>1. i + 1 < j + 1 BY <1>15
  <2> QED BY <1>5, <1>10, <1>11, <2>1, Zenon
<1>16. ASSUME NEW i \in 1..a + 1, NEW j \in 1..b, more[i] \in others, rest[j] \in others PROVE Ahead(sent, more[i], rest[j])
  <2>1. CASE i \in 1..a BY <1>5, <1>8, <1>10, <1>11, <1>16, <2>1, Zenon
  <2>2. CASE i = a + 1
    <3>1. more[i] = late[1] /\ rest[j] = late[j + 1] BY <1>5, <1>8, <1>11, <2>2, Zenon
    <3>2. Ahead(sent, late[1], late[j + 1]) BY <1>10, <1>11
    <3> QED BY <3>1, <3>2, Zenon
  <2> QED BY <1>12, <2>1, <2>2
<1>17. ASSUME NEW i \in 1..a + 1, NEW j \in 1..a + 1, i < j, more[i] \in others, more[j] \in others
       PROVE  Ahead(sent, more[i], more[j])
  <2>1. i \in 1..a BY <1>17
  <2>2. CASE j \in 1..a BY <1>8, <1>10, <1>17, <2>1, <2>2, Zenon
  <2>3. CASE j = a + 1 BY <1>8, <1>10, <1>11, <1>17, <2>1, <2>3, Zenon
  <2> QED BY <1>12, <2>2, <2>3
<1>18. k <= n
  <2>1. a + (b + 1) <= n BY <1>0, <1>4, Zenon DEF InTurn
  <2> QED BY <1>9, <2>1
<1>19. DoneInTurn(sent, others, more)
  <2>1. 1..k \subseteq 1..n BY <1>18
  <2>2. \A i \in 1..a + 1 : \E m \in 1..n : sent[m] = more[i] BY <1>13, <2>1, Zenon
  <2> QED BY <1>0, <1>8, <1>17, <2>2, Zenon DEF DoneInTurn
<1>20. Len(more) + Len(rest) = k
  <2>1. (a + 1) + b = k BY <1>9
  <2> QED BY <1>5, <1>8, <2>1, Zenon
<1>21. InTurn(sent, others, more, rest) BY <1>0, <1>5, <1>8, <1>13, <1>14, <1>15, <1>16, <1>19, <1>20, <1>18, Zenon DEF InTurn
<1> QED BY <1>2, <1>3, <1>7, <1>21, Zenon

\* One more is sent.
LEMMA TurnGrows ==
  ASSUME NEW X, NEW sent \in Seq(X), NEW done \in Seq(X), NEW late \in Seq(X), NEW others, NEW c \in X,
         \A i \in 1..Len(sent) : sent[i] # c, InTurn(sent, others, done, late)
  PROVE  InTurn(Append(sent, c), others, done, late)
<1>0. PICK a \in Nat, b \in Nat, n \in Nat : a = Len(done) /\ b = Len(late) /\ n = Len(sent) OBVIOUS
<1>1. PICK k \in Nat : k = a + b OBVIOUS
<1>2. k <= n /\ k <= n + 1
  <2>1. k <= n BY <1>0, <1>1, Zenon DEF InTurn
  <2> QED BY <2>1
<1>3. Append(sent, c) \in Seq(X) OBVIOUS
<1>4. PICK more \in Seq(X) : more = Append(sent, c) BY <1>3, Zenon
<1>5. Len(more) = n + 1 /\ more[n + 1] = c /\ \A i \in 1..n : more[i] = sent[i] BY <1>0, <1>4
<1>6. \A m \in 1..n : sent[m] # c BY <1>0, Zenon
<1>7. /\ \A i, j \in 1..a : i < j /\ done[i] \in others /\ done[j] \in others => Ahead(sent, done[i], done[j])
      /\ \A i \in 1..a : \E m \in 1..k : sent[m] = done[i]
      /\ \A j \in 1..b : \E m \in 1..k : sent[m] = late[j]
      /\ \A i, j \in 1..b : i < j => Ahead(sent, late[i], late[j])
      /\ \A i \in 1..a, j \in 1..b : done[i] \in others /\ late[j] \in others => Ahead(sent, done[i], late[j])
  BY <1>0, <1>1, Zenon DEF InTurn, DoneInTurn
<1>8. 1..k \subseteq 1..n /\ 1..k \subseteq 1..n + 1 BY <1>2
<1>9. /\ \A i \in 1..a : done[i] # c /\ \E m \in 1..k : more[m] = done[i]
      /\ \A j \in 1..b : late[j] # c /\ \E m \in 1..k : more[m] = late[j]
  <2>1. \A m \in 1..k : m \in 1..n /\ sent[m] # c /\ more[m] = sent[m] BY <1>5, <1>6, <1>8
  <2>2. \A x : (\E m \in 1..k : sent[m] = x) => x # c /\ \E m \in 1..k : more[m] = x BY <2>1
  <2> QED BY <1>7, <2>2, Zenon
<1>10. ASSUME NEW x, NEW y, x # c, y # c, Ahead(sent, x, y) PROVE Ahead(more, x, y)
  <2>1. ASSUME NEW p \in 1..n + 1, NEW q \in 1..n + 1, more[p] = x, more[q] = y PROVE p < q
    <3>1. p # n + 1 /\ q # n + 1 BY <1>5, <1>10, <2>1
    <3>2. p \in 1..n /\ q \in 1..n BY <2>1, <3>1
    <3>3. sent[p] = x /\ sent[q] = y BY <1>5, <2>1, <3>2, Zenon
    <3> QED BY <1>0, <1>10, <3>2, <3>3, Zenon DEF Ahead
  <2> QED BY <1>5, <2>1, Zenon DEF Ahead
<1>11. /\ \A i, j \in 1..a : i < j /\ done[i] \in others /\ done[j] \in others => Ahead(more, done[i], done[j])
       /\ \A i, j \in 1..b : i < j => Ahead(more, late[i], late[j])
       /\ \A i \in 1..a, j \in 1..b : done[i] \in others /\ late[j] \in others => Ahead(more, done[i], late[j])
  BY <1>7, <1>9, <1>10, Zenon
<1>12. \A i \in 1..a : \E m \in 1..n + 1 : more[m] = done[i] BY <1>8, <1>9, Zenon
<1>13. DoneInTurn(more, others, done) BY <1>0, <1>5, <1>11, <1>12, Zenon DEF DoneInTurn
<1>14. InTurn(more, others, done, late) BY <1>0, <1>1, <1>2, <1>5, <1>9, <1>11, <1>13, Zenon DEF InTurn
<1> QED BY <1>4, <1>14, Zenon

\* Calls that are not yet sent do not count.
LEMMA TurnOthers ==
  ASSUME NEW X, NEW sent \in Seq(X), NEW done \in Seq(X), NEW late \in Seq(X), NEW others, NEW others2,
         \A c \in X : c \in others2 => c \in others, InTurn(sent, others, done, late)
  PROVE  InTurn(sent, others2, done, late)
<1>1. /\ \A i \in 1..Len(done) : done[i] \in X
      /\ \A j \in 1..Len(late) : late[j] \in X
  OBVIOUS
<1>2. DoneInTurn(sent, others, done) BY DEF InTurn
<1>3. DoneInTurn(sent, others2, done) BY <1>1, <1>2, Zenon DEF DoneInTurn
<1> QED BY <1>1, <1>3, Zenon DEF InTurn

LEMMA CallOrder ==
  ASSUME TypeInv, OrderInv, NEW s \in Shapes, Call(s)
  PROVE  OrderInv'
<1>1. calls' = Append(calls, s) /\ UNCHANGED <<order, deferred, executed>> BY DEF Call, sending
<1>2. calls \in Seq(Shapes) /\ RanksType /\ order \in Seq(Ids) BY DEF TypeInv, CallsType
<1>3. \A c \in Ids : calls'[c] = calls[c] BY <1>1, <1>2 DEF Ids
<1>4. \A c \in Ids : c \in Others' => c \in Others BY <1>3 DEF Others
<1>5. ASSUME NEW r \in World PROVE InTurn(order, Others', executed[r], deferred[r])
  <2>1. executed[r] \in Seq(Ids) /\ deferred[r] \in Seq(Ids) BY <1>2 DEF RanksType
  <2>2. InTurn(order, Others, executed[r], deferred[r]) BY DEF OrderInv
  <2> QED BY <1>2, <1>4, <2>1, <2>2, TurnOthers
<1> QED BY <1>1, <1>5 DEF OrderInv

LEMMA TakeLockOrder ==
  ASSUME TypeInv, OrderInv, NEW c \in Ids, TakeLock(c)
  PROVE  OrderInv'
<1>1. order' = Append(order, c) /\ Unsent(c) /\ UNCHANGED <<calls, deferred, executed>>
  BY DEF TakeLock, callers
<1>2. RanksType /\ order \in Seq(Ids) BY DEF TypeInv, CallsType
<1>3. Others' = Others BY <1>1 DEF Others, Ids
<1>4. \A i \in 1..Len(order) : order[i] # c BY <1>1 DEF Unsent
<1>5. NoDuplicates(order')
  <2>1. c \notin ElementsOf(order) BY <1>4 DEF ElementsOf
  <2>2. NoDuplicates(order) BY DEF OrderInv
  <2> QED BY <1>1, <1>2, <2>1, <2>2, AppendElements
<1>6. ASSUME NEW r \in World PROVE InTurn(Append(order, c), Others, executed[r], deferred[r])
  <2>1. executed[r] \in Seq(Ids) /\ deferred[r] \in Seq(Ids) BY <1>2 DEF RanksType
  <2>2. InTurn(order, Others, executed[r], deferred[r]) BY DEF OrderInv
  <2> QED BY <1>2, <1>4, <2>1, <2>2, TurnGrows
<1> QED BY <1>1, <1>3, <1>5, <1>6 DEF OrderInv

LEMMA TakeCommandOrder ==
  ASSUME TypeInv, QueueInv, OrderInv, NEW r \in World, NEW c \in Ids, TakeCommand(r, c)
  PROVE  OrderInv'
<1>1. at[r] = "idle" /\ NextCommand(r, c) /\ executed'[r] = Append(executed[r], c) /\ UNCHANGED <<calls, order>>
      /\ \A q \in World \ {r} : executed'[q] = executed[q] /\ deferred'[q] = deferred[q]
  BY Takes
<1>2. RanksType /\ order \in Seq(Ids) BY DEF TypeInv, CallsType
<1>3. executed[r] \in Seq(Ids) /\ deferred[r] \in Seq(Ids) /\ cmdq[r] \in Seq(Ids) BY <1>2 DEF RanksType
<1>4. NoDuplicates(order) /\ InTurn(order, Others, executed[r], deferred[r]) BY DEF OrderInv
<1>6. InTurn(order, Others, executed'[r], deferred'[r])
  <2>1. CASE deferred[r] # << >>
    <3>1. c = Head(deferred[r]) /\ deferred'[r] = Tail(deferred[r]) BY <1>1, <1>2, <2>1 DEF NextCommand, RanksType
    <3>2. InTurn(order, Others, Append(executed[r], Head(deferred[r])), Tail(deferred[r]))
      BY <1>2, <1>3, <1>4, <2>1, TurnTakesLate
    <3> QED BY <1>1, <3>1, <3>2, Zenon
  <2>2. CASE deferred[r] = << >>
    <3>1. cmdq[r] # << >> /\ c = Head(cmdq[r]) /\ deferred'[r] = deferred[r] BY <1>1, <1>2, <2>2 DEF NextCommand, RanksType
    <3>2. ~Down(r) /\ ~InHand(r) BY <1>1 DEF Down, InHand
    <3>3. PICK e, d, l, n, t \in Nat : QueueIs(r, e, d, l, n, t) /\ t + l <= n BY <3>2, QueueNumbers
    <3>4. /\ e = Len(executed[r]) /\ d = Len(deferred[r]) /\ l = Len(cmdq[r]) /\ n = Len(order) /\ t = e + d
          /\ \A i \in 1..l : cmdq[r][i] = order[t + i]
      BY <3>2, <3>3, Zenon DEF QueueIs
    <3>5. Head(cmdq[r]) = cmdq[r][1] /\ Len(cmdq[r]) \in Nat \ {0} BY <1>3, <3>1, HeadAndTail
    <3>6. l \in Nat \ {0} /\ c = cmdq[r][1] BY <3>1, <3>4, <3>5, Zenon
    <3>7. 1 \in 1..l /\ e + d + 1 <= n /\ t + 1 = e + d + 1
      <4>1. t = e + d /\ t + l <= n BY <3>3, <3>4, Zenon
      <4> HIDE <3>4
      <4> QED BY <3>6, <4>1
    <3>8. c = order[Len(executed[r]) + Len(deferred[r]) + 1] /\ Len(executed[r]) + Len(deferred[r]) + 1 <= Len(order)
      BY <3>4, <3>6, <3>7, Zenon
    <3>9. Len(deferred[r]) = 0 BY <2>2
    <3>10. InTurn(order, Others, Append(executed[r], order[Len(executed[r]) + Len(deferred[r]) + 1]), deferred[r])
      BY <1>2, <1>3, <1>4, <3>8, <3>9, TurnTakesSent
    <3> QED BY <1>1, <3>1, <3>8, <3>10, Zenon
  <2> QED BY <2>1, <2>2
<1>7. Others' = Others BY <1>1 DEF Others, Ids
<1>8. \A q \in World : InTurn(order, Others, executed'[q], deferred'[q]) BY <1>1, <1>6 DEF OrderInv
<1> QED BY <1>1, <1>4, <1>7, <1>8 DEF OrderInv

LEMMA JoinOrDeferOrder ==
  ASSUME TypeInv, QueueInv, OrderInv, NEW r \in World, JoinOrDefer(r)
  PROVE  OrderInv'
<1>1. at[r] = "refilling" /\ picked[r] \in Ids /\ UNCHANGED <<calls, order>> BY Joins
<1>2. RanksType /\ order \in Seq(Ids) BY DEF TypeInv, CallsType
<1>3. executed[r] \in Seq(Ids) /\ deferred[r] \in Seq(Ids) BY <1>2 DEF RanksType
<1>4. NoDuplicates(order) /\ InTurn(order, Others, executed[r], deferred[r]) BY DEF OrderInv
<1>5. ~Down(r) /\ InHand(r) BY <1>1 DEF Down, InHand
<1>6. PICK e, d, l, n, t \in Nat : QueueIs(r, e, d, l, n, t) /\ t + l <= n BY <1>5, QueueNumbers
<1>7. e = Len(executed[r]) /\ d = Len(deferred[r]) /\ n = Len(order) /\ t = e + d + 1 /\ picked[r] = order[t]
  BY <1>5, <1>6, Zenon DEF QueueIs
<1>8. t <= n BY <1>6
<1>9. /\ picked[r] = order[Len(executed[r]) + Len(deferred[r]) + 1]
      /\ Len(executed[r]) + Len(deferred[r]) + 1 <= Len(order)
  BY <1>7, <1>8, Zenon
<1>10. Others' = Others BY <1>1 DEF Others, Ids
<1>11. CASE ~Compatible(r, picked[r])
  <2>1. deferred' = [deferred EXCEPT ![r] = Append(@, picked[r])] /\ executed' = executed BY <1>11, Joins
  <2>2. deferred'[r] = Append(deferred[r], picked[r]) /\ \A q \in World \ {r} : deferred'[q] = deferred[q]
    BY <1>2, <2>1 DEF RanksType
  <2>3. InTurn(order, Others, executed[r], Append(deferred[r], order[Len(executed[r]) + Len(deferred[r]) + 1]))
    BY <1>2, <1>3, <1>4, <1>9, TurnDefers
  <2>4. InTurn(order, Others, executed'[r], deferred'[r]) BY <1>9, <2>1, <2>2, <2>3, Zenon
  <2>5. \A q \in World : InTurn(order, Others, executed'[q], deferred'[q]) BY <2>1, <2>2, <2>4 DEF OrderInv
  <2> QED BY <1>1, <1>4, <1>10, <2>5 DEF OrderInv
<1>12. CASE Compatible(r, picked[r])
  <2>1. executed' = [executed EXCEPT ![r] = Append(@, picked[r])] /\ deferred' = deferred BY <1>12, Joins
  <2>2. executed'[r] = Append(executed[r], picked[r]) /\ \A q \in World \ {r} : executed'[q] = executed[q]
    BY <1>2, <2>1 DEF RanksType
  <2>3. picked[r] \notin Others BY <1>12 DEF Others, Compatible
  <2>4. InTurn(order, Others, Append(executed[r], order[Len(executed[r]) + Len(deferred[r]) + 1]), deferred[r])
    BY <1>2, <1>3, <1>4, <1>9, <2>3, TurnTakesSent
  <2>5. InTurn(order, Others, executed'[r], deferred'[r]) BY <1>9, <2>1, <2>2, <2>4, Zenon
  <2>6. \A q \in World : InTurn(order, Others, executed'[q], deferred'[q]) BY <2>1, <2>2, <2>5 DEF OrderInv
  <2> QED BY <1>1, <1>4, <1>10, <2>6 DEF OrderInv
<1> QED BY <1>11, <1>12

LEMMA NextOrder ==
  ASSUME TypeInv, QueueInv, OrderInv, [Next]_vars
  PROVE  OrderInv'
<1>1. ASSUME UNCHANGED <<calls, order, deferred, executed>> PROVE OrderInv'
  <2>1. Others' = Others BY <1>1 DEF Others, Ids
  <2> QED BY <1>1, <2>1 DEF OrderInv
<1>2. CASE CoordinatorStep
  <2>1. ASSUME NEW s \in Shapes, Call(s) PROVE OrderInv' BY <2>1, CallOrder
  <2>2. ASSUME NEW c \in Ids, TakeLock(c) PROVE OrderInv' BY <2>2, TakeLockOrder
  <2>3. CASE PutCommand \/ PumpStep \/ (\E c \in Ids : CallTimesOut(c)) \/ Quiescent \/ UNCHANGED vars
    <3>1. UNCHANGED <<calls, order, deferred, executed>>
      BY <2>3 DEF PutCommand, PumpStep, PumpResult, PumpEmpty, PumpCheck, CallTimesOut, Quiescent, vars, callers, sending
    <3> QED BY <1>1, <3>1
  <2> QED BY <1>2, <2>1, <2>2, <2>3 DEF CoordinatorStep, SenderStep
<1>3. CASE FailStep
  <2>1. UNCHANGED <<calls, order, deferred, executed>> BY <1>3 DEF FailStep, Raise, Exit, Killed, callers, sending
  <2> QED BY <1>1, <2>1
<1>4. ASSUME NEW r \in World, PutResult(r) \/ PickRefill(r) \/ PopMatching(r) PROVE OrderInv'
  <2>1. PopMatching(r) => UNCHANGED <<calls, order, deferred, executed>> BY PopsPicked
  <2>2. UNCHANGED <<calls, order, deferred, executed>> BY <1>4, <2>1 DEF PutResult, PickRefill, callers, sending
  <2> QED BY <1>1, <2>2
<1>5. CASE AdvanceStep BY <1>4, <1>5, TakeCommandOrder, JoinOrDeferOrder DEF AdvanceStep
<1>6. ASSUME NEW g \in Groups, GroupStep(g) PROVE OrderInv'
  <2>1. UNCHANGED <<calls, order, deferred, executed>>
    BY <1>6 DEF GroupStep, Execute, BroadcastHeader, Forward, callers, sending
  <2> QED BY <1>1, <2>1
<1> QED BY <1>2, <1>3, <1>5, <1>6, NextSplits

\* Training and the other operations run on every rank in the order in which they
\* were broadcast (_send_lock), whatever rollouts join a batch or are deferred
\* around them (refill_waiting), and whoever fails.
THEOREM OperationsRunInOrder == Spec => []OthersInOrder
<1>1. Init => TypeInv /\ QueueInv /\ GroupInv BY InitTypes, InitQueuesAndGroups
<1>2. Init => OrderInv
  <2> SUFFICES ASSUME Init PROVE OrderInv OBVIOUS
  <2>1. Len(<< >>) = 0 OBVIOUS
  <2>2. \A others : InTurn(<< >>, others, << >>, << >>) BY <2>1 DEF InTurn, DoneInTurn
  <2> QED BY <2>1, <2>2 DEF Init, OrderInv, NoDuplicates
<1>3. TypeInv /\ QueueInv /\ GroupInv /\ [Next]_vars => TypeInv' /\ QueueInv' /\ GroupInv'
  BY NextTypes, NextQueues, NextGroups
<1>4. TypeInv /\ QueueInv /\ OrderInv /\ [Next]_vars => OrderInv' BY NextOrder
<1>5. TypeInv /\ OrderInv => OthersInOrder
  <2> SUFFICES ASSUME TypeInv, OrderInv, NEW r \in World, NEW i \in 1..Len(executed[r]), NEW j \in 1..Len(executed[r]),
                      i < j, calls[executed[r][i]].op = "other", calls[executed[r][j]].op = "other",
                      NEW m \in Position(executed[r][i]), NEW n \in Position(executed[r][j])
               PROVE  m < n
    BY DEF OthersInOrder
  <2>1. executed[r] \in Seq(Ids) BY DEF TypeInv, RanksType
  <2>2. executed[r][i] \in Others /\ executed[r][j] \in Others BY <2>1 DEF Others
  <2>3. DoneInTurn(order, Others, executed[r]) BY DEF OrderInv, InTurn
  <2>4. Ahead(order, executed[r][i], executed[r][j]) BY <2>2, <2>3, Zenon DEF DoneInTurn
  <2> QED BY <2>4 DEF Ahead, Position
<1> QED BY <1>1, <1>2, <1>3, <1>4, <1>5, PTL DEF Spec

=============================================================================
