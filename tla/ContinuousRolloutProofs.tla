------------------------ MODULE ContinuousRolloutProofs ------------------------
(***************************************************************************)
(* Theorems about the worker: where a command is and how often it is       *)
(* answered, that a rollout is answered with its own rows, and that the    *)
(* rows that join a batch fit its cache and its pool.                      *)
(***************************************************************************)
EXTENDS ContinuousRollout, RolloutSchedulerProofs, InductionFacts

-----------------------------------------------------------------------------
(* The inductive invariant                                                 *)

\* rs are successful answers, one to each request of ids.
AllOk(rs, ids) ==
  /\ rs \in Seq(ElementsOf(rs))
  /\ {rs[i].id : i \in 1..Len(rs)} = ids
  /\ \A i, j \in 1..Len(rs) : rs[i].id = rs[j].id => i = j
  /\ \A i \in 1..Len(rs) : rs[i].ok

WorkerType ==
  /\ submitted \in Seq(Shapes)
  /\ cmd_queue \in Seq(Nat) /\ deferred \in Seq(Nat)
  /\ current_ids \in Seq(Nat) /\ request_ids \in Seq(Nat)
  /\ sent \subseteq 1..Len(request_ids)
  /\ rollout \in Nat

Queued   == ElementsOf(cmd_queue)
Deferred == ElementsOf(deferred)
Current  == ElementsOf(current_ids)
Answered   == {results[i].id : i \in 1..Len(results)}

\* Where the commands of a live worker are.
CommandPlaces ==
  /\ NoDuplicates(cmd_queue) /\ NoDuplicates(deferred)
  /\ NoDuplicates(current_ids) /\ NoDuplicates(request_ids)
  /\ Queued \cap Deferred = {}
  /\ Queued \cap (Current \cup Answered) = {}
  /\ Deferred \cap (Current \cup Answered) = {}
  /\ Current \cap Answered = {}
  /\ Queued \cup Deferred \cup Current \cup Answered = Ids

\* The running batch and the requests not answered yet are the same.
BatchIsCurrent ==
  /\ Current = IdsOf(Unanswered)
  /\ ElementsOf(request_ids) \subseteq Current \cup Answered
  /\ rollout = 0 => request_ids = << >>
  /\ rollout # 0 => rollout \in ElementsOf(request_ids)

\* Where the commands are that a dead worker has left.
PlacesLeft ==
  /\ NoDuplicates(cmd_queue) /\ NoDuplicates(deferred)
  /\ Queued \cap Deferred = {}
  /\ Queued \cap Answered = {} /\ Deferred \cap Answered = {}
  /\ Queued \cup Deferred \cup Answered = Ids

WorkerInv ==
  /\ WorkerType
  /\ alive => AllOk(results, Answered) /\ CommandPlaces /\ BatchIsCurrent
  /\ ~alive => AnsweredOnce /\ PlacesLeft

-----------------------------------------------------------------------------
(* Answers                                                                 *)

\* Answers to different requests, put one behind the other.
LEMMA JoinOk ==
  ASSUME NEW a, NEW b, NEW A, NEW B, AllOk(a, A), AllOk(b, B), A \cap B = {}
  PROVE  AllOk(a \o b, A \cup B)
<1> DEFINE X == ElementsOf(a) \cup ElementsOf(b)
           c == a \o b
<1>1. a \in Seq(X) /\ b \in Seq(X) BY DEF AllOk
<1>2. /\ c \in Seq(X)
      /\ Len(a) \in Nat /\ Len(b) \in Nat /\ Len(c) = Len(a) + Len(b)
      /\ \A i \in 1..Len(a) : c[i] = a[i]
      /\ \A i \in Len(a) + 1 .. Len(a) + Len(b) : c[i] = b[i - Len(a)]
  BY <1>1, ConcatElements
<1> HIDE DEF X, c
<1>3. \A i \in 1..Len(c) : \/ i \in 1..Len(a)
                           \/ i \in Len(a) + 1 .. Len(a) + Len(b) /\ i - Len(a) \in 1..Len(b)
  BY <1>2
<1>4. \A i \in 1..Len(b) : /\ Len(a) + i \in Len(a) + 1 .. Len(a) + Len(b)
                           /\ (Len(a) + i) - Len(a) = i /\ Len(a) + i \in 1..Len(c)
  BY <1>2
<1>5. \A i \in 1..Len(a) : i \in 1..Len(c) BY <1>2
<1>6. \A i \in 1..Len(b) : c[Len(a) + i] = b[i] BY <1>2, <1>4
<1>7. c \in Seq(ElementsOf(c))
  <2>1. \A i \in 1..Len(c) : c[i] \in ElementsOf(c) BY DEF ElementsOf
  <2> QED BY <1>2, <2>1
<1>8. \A i \in 1..Len(c) : c[i].ok BY <1>2, <1>3 DEF AllOk
<1>9. ASSUME NEW i \in 1..Len(c) PROVE c[i].id \in A \cup B
  <2>1. CASE i \in 1..Len(a) BY <1>2, <2>1 DEF AllOk
  <2>2. CASE i \in Len(a) + 1 .. Len(a) + Len(b) /\ i - Len(a) \in 1..Len(b) BY <1>2, <2>2 DEF AllOk
  <2> QED BY <1>3, <2>1, <2>2
<1>10. ASSUME NEW x \in A \cup B PROVE \E i \in 1..Len(c) : c[i].id = x
  <2>1. CASE x \in A
    <3>1. PICK i \in 1..Len(a) : a[i].id = x BY <2>1 DEF AllOk
    <3> QED BY <1>2, <1>5, <3>1
  <2>2. CASE x \in B
    <3>1. PICK i \in 1..Len(b) : b[i].id = x BY <2>2 DEF AllOk
    <3> QED BY <1>4, <1>6, <3>1
  <2> QED BY <2>1, <2>2
<1>11. ASSUME NEW i \in 1..Len(c), NEW j \in 1..Len(c), c[i].id = c[j].id PROVE i = j
  <2>1. CASE i \in 1..Len(a) /\ j \in 1..Len(a) BY <1>2, <1>11, <2>1 DEF AllOk
  <2>2. ASSUME NEW k \in 1..Len(c), NEW m \in 1..Len(c), c[k].id = c[m].id,
               k \in 1..Len(a), m \in Len(a) + 1 .. Len(a) + Len(b)
        PROVE  FALSE
    <3>1. c[k].id \in A BY <1>2, <2>2 DEF AllOk
    <3>2. m - Len(a) \in 1..Len(b) BY <1>2, <2>2
    <3>3. c[m].id \in B BY <1>2, <2>2, <3>2 DEF AllOk
    <3> QED BY <2>2, <3>1, <3>3
  <2>3. CASE i \in Len(a) + 1 .. Len(a) + Len(b) /\ j \in Len(a) + 1 .. Len(a) + Len(b)
    <3>1. i - Len(a) \in 1..Len(b) /\ j - Len(a) \in 1..Len(b) BY <1>2, <2>3
    <3>2. b[i - Len(a)].id = b[j - Len(a)].id BY <1>2, <1>11, <2>3
    <3>3. i - Len(a) = j - Len(a) BY <3>1, <3>2 DEF AllOk
    <3> QED BY <1>2, <2>3, <3>3
  <2> QED BY <1>3, <1>11, <2>1, <2>2, <2>3
<1>12. {c[i].id : i \in 1..Len(c)} = A \cup B BY <1>9, <1>10
<1> QED BY <1>7, <1>8, <1>11, <1>12 DEF AllOk, c

\* A single answer.
LEMMA OneOk ==
  ASSUME NEW a, NEW x, NEW A, AllOk(a, A), x.ok, x.id \notin A
  PROVE  AllOk(Append(a, x), A \cup {x.id})
<1> DEFINE b == <<x>>
<1>1. AllOk(b, {x.id})
  <2>1. Len(b) = 1 /\ b[1] = x /\ 1..Len(b) = {1} OBVIOUS
  <2>2. b \in Seq(ElementsOf(b))
    <3>1. x \in ElementsOf(b) BY <2>1 DEF ElementsOf
    <3> QED BY <3>1
  <2> HIDE DEF b
  <2> QED BY <2>1, <2>2 DEF AllOk
<1>2. Append(a, x) = a \o b
  <2> DEFINE X == ElementsOf(a) \cup {x}
  <2>1. a \in Seq(X) /\ x \in X BY DEF AllOk
  <2> HIDE DEF X
  <2> QED BY <2>1
<1> QED BY <1>1, <1>2, JoinOk

\* Whose answer it is, and that it is no error.
LEMMA OkFields ==
  ASSUME NEW id, NEW rs, NEW reasons, NEW x, x = Ok(id, rs, reasons)
  PROVE  x.id = id /\ x.ok
BY Zenon DEF Ok

\* The answers to the requests of an index set are those, each once.
LEMMA AnswersOk ==
  ASSUME NEW ks, ks \subseteq 1..Len(request_ids), NEW reasons,
         request_ids \in Seq(Nat), NoDuplicates(request_ids)
  PROVE  AllOk(Answers(ks, reasons), IdsOf(ks))
<1> DEFINE all == [k \in 1..Len(request_ids) |-> k]
           order == Kept(all, ks)
           as == [i \in 1..Len(order) |-> Ok(request_ids[order[i]], request_rows[order[i]], reasons)]
<1>0. Len(request_ids) \in Nat OBVIOUS
<1>1. all \in Seq(Nat) /\ Len(all) = Len(request_ids) BY <1>0
<1>2. \A i, j \in 1..Len(all) : all[i] = all[j] => i = j BY <1>1
<1>3. /\ order \in Seq(Nat)
      /\ \A i \in 1..Len(all) : all[i] \in ks => \E j \in 1..Len(order) : order[j] = all[i]
      /\ \A j \in 1..Len(order) : order[j] \in ks
      /\ \A i, j \in 1..Len(order) : order[i] = order[j] => i = j
  <2> HIDE DEF all
  <2> QED BY <1>1, <1>2, KeptFacts
<1>4. \A k \in ks : \E j \in 1..Len(order) : order[j] = k
  <2>1. \A k \in ks : k \in 1..Len(all) /\ all[k] = k BY <1>1
  <2> HIDE DEF all, order
  <2> QED BY <1>3, <2>1
<1>5. Len(order) \in Nat BY <1>3
<1>6. Answers(ks, reasons) = as BY DEF Answers
<1> HIDE DEF all, order
<1>7. Len(as) = Len(order) /\ \A i \in 1..Len(order) : as[i] = Ok(request_ids[order[i]], request_rows[order[i]], reasons)
  BY <1>5
<1>8. as \in Seq(ElementsOf(as))
  <2>1. \A i \in 1..Len(order) : as[i] \in ElementsOf(as) BY <1>7 DEF ElementsOf
  <2>2. as = [i \in 1..Len(order) |-> as[i]] OBVIOUS
  <2> HIDE DEF as
  <2>3. as \in [1..Len(order) -> ElementsOf(as)] BY <2>1, <2>2
  <2> QED BY <1>5, <2>3, SeqOfFunction
<1> HIDE DEF as
<1>9. ASSUME NEW i \in 1..Len(order)
      PROVE  as[i].id = request_ids[order[i]] /\ as[i].ok
  <2>1. as[i] = Ok(request_ids[order[i]], request_rows[order[i]], reasons) BY <1>7
  <2> QED BY <2>1, OkFields
<1>10. Len(as) = Len(order) BY <1>7
<1>11. ASSUME NEW i \in 1..Len(as) PROVE order[i] \in ks /\ as[i].id = request_ids[order[i]] /\ as[i].ok
  BY <1>3, <1>9, <1>10
<1>12. {as[i].id : i \in 1..Len(as)} = IdsOf(ks)
  <2>1. ASSUME NEW i \in 1..Len(as) PROVE as[i].id \in IdsOf(ks) BY <1>11 DEF IdsOf
  <2>2. ASSUME NEW x \in IdsOf(ks) PROVE \E i \in 1..Len(as) : as[i].id = x
    <3>1. PICK k \in ks : x = request_ids[k] BY DEF IdsOf
    <3>2. PICK j \in 1..Len(order) : order[j] = k BY <1>4
    <3> QED BY <1>10, <1>11, <3>1, <3>2
  <2> QED BY <2>1, <2>2
<1>13. ASSUME NEW i \in 1..Len(as), NEW j \in 1..Len(as), as[i].id = as[j].id PROVE i = j
  <2>1. order[i] \in 1..Len(request_ids) /\ order[j] \in 1..Len(request_ids) BY <1>11
  <2>2. order[i] = order[j] BY <1>11, <1>13, <2>1 DEF NoDuplicates
  <2> QED BY <1>3, <1>10, <2>2
<1>14. AllOk(as, IdsOf(ks)) BY ONLY <1>8, <1>11, <1>12, <1>13 DEF AllOk
<1> QED BY <1>6, <1>14

-----------------------------------------------------------------------------
(* Steps                                                                   *)

\* The loop takes a command that is waiting in one of the two lists.
LEMMA TakeNext ==
  ASSUME WorkerInv, alive, NEW id, NextCommand(id)
  PROVE  /\ cmd_queue' \in Seq(Nat) /\ deferred' \in Seq(Nat) /\ id \in Nat
         /\ NoDuplicates(cmd_queue)' /\ NoDuplicates(deferred)'
         /\ Queued' \subseteq Queued /\ Deferred' \subseteq Deferred
         /\ id \in Queued \cup Deferred
         /\ Queued' \cup Deferred' = (Queued \cup Deferred) \ {id}
<1>1. /\ cmd_queue \in Seq(Nat) /\ deferred \in Seq(Nat)
      /\ NoDuplicates(cmd_queue) /\ NoDuplicates(deferred) /\ Queued \cap Deferred = {}
  BY DEF WorkerInv, WorkerType, CommandPlaces
<1>2. CASE deferred # << >>
  <2>1. id = Head(deferred) /\ deferred' = Tail(deferred) /\ cmd_queue' = cmd_queue
    BY <1>2 DEF NextCommand
  <2>2. /\ deferred' \in Seq(Nat) /\ id \in Nat /\ id \in ElementsOf(deferred)
        /\ ElementsOf(deferred') = ElementsOf(deferred) \ {id}
        /\ NoDuplicates(deferred')
    BY <1>1, <1>2, <2>1, TailElements
  <2>3. Queued' = Queued /\ NoDuplicates(cmd_queue') BY <1>1, <2>1 DEF Queued
  <2> QED BY <1>1, <2>1, <2>2, <2>3 DEF Queued, Deferred
<1>3. CASE deferred = << >>
  <2>1. id = Head(cmd_queue) /\ cmd_queue' = Tail(cmd_queue) /\ cmd_queue # << >> /\ deferred' = deferred
    BY <1>3 DEF NextCommand
  <2>2. /\ cmd_queue' \in Seq(Nat) /\ id \in Nat /\ id \in ElementsOf(cmd_queue)
        /\ ElementsOf(cmd_queue') = ElementsOf(cmd_queue) \ {id}
        /\ NoDuplicates(cmd_queue')
    BY <1>1, <2>1, TailElements
  <2>3. Deferred' = Deferred /\ NoDuplicates(deferred') BY <1>1, <2>1 DEF Deferred
  <2> QED BY <1>1, <2>1, <2>2, <2>3 DEF Queued, Deferred
<1> QED BY <1>2, <1>3

\* The head of the queue, when it leaves it.
LEMMA TakeHead ==
  ASSUME WorkerInv, alive, cmd_queue # << >>, cmd_queue' = Tail(cmd_queue)
  PROVE  /\ cmd_queue' \in Seq(Nat) /\ Head(cmd_queue) \in Nat
         /\ NoDuplicates(cmd_queue)'
         /\ Head(cmd_queue) \in Queued
         /\ Queued' = Queued \ {Head(cmd_queue)}
<1>1. cmd_queue \in Seq(Nat) /\ NoDuplicates(cmd_queue) BY DEF WorkerInv, WorkerType, CommandPlaces
<1>2. /\ cmd_queue' \in Seq(Nat) /\ Head(cmd_queue) \in Nat /\ Head(cmd_queue) \in ElementsOf(cmd_queue)
      /\ ElementsOf(cmd_queue') = ElementsOf(cmd_queue) \ {Head(cmd_queue)}
      /\ NoDuplicates(cmd_queue')
  BY <1>1, TailElements
<1> QED BY <1>2 DEF Queued

\* An idle worker has nothing current.
LEMMA IdleIsEmpty ==
  ASSUME WorkerInv, Idle
  PROVE  Current = {} /\ request_ids = << >>
<1>1. request_ids = << >> /\ Current = IdsOf(Unanswered) BY DEF WorkerInv, BatchIsCurrent, Idle
<1>2. Unanswered = {} BY <1>1 DEF Unanswered
<1> QED BY <1>1, <1>2 DEF IdsOf

\* A step that touches none of what the invariant speaks about.
LEMMA WorkerSame ==
  ASSUME WorkerInv, UNCHANGED wvars
  PROVE  WorkerInv'
<1>1. UNCHANGED <<submitted, cmd_queue, deferred, current_ids, rollout, request_ids, sent, results, alive>>
  BY DEF wvars, queues, batch
<1>2. WorkerType' = WorkerType BY <1>1 DEF WorkerType
<1>3. Queued' = Queued /\ Deferred' = Deferred /\ Current' = Current /\ Answered' = Answered /\ Ids' = Ids
  BY <1>1 DEF Queued, Deferred, Current, Answered, Ids
<1>4. AllOk(results, Answered)' = AllOk(results, Answered) BY <1>1, <1>3 DEF AllOk
<1>5. CommandPlaces' = CommandPlaces BY <1>1, <1>3 DEF CommandPlaces
<1>6. Unanswered' = Unanswered /\ IdsOf(Unanswered)' = IdsOf(Unanswered) BY <1>1 DEF Unanswered, IdsOf
<1>7. BatchIsCurrent' = BatchIsCurrent BY <1>1, <1>3, <1>6 DEF BatchIsCurrent
<1>8. AnsweredOnce' = AnsweredOnce BY <1>1 DEF AnsweredOnce
<1>9. PlacesLeft' = PlacesLeft BY <1>1, <1>3 DEF PlacesLeft
<1> QED BY <1>1, <1>2, <1>4, <1>5, <1>7, <1>8, <1>9 DEF WorkerInv

LEMMA ServeKeeps ==
  ASSUME WorkerInv, NEW id, Serve(id)
  PROVE  WorkerInv'
<1>1. /\ alive /\ alive' /\ NextCommand(id) /\ results' = Append(results, Empty(id))
      /\ UNCHANGED <<submitted, current_ids, rollout, request_ids, sent>>
  BY DEF Serve, Idle, batch
<1>2. /\ cmd_queue' \in Seq(Nat) /\ deferred' \in Seq(Nat) /\ id \in Nat
      /\ NoDuplicates(cmd_queue)' /\ NoDuplicates(deferred)'
      /\ Queued' \subseteq Queued /\ Deferred' \subseteq Deferred
      /\ id \in Queued \cup Deferred
      /\ Queued' \cup Deferred' = (Queued \cup Deferred) \ {id}
  BY <1>1, TakeNext
<1>3. AllOk(results, Answered) /\ CommandPlaces /\ BatchIsCurrent /\ WorkerType BY <1>1 DEF WorkerInv
<1>4. Empty(id).id = id /\ Empty(id).ok BY DEF Empty
<1>5. id \notin Answered /\ id \notin Current BY <1>2, <1>3 DEF CommandPlaces
<1>6. AllOk(results', Answered \cup {id}) BY <1>1, <1>3, <1>4, <1>5, OneOk
<1>7. Answered' = Answered \cup {id} BY <1>6 DEF AllOk, Answered
<1>8. Current' = Current /\ Ids' = Ids BY <1>1 DEF Current, Ids
<1>9. CommandPlaces'
  <2>1. NoDuplicates(current_ids)' /\ NoDuplicates(request_ids)' BY <1>1, <1>3 DEF CommandPlaces
  <2> QED BY <1>2, <1>3, <1>5, <1>7, <1>8, <2>1 DEF CommandPlaces
<1>10. BatchIsCurrent'
  <2>1. Unanswered' = Unanswered /\ IdsOf(Unanswered)' = IdsOf(Unanswered)
    BY <1>1 DEF Unanswered, IdsOf
  <2> QED BY <1>1, <1>3, <1>7, <1>8, <2>1 DEF BatchIsCurrent
<1>11. WorkerType' BY <1>1, <1>2, <1>3 DEF WorkerType
<1> QED BY <1>1, <1>6, <1>7, <1>9, <1>10, <1>11 DEF WorkerInv

LEMMA StartKeeps ==
  ASSUME WorkerInv, NEW id, StartRollout(id)
  PROVE  WorkerInv'
<1>1. /\ alive /\ alive' /\ NextCommand(id) /\ request_ids' = <<id>> /\ current_ids' = <<id>>
      /\ rollout' = id /\ sent' = {} /\ UNCHANGED <<submitted, results>>
  BY DEF StartRollout, Idle
<1>2. /\ cmd_queue' \in Seq(Nat) /\ deferred' \in Seq(Nat) /\ id \in Nat
      /\ NoDuplicates(cmd_queue)' /\ NoDuplicates(deferred)'
      /\ Queued' \subseteq Queued /\ Deferred' \subseteq Deferred
      /\ id \in Queued \cup Deferred
      /\ Queued' \cup Deferred' = (Queued \cup Deferred) \ {id}
  BY <1>1, TakeNext
<1>3. AllOk(results, Answered) /\ CommandPlaces /\ BatchIsCurrent /\ WorkerType BY <1>1 DEF WorkerInv
<1>4. Current = {} BY IdleIsEmpty DEF StartRollout
<1>5. /\ current_ids' \in Seq(Nat) /\ request_ids' \in Seq(Nat) /\ Len(request_ids') = 1 /\ Len(current_ids') = 1
      /\ request_ids'[1] = id /\ current_ids'[1] = id /\ 1..Len(request_ids') = {1} /\ 1..Len(current_ids') = {1}
  BY <1>1, <1>2
<1>6. Current' = {id} /\ ElementsOf(request_ids') = {id} BY <1>5 DEF Current, ElementsOf
<1>7. NoDuplicates(current_ids') /\ NoDuplicates(request_ids') BY <1>5 DEF NoDuplicates
<1>8. Answered' = Answered /\ Ids' = Ids /\ AllOk(results, Answered)' BY <1>1, <1>3 DEF Answered, Ids, AllOk
<1>9. CommandPlaces'
  <2>1. /\ Queued \cap Deferred = {} /\ id \notin Answered
        /\ Queued \cap Answered = {} /\ Deferred \cap Answered = {}
        /\ Queued \cup Deferred \cup Answered = Ids
    BY <1>2, <1>3, <1>4 DEF CommandPlaces
  <2>2. /\ Queued' \cap Deferred' = {} /\ Queued' \cap {id} = {} /\ Deferred' \cap {id} = {}
        /\ Queued' \cap Answered = {} /\ Deferred' \cap Answered = {}
        /\ Queued' \cup Deferred' \cup {id} \cup Answered = Ids
    BY <1>2, <2>1
  <2> QED BY <1>2, <1>6, <1>7, <1>8, <2>1, <2>2 DEF CommandPlaces
<1>10. BatchIsCurrent'
  <2>1. Unanswered' = {1} BY <1>1, <1>5 DEF Unanswered
  <2>2. IdsOf(Unanswered)' = {id} BY <1>5, <2>1 DEF IdsOf
  <2>3. rollout' # 0
    <3>1. id \in Ids BY <1>2, <1>3 DEF CommandPlaces
    <3>2. Len(submitted) \in Nat BY <1>3 DEF WorkerType
    <3> QED BY <1>1, <3>1, <3>2 DEF Ids
  <2> QED BY <1>1, <1>6, <2>2, <2>3 DEF BatchIsCurrent
<1>11. WorkerType' BY <1>1, <1>2, <1>3, <1>5 DEF WorkerType
<1> QED BY <1>1, <1>8, <1>9, <1>10, <1>11 DEF WorkerInv

LEMMA JoinRolloutKeeps ==
  ASSUME WorkerInv, JoinRollout
  PROVE  WorkerInv'
<1> DEFINE id == Head(cmd_queue)
<1>1. /\ alive /\ alive' /\ cmd_queue # << >> /\ cmd_queue' = Tail(cmd_queue) /\ rollout # 0
      /\ request_ids' = Append(request_ids, id) /\ current_ids' = Append(current_ids, id)
      /\ UNCHANGED <<submitted, deferred, rollout, sent, results>>
  BY DEF JoinRollout, Running, Join
<1>2. /\ cmd_queue' \in Seq(Nat) /\ id \in Nat /\ NoDuplicates(cmd_queue)'
      /\ id \in Queued /\ Queued' = Queued \ {id}
  BY <1>1, TakeHead
<1>3. AllOk(results, Answered) /\ CommandPlaces /\ BatchIsCurrent /\ WorkerType BY <1>1 DEF WorkerInv
<1> HIDE DEF id
<1>4. id \notin Current /\ id \notin Answered /\ id \notin Deferred /\ id \in Ids BY <1>2, <1>3 DEF CommandPlaces
<1>5. id \notin ElementsOf(request_ids) BY <1>3, <1>4 DEF BatchIsCurrent
<1>6. current_ids \in Seq(Nat) /\ request_ids \in Seq(Nat) /\ sent \subseteq 1..Len(request_ids)
  BY <1>3 DEF WorkerType
<1>7. /\ current_ids' \in Seq(Nat) /\ Current' = Current \cup {id} /\ NoDuplicates(current_ids')
      /\ request_ids' \in Seq(Nat) /\ ElementsOf(request_ids') = ElementsOf(request_ids) \cup {id}
      /\ NoDuplicates(request_ids')
  BY <1>1, <1>2, <1>3, <1>4, <1>5, <1>6, AppendElements DEF CommandPlaces, Current
<1>8. Deferred' = Deferred /\ Answered' = Answered /\ Ids' = Ids /\ AllOk(results, Answered)'
  BY <1>1, <1>3 DEF Deferred, Answered, Ids, AllOk
<1>9. CommandPlaces'
  <2>1. NoDuplicates(deferred)' BY <1>1, <1>3 DEF CommandPlaces
  <2> QED BY <1>2, <1>3, <1>4, <1>7, <1>8, <2>1 DEF CommandPlaces
<1>10. /\ Len(request_ids) \in Nat /\ Len(request_ids') = Len(request_ids) + 1
       /\ request_ids'[Len(request_ids) + 1] = id
       /\ \A k \in 1..Len(request_ids) : request_ids'[k] = request_ids[k]
  BY <1>1, <1>2, <1>6
<1>11. Unanswered' = Unanswered \cup {Len(request_ids) + 1}
  BY <1>1, <1>6, <1>10 DEF Unanswered
<1>12. IdsOf(Unanswered)' = IdsOf(Unanswered) \cup {id}
  <2>1. \A k \in Unanswered : request_ids'[k] = request_ids[k] BY <1>10 DEF Unanswered
  <2> QED BY <1>10, <1>11, <2>1 DEF IdsOf
<1>13. BatchIsCurrent' BY <1>1, <1>3, <1>7, <1>8, <1>12 DEF BatchIsCurrent
<1>14. WorkerType' BY <1>1, <1>2, <1>3, <1>7, <1>10 DEF WorkerType
<1> QED BY <1>1, <1>8, <1>9, <1>13, <1>14 DEF WorkerInv

LEMMA JoinEmptyKeeps ==
  ASSUME WorkerInv, JoinEmpty
  PROVE  WorkerInv'
<1> DEFINE id == Head(cmd_queue)
<1>1. /\ alive /\ alive' /\ cmd_queue # << >> /\ cmd_queue' = Tail(cmd_queue) /\ rollout # 0
      /\ request_ids' = Append(request_ids, id) /\ results' = Append(results, Empty(id))
      /\ sent' = sent \cup {Len(request_ids) + 1}
      /\ UNCHANGED <<submitted, deferred, current_ids, rollout>>
  BY DEF JoinEmpty, Running, Join
<1>2. /\ cmd_queue' \in Seq(Nat) /\ id \in Nat /\ NoDuplicates(cmd_queue)'
      /\ id \in Queued /\ Queued' = Queued \ {id}
  BY <1>1, TakeHead
<1>3. AllOk(results, Answered) /\ CommandPlaces /\ BatchIsCurrent /\ WorkerType BY <1>1 DEF WorkerInv
<1>0. Empty(id).id = id /\ Empty(id).ok BY DEF Empty
<1> HIDE DEF id
<1>4. id \notin Current /\ id \notin Answered /\ id \notin Deferred /\ id \in Ids BY <1>2, <1>3 DEF CommandPlaces
<1>5. id \notin ElementsOf(request_ids) BY <1>3, <1>4 DEF BatchIsCurrent
<1>6. request_ids \in Seq(Nat) /\ sent \subseteq 1..Len(request_ids) BY <1>3 DEF WorkerType
<1>7. /\ request_ids' \in Seq(Nat) /\ ElementsOf(request_ids') = ElementsOf(request_ids) \cup {id}
      /\ NoDuplicates(request_ids')
  BY <1>1, <1>2, <1>3, <1>5, <1>6, AppendElements DEF CommandPlaces
<1>8. AllOk(results', Answered \cup {id}) BY <1>0, <1>1, <1>3, <1>4, OneOk
<1>9. Answered' = Answered \cup {id} BY <1>8 DEF AllOk, Answered
<1>10. Deferred' = Deferred /\ Current' = Current /\ Ids' = Ids BY <1>1 DEF Deferred, Current, Ids
<1>11. CommandPlaces'
  <2>1. NoDuplicates(deferred)' /\ NoDuplicates(current_ids)' BY <1>1, <1>3 DEF CommandPlaces
  <2> QED BY <1>2, <1>3, <1>4, <1>7, <1>9, <1>10, <2>1 DEF CommandPlaces
<1>12. /\ Len(request_ids) \in Nat /\ Len(request_ids') = Len(request_ids) + 1
       /\ \A k \in 1..Len(request_ids) : request_ids'[k] = request_ids[k]
  BY <1>1, <1>2, <1>6
<1>13. Unanswered' = Unanswered BY <1>1, <1>6, <1>12 DEF Unanswered
<1>14. IdsOf(Unanswered)' = IdsOf(Unanswered)
  <2>1. \A k \in Unanswered : request_ids'[k] = request_ids[k] BY <1>12 DEF Unanswered
  <2> QED BY <1>13, <2>1 DEF IdsOf
<1>15. BatchIsCurrent' BY <1>1, <1>3, <1>7, <1>9, <1>10, <1>14 DEF BatchIsCurrent
<1>16. WorkerType'
  <2>1. ASSUME NEW k \in sent' PROVE k \in 1..Len(request_ids')
    <3>1. CASE k \in sent BY <1>6, <1>12, <3>1
    <3>2. CASE k = Len(request_ids) + 1 BY <1>12, <3>2
    <3> QED BY <1>1, <3>1, <3>2
  <2> QED BY <1>1, <1>2, <1>3, <1>7, <2>1 DEF WorkerType
<1> QED BY <1>1, <1>8, <1>9, <1>11, <1>15, <1>16 DEF WorkerInv

LEMMA DeferKeeps ==
  ASSUME WorkerInv, DeferCommand
  PROVE  WorkerInv'
<1> DEFINE id == Head(cmd_queue)
<1>1. /\ alive /\ alive' /\ cmd_queue # << >> /\ cmd_queue' = Tail(cmd_queue)
      /\ deferred' = Append(deferred, id)
      /\ UNCHANGED <<submitted, current_ids, rollout, request_ids, sent, results>>
  BY DEF DeferCommand, Running, batch
<1>2. /\ cmd_queue' \in Seq(Nat) /\ id \in Nat /\ NoDuplicates(cmd_queue)'
      /\ id \in Queued /\ Queued' = Queued \ {id}
  BY <1>1, TakeHead
<1>3. AllOk(results, Answered) /\ CommandPlaces /\ BatchIsCurrent /\ WorkerType BY <1>1 DEF WorkerInv
<1> HIDE DEF id
<1>4. id \notin Deferred BY <1>2, <1>3 DEF CommandPlaces
<1>5. deferred \in Seq(Nat) /\ NoDuplicates(deferred) BY <1>3 DEF WorkerType, CommandPlaces
<1>6. deferred' \in Seq(Nat) /\ Deferred' = Deferred \cup {id} /\ NoDuplicates(deferred')
  BY <1>1, <1>2, <1>4, <1>5, AppendElements DEF Deferred
<1>7. Current' = Current /\ Answered' = Answered /\ Ids' = Ids /\ AllOk(results, Answered)'
  BY <1>1, <1>3 DEF Current, Answered, Ids, AllOk
<1>8. CommandPlaces'
  <2>1. NoDuplicates(current_ids)' /\ NoDuplicates(request_ids)' BY <1>1, <1>3 DEF CommandPlaces
  <2> QED BY <1>2, <1>3, <1>6, <1>7, <2>1 DEF CommandPlaces
<1>9. BatchIsCurrent'
  <2>1. Unanswered' = Unanswered /\ IdsOf(Unanswered)' = IdsOf(Unanswered)
    BY <1>1 DEF Unanswered, IdsOf
  <2> QED BY <1>1, <1>3, <1>7, <2>1 DEF BatchIsCurrent
<1>10. WorkerType' BY <1>1, <1>2, <1>3, <1>6 DEF WorkerType
<1> QED BY <1>1, <1>7, <1>8, <1>9, <1>10 DEF WorkerInv

LEMMA SubmitKeeps ==
  ASSUME WorkerInv, Submit
  PROVE  WorkerInv'
<1> DEFINE id == Len(submitted) + 1
<1>1. PICK s \in Shapes : submitted' = Append(submitted, s) BY DEF Submit
<1>2. cmd_queue' = Append(cmd_queue, id)
      /\ UNCHANGED <<deferred, current_ids, rollout, request_ids, sent, results, alive>>
  BY DEF Submit, batch
<1>3. WorkerType BY DEF WorkerInv
<1>4. /\ submitted' \in Seq(Shapes) /\ id \in Nat /\ Len(submitted) \in Nat
      /\ Ids' = Ids \cup {id} /\ id \notin Ids
  BY <1>1, <1>3 DEF WorkerType, Ids
<1> HIDE DEF id
<1>5. cmd_queue' \in Seq(Nat) /\ Queued' = Queued \cup {id}
      /\ (NoDuplicates(cmd_queue) /\ id \notin Queued => NoDuplicates(cmd_queue'))
  BY <1>2, <1>3, <1>4, AppendElements DEF WorkerType, Queued
<1>6. WorkerType' BY <1>2, <1>3, <1>4, <1>5 DEF WorkerType
<1>7. CASE alive
  <2>1. AllOk(results, Answered) /\ CommandPlaces /\ BatchIsCurrent BY <1>7 DEF WorkerInv
  <2>2. /\ Deferred' = Deferred /\ Current' = Current /\ Answered' = Answered /\ AllOk(results, Answered)'
        /\ Unanswered' = Unanswered /\ IdsOf(Unanswered)' = IdsOf(Unanswered)
    BY <1>2, <2>1 DEF Deferred, Current, Answered, Unanswered, IdsOf, AllOk
  <2>3. CommandPlaces'
    <3>1. NoDuplicates(deferred)' /\ NoDuplicates(current_ids)' /\ NoDuplicates(request_ids)'
      BY <1>2, <2>1 DEF CommandPlaces
    <3>2. id \notin Queued \cup Deferred \cup Current \cup Answered BY <1>4, <2>1 DEF CommandPlaces
    <3>3. NoDuplicates(cmd_queue)' BY <1>5, <2>1, <3>2 DEF CommandPlaces
    <3> QED BY <1>4, <1>5, <2>1, <2>2, <3>1, <3>2, <3>3 DEF CommandPlaces
  <2>4. BatchIsCurrent' BY <1>2, <2>1, <2>2 DEF BatchIsCurrent
  <2> QED BY <1>2, <1>6, <1>7, <2>2, <2>3, <2>4 DEF WorkerInv
<1>8. CASE ~alive
  <2>1. AnsweredOnce' BY <1>2, <1>8 DEF WorkerInv, AnsweredOnce
  <2>2. PlacesLeft BY <1>8 DEF WorkerInv
  <2>3. Deferred' = Deferred /\ Answered' = Answered BY <1>2 DEF Deferred, Answered
  <2>4. NoDuplicates(deferred)' BY <1>2, <2>2 DEF PlacesLeft
  <2>5. id \notin Queued \cup Deferred \cup Answered BY <1>4, <2>2 DEF PlacesLeft
  <2>6. NoDuplicates(cmd_queue)' BY <1>5, <2>2, <2>5 DEF PlacesLeft
  <2>7. PlacesLeft' BY <1>4, <1>5, <2>2, <2>3, <2>4, <2>5, <2>6 DEF PlacesLeft
  <2> QED BY <1>2, <1>6, <1>8, <2>1, <2>7 DEF WorkerInv
<1> QED BY <1>7, <1>8

\* The requests answered by one call of the callback, and by the final split.
LEMMA AnswersLeave ==
  ASSUME WorkerInv, alive, alive',
         NEW first, first \subseteq Unanswered, NEW second, second \subseteq Unanswered \ first,
         NEW early, NEW late,
         results' = results \o Answers(first, early) \o Answers(second, late)
  PROVE  /\ AllOk(results', Answered') /\ Answered' = Answered \cup IdsOf(first \cup second)
         /\ IdsOf(first \cup second) \subseteq Current
<1>1. AllOk(results, Answered) /\ CommandPlaces /\ BatchIsCurrent /\ WorkerType BY DEF WorkerInv
<1>2. request_ids \in Seq(Nat) /\ NoDuplicates(request_ids) BY <1>1 DEF WorkerType, CommandPlaces
<1>3. first \subseteq 1..Len(request_ids) /\ second \subseteq 1..Len(request_ids) BY DEF Unanswered
<1>4. AllOk(Answers(first, early), IdsOf(first)) /\ AllOk(Answers(second, late), IdsOf(second))
  BY <1>2, <1>3, AnswersOk
<1>5. IdsOf(first) \cap IdsOf(second) = {}
  <2>1. ASSUME NEW k \in first, NEW m \in second, request_ids[k] = request_ids[m] PROVE FALSE
    BY <1>2, <1>3, <2>1 DEF NoDuplicates
  <2> QED BY <2>1 DEF IdsOf
<1>6. IdsOf(first) \subseteq Current /\ IdsOf(second) \subseteq Current BY <1>1 DEF BatchIsCurrent, IdsOf
<1>7. IdsOf(first \cup second) = IdsOf(first) \cup IdsOf(second) BY DEF IdsOf
<1>8. Current \cap Answered = {} BY <1>1 DEF CommandPlaces
<1>9. AllOk(results \o Answers(first, early), Answered \cup IdsOf(first)) BY <1>1, <1>4, <1>6, <1>8, JoinOk
<1>10. (Answered \cup IdsOf(first)) \cap IdsOf(second) = {} BY <1>5, <1>6, <1>8
<1>11. AllOk(results', (Answered \cup IdsOf(first)) \cup IdsOf(second)) BY <1>4, <1>9, <1>10, JoinOk
<1>12. Answered' = (Answered \cup IdsOf(first)) \cup IdsOf(second) BY <1>11 DEF AllOk, Answered
<1> QED BY <1>6, <1>7, <1>11, <1>12

\* A batch step with its callbacks.
LEMMA SendKeeps ==
  ASSUME WorkerInv, alive, NEW stopped, SendFinished(stopped)
  PROVE  WorkerInv'
<1> DEFINE early  == [r \in Row |-> IF r \in stopped THEN "stop" ELSE finish_reason[r]]
           first  == IF stopped = {} THEN {} ELSE Complete(early)
           second == Complete(finish_reason') \ first
           gone   == IdsOf(first \cup second)
<1>1. /\ results' = results \o Answers(first, early) \o Answers(second, finish_reason')
      /\ sent' = sent \cup first \cup second
      /\ current_ids' = Without(current_ids, gone)
      /\ UNCHANGED <<submitted, cmd_queue, deferred, rollout, request_ids, alive>>
  BY DEF SendFinished, queues
<1>2. first \subseteq Unanswered /\ second \subseteq Unanswered \ first BY DEF Complete, Unanswered
<1> HIDE DEF early, first, second, gone
<1>3. /\ AllOk(results', Answered') /\ Answered' = Answered \cup gone /\ gone \subseteq Current
  <2>1. alive' BY <1>1
  <2> QED BY <1>1, <1>2, <2>1, AnswersLeave DEF gone
<1>4. AllOk(results, Answered) /\ CommandPlaces /\ BatchIsCurrent /\ WorkerType BY DEF WorkerInv
<1>5. current_ids' \in Seq(Nat) /\ Current' = Current \ gone /\ NoDuplicates(current_ids')
  <2> DEFINE S == ElementsOf(current_ids) \ gone
             s == current_ids
             t == Kept(s, S)
  <2>1. current_ids' = t BY <1>1 DEF Without, ElementsOf
  <2>2. s \in Seq(Nat) /\ NoDuplicates(s) BY <1>4 DEF WorkerType, CommandPlaces
  <2>3. /\ t \in Seq(Nat)
        /\ \A i \in 1..Len(s) : s[i] \in S => \E j \in 1..Len(t) : t[j] = s[i]
        /\ \A j \in 1..Len(t) : t[j] \in S /\ \E i \in 1..Len(s) : t[j] = s[i]
        /\ (\A i, j \in 1..Len(s) : s[i] = s[j] => i = j) => \A i, j \in 1..Len(t) : t[i] = t[j] => i = j
    <3> HIDE DEF S, s
    <3> QED BY <2>2, KeptFacts
  <2>4. ElementsOf(t) = S
    <3>1. ElementsOf(t) \subseteq S BY <2>3 DEF ElementsOf
    <3>2. ASSUME NEW x \in S PROVE x \in ElementsOf(t)
      <4>1. PICK i \in 1..Len(s) : s[i] = x BY DEF ElementsOf
      <4>2. PICK j \in 1..Len(t) : t[j] = s[i] BY <2>3, <4>1
      <4> QED BY <4>1, <4>2 DEF ElementsOf
    <3> QED BY <3>1, <3>2
  <2>5. NoDuplicates(t) BY <2>2, <2>3 DEF NoDuplicates
  <2> QED BY <2>1, <2>3, <2>4, <2>5 DEF Current
<1>6. Queued' = Queued /\ Deferred' = Deferred /\ Ids' = Ids BY <1>1 DEF Queued, Deferred, Ids
<1>7. CommandPlaces'
  <2>1. NoDuplicates(cmd_queue)' /\ NoDuplicates(deferred)' /\ NoDuplicates(request_ids)' BY <1>1, <1>4 DEF CommandPlaces
  <2> QED BY <1>3, <1>4, <1>5, <1>6, <2>1 DEF CommandPlaces
<1>8. Unanswered' = Unanswered \ (first \cup second) BY <1>1 DEF Unanswered
<1>9. IdsOf(Unanswered)' = IdsOf(Unanswered) \ gone
  <2>1. request_ids' = request_ids BY <1>1
  <2>2. ASSUME NEW k \in Unanswered, NEW m \in first \cup second, request_ids[k] = request_ids[m]
        PROVE  k = m
    <3>1. k \in 1..Len(request_ids) /\ m \in 1..Len(request_ids) BY <1>2 DEF Unanswered
    <3> QED BY <1>4, <2>2, <3>1 DEF CommandPlaces, NoDuplicates
  <2> QED BY <1>8, <2>1, <2>2 DEF IdsOf, gone
<1>10. BatchIsCurrent' BY <1>1, <1>3, <1>4, <1>5, <1>9 DEF BatchIsCurrent
<1>11. WorkerType'
  <2>1. sent' \subseteq 1..Len(request_ids) BY <1>1, <1>2, <1>4 DEF WorkerType, Unanswered
  <2> QED BY <1>1, <1>4, <1>5, <2>1 DEF WorkerType
<1> QED BY <1>1, <1>3, <1>7, <1>10, <1>11 DEF WorkerInv

LEMMA FinishKeeps ==
  ASSUME WorkerInv, FinishRollout
  PROVE  WorkerInv'
<1> DEFINE cut == [r \in Row |-> "truncated"]
<1>1. /\ alive /\ alive' /\ results' = results \o Answers(Unanswered, cut)
      /\ current_ids' = << >> /\ rollout' = 0 /\ request_ids' = << >> /\ sent' = {}
      /\ UNCHANGED <<submitted, cmd_queue, deferred>>
  BY DEF FinishRollout, Running, queues
<1> HIDE DEF cut
<1>2. AllOk(results, Answered) /\ CommandPlaces /\ BatchIsCurrent /\ WorkerType BY <1>1 DEF WorkerInv
<1>3. AllOk(Answers(Unanswered, cut), IdsOf(Unanswered))
  BY <1>2, AnswersOk DEF WorkerType, CommandPlaces, Unanswered
<1>4. IdsOf(Unanswered) = Current /\ Answered \cap Current = {} BY <1>2 DEF BatchIsCurrent, CommandPlaces
<1>5. AllOk(results', Answered \cup Current) BY <1>1, <1>2, <1>3, <1>4, JoinOk
<1>6. Answered' = Answered \cup Current BY <1>5 DEF AllOk, Answered
<1>7. Current' = {} /\ ElementsOf(request_ids') = {} /\ Unanswered' = {} /\ IdsOf(Unanswered)' = {}
  BY <1>1 DEF Current, ElementsOf, Unanswered, IdsOf
<1>8. Queued' = Queued /\ Deferred' = Deferred /\ Ids' = Ids BY <1>1 DEF Queued, Deferred, Ids
<1>9. CommandPlaces'
  <2>1. NoDuplicates(cmd_queue)' /\ NoDuplicates(deferred)' BY <1>1, <1>2 DEF CommandPlaces
  <2>2. NoDuplicates(current_ids)' /\ NoDuplicates(request_ids)' BY <1>1 DEF NoDuplicates
  <2> QED BY <1>2, <1>6, <1>7, <1>8, <2>1, <2>2 DEF CommandPlaces
<1>10. BatchIsCurrent' BY <1>1, <1>7 DEF BatchIsCurrent
<1>11. WorkerType' BY <1>1, <1>2 DEF WorkerType
<1> QED BY <1>1, <1>5, <1>6, <1>9, <1>10, <1>11 DEF WorkerInv

-----------------------------------------------------------------------------
(* Death: the error answers come after everything answered so far.         *)

LEMMA FailuresOnce ==
  ASSUME WorkerInv, alive, ~alive',
         NEW ids \in Seq(Nat), NoDuplicates(ids),
         \A k \in 1..Len(ids) : ids[k] \in Answered =>
           current_ids' = << >> /\ ids[k] = rollout' /\ Len(ids) = 1,
         results' = results \o [i \in 1..Len(ids) |-> Failed(ids[i])]
  PROVE  AnsweredOnce' /\ Answered' = Answered \cup ElementsOf(ids)
<1> DEFINE fs == [i \in 1..Len(ids) |-> Failed(ids[i])]
           X == ElementsOf(results) \cup ElementsOf(fs)
<1>1. AllOk(results, Answered) BY DEF WorkerInv
<1>2. Len(ids) \in Nat OBVIOUS
<1>3. fs \in [1..Len(ids) -> X] BY <1>2, SeqOfFunction DEF ElementsOf
<1>4. /\ results \in Seq(X) /\ fs \in Seq(X) /\ Len(fs) = Len(ids)
  <2>1. ElementsOf(results) \subseteq X OBVIOUS
  <2> HIDE DEF fs, X
  <2>2. results \in Seq(X) BY <1>1, <2>1 DEF AllOk
  <2>3. fs \in Seq(X) /\ Len(fs) = Len(ids) BY <1>2, <1>3, SeqOfFunction
  <2> QED BY <2>2, <2>3
<1>5. \A i \in 1..Len(ids) : fs[i].id = ids[i] /\ ~fs[i].ok BY DEF Failed
<1> HIDE DEF fs, X
<1>6. /\ Len(results) \in Nat /\ Len(results') = Len(results) + Len(ids)
      /\ \A i \in 1..Len(results) : results'[i] = results[i]
      /\ \A i \in Len(results) + 1 .. Len(results) + Len(ids) : results'[i] = fs[i - Len(results)]
  <2> DEFINE c == results \o fs
  <2>1. results' = c BY DEF fs
  <2>2. /\ Len(results) \in Nat /\ Len(c) = Len(results) + Len(fs)
        /\ \A i \in 1..Len(results) : c[i] = results[i]
        /\ \A i \in Len(results) + 1 .. Len(results) + Len(fs) : c[i] = fs[i - Len(results)]
    BY <1>4, ConcatElements, ZenonT(30)
  <2> HIDE DEF c
  <2> QED BY <1>4, <2>1, <2>2
<1>7. ASSUME NEW i \in 1..Len(results'), NEW j \in 1..Len(results'), i < j, results'[i].id = results'[j].id
      PROVE  /\ results'[i].ok /\ ~results'[j].ok
             /\ current_ids' = << >> /\ results'[j].id = rollout' /\ j = Len(results')
  <2>1. CASE i \in 1..Len(results) /\ j \in 1..Len(results)
    BY <1>1, <1>6, <1>7, <2>1 DEF AllOk
  <2>2. CASE i \in 1..Len(results) /\ j \in Len(results) + 1 .. Len(results) + Len(ids)
    <3>1. j - Len(results) \in 1..Len(ids) BY <1>2, <1>6, <2>2
    <3>2. results'[i].ok /\ ~results'[j].ok BY <1>1, <1>5, <1>6, <2>2, <3>1 DEF AllOk
    <3>3. results'[j].id = ids[j - Len(results)] BY <1>5, <1>6, <2>2, <3>1
    <3>4. results'[i].id \in Answered BY <1>6, <2>2 DEF Answered
    <3>5. current_ids' = << >> /\ ids[j - Len(results)] = rollout' /\ Len(ids) = 1
      BY <1>7, <3>1, <3>3, <3>4
    <3>6. j = Len(results') BY <1>2, <1>6, <3>1, <3>5
    <3> QED BY <3>2, <3>3, <3>5, <3>6
  <2>3. CASE i \in Len(results) + 1 .. Len(results) + Len(ids) /\ j \in Len(results) + 1 .. Len(results) + Len(ids)
    <3>1. i - Len(results) \in 1..Len(ids) /\ j - Len(results) \in 1..Len(ids) BY <1>2, <1>6, <2>3
    <3>2. ids[i - Len(results)] = ids[j - Len(results)] BY <1>5, <1>6, <1>7, <2>3, <3>1
    <3>3. i - Len(results) = j - Len(results) BY <3>1, <3>2 DEF NoDuplicates
    <3> QED BY <1>6, <1>7, <2>3, <3>3
  <2>4. i \in 1..Len(results) \/ i \in Len(results) + 1 .. Len(results) + Len(ids) BY <1>2, <1>6
  <2>5. j \in 1..Len(results) \/ j \in Len(results) + 1 .. Len(results) + Len(ids) BY <1>2, <1>6
  <2> QED BY <1>2, <1>6, <1>7, <2>1, <2>2, <2>3, <2>4, <2>5
<1>8. Answered' = Answered \cup ElementsOf(ids)
  <2>1. ASSUME NEW x \in Answered' PROVE x \in Answered \cup ElementsOf(ids)
    <3>1. PICK j \in 1..Len(results') : results'[j].id = x BY DEF Answered
    <3>2. CASE j \in 1..Len(results) BY <1>6, <3>1, <3>2 DEF Answered
    <3>3. CASE j \in Len(results) + 1 .. Len(results) + Len(ids)
      <4>1. j - Len(results) \in 1..Len(ids) BY <1>2, <1>6, <3>3
      <4> QED BY <1>5, <1>6, <3>1, <3>3, <4>1 DEF ElementsOf
    <3> QED BY <1>2, <1>6, <3>2, <3>3
  <2>2. ASSUME NEW x \in Answered PROVE x \in Answered'
    <3>1. PICK j \in 1..Len(results) : results[j].id = x BY DEF Answered
    <3>2. j \in 1..Len(results') /\ results'[j].id = x BY <1>2, <1>6, <3>1
    <3> QED BY <3>2 DEF Answered
  <2>3. ASSUME NEW x \in ElementsOf(ids) PROVE x \in Answered'
    <3>1. PICK k \in 1..Len(ids) : ids[k] = x BY DEF ElementsOf
    <3>2. /\ Len(results) + k \in Len(results) + 1 .. Len(results) + Len(ids)
          /\ (Len(results) + k) - Len(results) = k /\ Len(results) + k \in 1..Len(results')
      BY <1>2, <1>6
    <3>3. results'[Len(results) + k] = fs[k] BY <1>6, <3>2
    <3> QED BY <1>5, <3>1, <3>2, <3>3 DEF Answered
  <2> QED BY <2>1, <2>2, <2>3
<1> QED BY <1>7, <1>8 DEF AnsweredOnce

LEMMA ServeFailsKeeps ==
  ASSUME WorkerInv, NEW id, ServeFails(id)
  PROVE  WorkerInv'
<1>1. /\ alive /\ ~alive' /\ NextCommand(id) /\ results' = Append(results, Failed(id))
      /\ UNCHANGED <<submitted, current_ids, rollout, request_ids, sent>>
  BY DEF ServeFails, Idle, batch
<1>2. /\ cmd_queue' \in Seq(Nat) /\ deferred' \in Seq(Nat) /\ id \in Nat
      /\ NoDuplicates(cmd_queue)' /\ NoDuplicates(deferred)'
      /\ Queued' \subseteq Queued /\ Deferred' \subseteq Deferred
      /\ id \in Queued \cup Deferred
      /\ Queued' \cup Deferred' = (Queued \cup Deferred) \ {id}
  BY <1>1, TakeNext
<1>3. WorkerType' BY <1>1, <1>2 DEF WorkerInv, WorkerType
<1> DEFINE ids == <<id>>
<1>4. ids \in Seq(Nat) /\ Len(ids) = 1 /\ ids[1] = id BY <1>2
<1>5. NoDuplicates(ids) BY <1>4 DEF NoDuplicates
<1>6. results' = results \o [i \in 1..Len(ids) |-> Failed(ids[i])]
  <2>1. [i \in 1..Len(ids) |-> Failed(ids[i])] = <<Failed(id)>>
    <3> DEFINE fs == [i \in 1..Len(ids) |-> Failed(ids[i])]
    <3>1. 1..Len(ids) = {1} /\ ids[1] = id BY <1>4
    <3> HIDE DEF ids
    <3>2. fs = [i \in {1} |-> Failed(id)] BY <3>1
    <3>3. <<Failed(id)>> = [i \in {1} |-> Failed(id)]
      <4>1. \A x : <<x>> = [i \in {1} |-> x] OBVIOUS
      <4> QED BY <4>1
    <3> QED BY <3>2, <3>3
  <2>2. Append(results, Failed(id)) = results \o <<Failed(id)>>
    <3> DEFINE X == ElementsOf(results) \cup {Failed(id)}
    <3>1. results \in Seq(X) /\ Failed(id) \in X
      <4>1. ElementsOf(results) \subseteq X /\ Failed(id) \in X OBVIOUS
      <4> HIDE DEF X
      <4> QED BY <1>1, <4>1 DEF WorkerInv, AllOk
    <3> HIDE DEF X
    <3>2. \A x \in X : Append(results, x) = results \o <<x>> BY <3>1
    <3> QED BY <3>1, <3>2
  <2> QED BY <1>1, <2>1, <2>2
<1>0. ElementsOf(ids) = {id}
  <2> HIDE DEF ids
  <2> QED BY <1>4 DEF ElementsOf
<1> HIDE DEF ids
<1>7. CommandPlaces /\ Current = {}
  <2>1. Idle BY DEF ServeFails
  <2> QED BY <1>1, <2>1, IdleIsEmpty DEF WorkerInv
<1>8. \A k \in 1..Len(ids) : ids[k] \notin Answered
  <2>1. id \notin Answered BY <1>2, <1>7 DEF CommandPlaces
  <2> QED BY <1>4, <2>1
<1>9. AnsweredOnce' /\ Answered' = Answered \cup {id}
  BY <1>0, <1>1, <1>4, <1>5, <1>6, <1>8, FailuresOnce
<1>10. Ids' = Ids BY <1>1 DEF Ids
<1>11. PlacesLeft'
  <2>1. /\ Queued \cap Deferred = {} /\ Queued \cap Answered = {} /\ Deferred \cap Answered = {}
        /\ Queued \cup Deferred \cup Answered = Ids
    BY <1>7 DEF CommandPlaces
  <2> QED BY <1>2, <1>9, <1>10, <2>1 DEF PlacesLeft
<1> QED BY <1>1, <1>3, <1>9, <1>11 DEF WorkerInv

LEMMA RolloutFailsKeeps ==
  ASSUME WorkerInv, RolloutFails
  PROVE  WorkerInv'
<1> DEFINE ids == FailedRequests
<1>1. /\ alive /\ ~alive' /\ rollout # 0
      /\ results' = results \o [i \in 1..Len(ids) |-> Failed(ids[i])]
      /\ UNCHANGED <<submitted, cmd_queue, deferred, current_ids, rollout, request_ids, sent>>
  BY DEF RolloutFails, Running, queues, batch
<1>2. CommandPlaces /\ BatchIsCurrent /\ WorkerType BY <1>1 DEF WorkerInv
<1>3. /\ ids \in Seq(Nat) /\ NoDuplicates(ids)
      /\ \A k \in 1..Len(ids) : ids[k] \in Answered =>
           current_ids' = << >> /\ ids[k] = rollout' /\ Len(ids) = 1
      /\ Answered \cup ElementsOf(ids) = Answered \cup Current
  <2>1. CASE current_ids = << >>
    <3>1. ids = <<rollout>> BY <2>1 DEF FailedRequests
    <3>2. ids \in Seq(Nat) /\ Len(ids) = 1 /\ ids[1] = rollout BY <1>2, <3>1 DEF WorkerType
    <3>3. Current = {} BY <2>1 DEF Current, ElementsOf
    <3>4. rollout \in Answered BY <1>1, <1>2, <3>3 DEF BatchIsCurrent
    <3>5. ElementsOf(ids) = {rollout}
      <4> HIDE DEF ids
      <4> QED BY <3>2 DEF ElementsOf
    <3>6. current_ids' = << >> /\ rollout' = rollout BY <1>1, <2>1
    <3> HIDE DEF ids
    <3> QED BY <3>2, <3>3, <3>4, <3>5, <3>6 DEF NoDuplicates
  <2>2. CASE current_ids # << >>
    <3>1. ids = current_ids BY <2>2 DEF FailedRequests
    <3>2. ids \in Seq(Nat) /\ NoDuplicates(ids) /\ Current = ElementsOf(ids) /\ Current \cap Answered = {}
      BY <1>2, <3>1 DEF WorkerType, CommandPlaces, Current
    <3> HIDE DEF ids
    <3> QED BY <3>2 DEF ElementsOf
  <2> QED BY <2>1, <2>2
<1> HIDE DEF ids
<1>4. AnsweredOnce' /\ Answered' = Answered \cup Current BY <1>1, <1>3, FailuresOnce
<1>5. WorkerType' BY <1>1, <1>2 DEF WorkerType
<1>6. Queued' = Queued /\ Deferred' = Deferred /\ Ids' = Ids BY <1>1 DEF Queued, Deferred, Ids
<1>7. PlacesLeft'
  <2>1. NoDuplicates(cmd_queue)' /\ NoDuplicates(deferred)' BY <1>1, <1>2 DEF CommandPlaces
  <2> QED BY <1>2, <1>4, <1>6, <2>1 DEF PlacesLeft, CommandPlaces
<1> QED BY <1>1, <1>4, <1>5, <1>7 DEF WorkerInv

-----------------------------------------------------------------------------
(* The theorem                                                             *)

LEMMA InitWorker == CInit => WorkerInv
<1> SUFFICES ASSUME CInit PROVE WorkerInv
  OBVIOUS
<1>1. /\ submitted = << >> /\ cmd_queue = << >> /\ deferred = << >> /\ current_ids = << >>
      /\ rollout = 0 /\ request_ids = << >> /\ sent = {} /\ results = << >> /\ alive = TRUE
  BY DEF CInit, WorkerInit
<1>2. WorkerType BY <1>1 DEF WorkerType
<1>3. /\ Queued = {} /\ Deferred = {} /\ Current = {} /\ Answered = {} /\ Ids = {} /\ Unanswered = {}
      /\ IdsOf(Unanswered) = {} /\ ElementsOf(request_ids) = {}
  BY <1>1 DEF Queued, Deferred, Current, Answered, Ids, Unanswered, IdsOf, ElementsOf
<1>4. NoDuplicates(<< >>) BY DEF NoDuplicates
<1>5. CommandPlaces BY <1>1, <1>3, <1>4 DEF CommandPlaces
<1>6. BatchIsCurrent BY <1>1, <1>3 DEF BatchIsCurrent
<1>7. AllOk(results, Answered)
  <2>1. << >> \in Seq(ElementsOf(<< >>)) /\ Len(<< >>) = 0 /\ 1..0 = {} OBVIOUS
  <2> QED BY <1>1, <1>3, <2>1 DEF AllOk, Answered
<1> QED BY <1>1, <1>2, <1>5, <1>6, <1>7 DEF WorkerInv

LEMMA NextKeepsWorker ==
  ASSUME WorkerInv, [CNext]_allvars
  PROVE  WorkerInv'
<1>1. CASE WorkerStep
  <2>1. ASSUME NEW id \in 1..Len(submitted), Serve(id) PROVE WorkerInv' BY <2>1, ServeKeeps
  <2>2. ASSUME NEW id \in 1..Len(submitted), StartRollout(id) PROVE WorkerInv' BY <2>2, StartKeeps
  <2>3. CASE JoinRollout BY <2>3, JoinRolloutKeeps
  <2>4. CASE JoinEmpty BY <2>4, JoinEmptyKeeps
  <2>5. CASE DeferCommand BY <2>5, DeferKeeps
  <2>6. CASE QueueEmpty BY <2>6, WorkerSame DEF QueueEmpty
  <2>7. CASE PrefillAndSend
    <3>1. PICK stopped \in SUBSET last_active : SendFinished(stopped) BY <2>7 DEF PrefillAndSend
    <3>2. alive BY <2>7 DEF PrefillAndSend, Running
    <3> QED BY <3>1, <3>2, SendKeeps
  <2>8. CASE CancelAndSend
    <3>1. SendFinished({}) /\ alive BY <2>8 DEF CancelAndSend, Running
    <3> QED BY <3>1, SendKeeps
  <2>9. CASE DecodeAndSend
    <3>1. PICK stopped \in SUBSET active_rows : SendFinished(stopped) BY <2>9 DEF DecodeAndSend
    <3>2. alive BY <2>9 DEF DecodeAndSend, Running
    <3> QED BY <3>1, <3>2, SendKeeps
  <2>10. CASE QuietStep BY <2>10, WorkerSame DEF QuietStep
  <2>11. CASE FinishRollout BY <2>11, FinishKeeps
  <2> QED BY <1>1, <2>1, <2>2, <2>3, <2>4, <2>5, <2>6, <2>7, <2>8, <2>9, <2>10, <2>11 DEF WorkerStep
<1>2. ASSUME NEW id \in 1..Len(submitted), ServeFails(id) PROVE WorkerInv' BY <1>2, ServeFailsKeeps
<1>3. CASE RolloutFails BY <1>3, RolloutFailsKeeps
<1>4. CASE Submit BY <1>4, SubmitKeeps
<1>5. CASE Cancel BY <1>5, WorkerSame DEF Cancel
<1>6. CASE Waiting
  <2>1. UNCHANGED wvars BY <1>6 DEF Waiting, allvars
  <2> QED BY <2>1, WorkerSame
<1>7. CASE UNCHANGED allvars
  <2>1. UNCHANGED wvars BY <1>7 DEF allvars
  <2> QED BY <2>1, WorkerSame
<1> QED BY <1>1, <1>2, <1>3, <1>4, <1>5, <1>6, <1>7 DEF CNext

\* At most one place of a list without duplicates holds a request.
LEMMA PlacesOfCount ==
  ASSUME NEW ids \in Seq(Nat), NoDuplicates(ids), NEW id
  PROVE  Cardinality(PlacesOf(ids, id)) = IF id \in ElementsOf(ids) THEN 1 ELSE 0
<1>1. CASE id \in ElementsOf(ids)
  <2>1. PICK i \in 1..Len(ids) : ids[i] = id BY <1>1 DEF ElementsOf
  <2>2. PlacesOf(ids, id) = {i} BY <2>1 DEF PlacesOf, NoDuplicates
  <2> QED BY <1>1, <2>2, FS_Singleton
<1>2. CASE id \notin ElementsOf(ids)
  <2>1. PlacesOf(ids, id) = {} BY <1>2 DEF PlacesOf, ElementsOf
  <2> QED BY <1>2, <2>1, FS_EmptySet
<1> QED BY <1>1, <1>2

LEMMA InvCounts == WorkerInv => EachCommandOnce
<1> SUFFICES ASSUME WorkerInv PROVE EachCommandOnce
  OBVIOUS
<1>1. AnsweredOnce
  <2>1. CASE alive
    <3>1. AllOk(results, Answered) BY <2>1 DEF WorkerInv
    <3>2. ASSUME NEW i \in 1..Len(results), NEW j \in 1..Len(results), i < j, results[i].id = results[j].id
          PROVE  FALSE
      <4>1. i = j BY <3>1, <3>2 DEF AllOk
      <4>2. Len(results) \in Nat BY <3>1 DEF AllOk
      <4> QED BY <3>2, <4>1, <4>2
    <3> QED BY <3>2 DEF AnsweredOnce
  <2>2. CASE ~alive BY <2>2 DEF WorkerInv
  <2> QED BY <2>1, <2>2
<1>2. ASSUME NEW id \in Ids
      PROVE  Cardinality(PlacesOf(cmd_queue, id)) + Cardinality(PlacesOf(deferred, id))
               + (IF alive THEN Cardinality(PlacesOf(current_ids, id)) ELSE 0)
               + (IF AnswersTo(id) # {} THEN 1 ELSE 0) = 1
  <2>1. (AnswersTo(id) # {}) <=> id \in Answered BY DEF AnswersTo, Answered
  <2>2. WorkerType BY DEF WorkerInv
  <2>3. CASE alive
    <3>1. CommandPlaces BY <2>3 DEF WorkerInv
    <3>2. /\ Cardinality(PlacesOf(cmd_queue, id)) = IF id \in Queued THEN 1 ELSE 0
          /\ Cardinality(PlacesOf(deferred, id)) = IF id \in Deferred THEN 1 ELSE 0
          /\ Cardinality(PlacesOf(current_ids, id)) = IF id \in Current THEN 1 ELSE 0
      BY <2>2, <3>1, PlacesOfCount DEF WorkerType, CommandPlaces, Queued, Deferred, Current
    <3>3. id \in Queued \cup Deferred \cup Current \cup Answered BY <3>1 DEF CommandPlaces
    <3>4. /\ ~(id \in Queued /\ id \in Deferred) /\ ~(id \in Queued /\ id \in Current)
          /\ ~(id \in Queued /\ id \in Answered) /\ ~(id \in Deferred /\ id \in Current)
          /\ ~(id \in Deferred /\ id \in Answered) /\ ~(id \in Current /\ id \in Answered)
      BY <3>1 DEF CommandPlaces
    <3> QED BY <2>1, <2>3, <3>2, <3>3, <3>4
  <2>4. CASE ~alive
    <3>1. PlacesLeft BY <2>4 DEF WorkerInv
    <3>2. /\ Cardinality(PlacesOf(cmd_queue, id)) = IF id \in Queued THEN 1 ELSE 0
          /\ Cardinality(PlacesOf(deferred, id)) = IF id \in Deferred THEN 1 ELSE 0
      BY <2>2, <3>1, PlacesOfCount DEF WorkerType, PlacesLeft, Queued, Deferred
    <3>3. id \in Queued \cup Deferred \cup Answered BY <3>1 DEF PlacesLeft
    <3>4. /\ ~(id \in Queued /\ id \in Deferred) /\ ~(id \in Queued /\ id \in Answered)
          /\ ~(id \in Deferred /\ id \in Answered)
      BY <3>1 DEF PlacesLeft
    <3> QED BY <2>1, <2>4, <3>2, <3>3, <3>4
  <2> QED BY <2>3, <2>4
<1> QED BY <1>1, <1>2 DEF EachCommandOnce, CommandInOnePlace

\* Whatever is submitted, joined or deferred around it, a command is in exactly one
\* place and is answered once.  When the process dies in the middle of a batch, each
\* request still in the batch gets one error and a request answered before gets none,
\* but for the running command of a batch that was answered whole (_worker_entry,
\* run_continuous_rollout_payload).
THEOREM CommandsAreAnsweredOnce == CSpec => []EachCommandOnce
<1>1. CInit => WorkerInv BY InitWorker
<1>2. WorkerInv /\ [CNext]_allvars => WorkerInv' BY NextKeepsWorker
<1>3. WorkerInv => EachCommandOnce BY InvCounts
<1> QED BY <1>1, <1>2, <1>3, PTL DEF CSpec

-----------------------------------------------------------------------------
(* A request is answered with its own rows                                 *)

Reasons == {"none", "stop", "length", "cancelled"}

BatchType ==
  /\ prompts \in Seq(PromptLens)
  /\ max_prefill_tokens \in Nat /\ packed \in Nat /\ cursor \in Nat
  /\ pending_seq_id \in 1..Len(prompts) + 1
  /\ response_lens \in [Row -> 0..MaxNewTokens]
  /\ finish_reason \in [Row -> Reasons]
  /\ active_rows \subseteq 1..pending_seq_id - 1
  /\ last_active \subseteq 1..pending_seq_id - 1

\* Where a row is in the batch, and what is known of its response there.
RowsTold ==
  /\ active_rows \cap last_active = {}
  /\ \A r \in active_rows :
       response_lens[r] >= 1 /\ response_lens[r] < MaxNewTokens /\ finish_reason[r] = "none"
  /\ \A r \in last_active : finish_reason[r] = "none"
  /\ \A r \in Row :
       /\ finish_reason[r] # "none" => response_lens[r] >= 1
       /\ finish_reason[r] = "length" => response_lens[r] = MaxNewTokens
       /\ r >= pending_seq_id => finish_reason[r] = "none"
       /\ r < pending_seq_id => r \in last_active \/ response_lens[r] >= 1

\* A payload with a sampled row is packed and prefilled at once; nothing is left
\* when the loop ends.
StagesTold ==
  /\ last_active # {} => packed > 0 /\ pc \in {"pack", "prefill"}
  /\ pc = "done" => active_rows = {} /\ pending_seq_id > Len(prompts)

BatchInv == BatchType /\ RowsTold /\ StagesTold

\* The rows of every request of the batch hold its prompts, in their order.
RowsBelong ==
  /\ request_ids \in Seq(Ids)
  /\ request_rows \in Seq(Seq(Nat)) /\ Len(request_rows) = Len(request_ids)
  /\ \A k \in 1..Len(request_ids) :
       /\ Len(request_rows[k]) = Len(Lens(request_ids[k]))
       /\ \A i \in 1..Len(request_rows[k]) :
            request_rows[k][i] \in Row /\ prompts[request_rows[k][i]] = Lens(request_ids[k])[i]

\* Commands that are waiting were submitted.
QueuesHoldIds == submitted \in Seq(Shapes) /\ cmd_queue \in Seq(Ids) /\ deferred \in Seq(Ids)

\* What OwnAnswer says of one answer, the commands being s.
IsOwn(x, s) ==
  x.ok => /\ x.id \in 1..Len(s)
          /\ s[x.id].op = "rollout" =>
               /\ x.lens = s[x.id].lens
               /\ \A k \in DOMAIN x.tokens :
                    /\ x.tokens[k] \in 1..MaxNewTokens
                    /\ x.reasons[k] = "length" => x.tokens[k] = MaxNewTokens
AllOwn(xs, s) == xs \in Seq(ElementsOf(xs)) /\ \A i \in 1..Len(xs) : IsOwn(xs[i], s)

OwnInv ==
  /\ QueuesHoldIds
  /\ RowsBelong
  /\ AllOwn(results, submitted)
  /\ BatchInv
  /\ alive /\ rollout = 0 => pc = "done"

-----------------------------------------------------------------------------
(* The batch                                                               *)

\* A step that leaves the rows alone keeps what is known of them.
LEMMA RowsUntouched ==
  ASSUME BatchInv,
         UNCHANGED <<prompts, max_prefill_tokens, pending_seq_id, response_lens, finish_reason,
                     active_rows, last_active>>,
         packed' \in Nat, cursor' \in Nat, StagesTold'
  PROVE  BatchInv'
<1>1. Row' = Row BY DEF Row
<1>2. BatchType' BY <1>1 DEF BatchInv, BatchType
<1>3. RowsTold' BY <1>1 DEF BatchInv, RowsTold
<1> QED BY <1>2, <1>3 DEF BatchInv

LEMMA QuietKeepsBatch ==
  ASSUME BatchInv, RefillEnds \/ BuildEnds \/ PrefillChunk \/ FreeRow \/ LoopTest \/ EnsureRow
                     \/ \E r \in Row : RaiseCancel(r)
  PROVE  BatchInv'
<1> USE DEF BatchInv, BatchType
<1>1. CASE RefillEnds
  <2>1. StagesTold' BY <1>1 DEF RefillEnds, StagesTold, admission, payload, rows, sizes
  <2> QED BY <1>1, <2>1, RowsUntouched DEF RefillEnds, admission, payload, rows, sizes
<1>2. CASE BuildEnds
  <2>1. StagesTold' BY <1>2 DEF BuildEnds, StagesTold, admission, payload, rows, sizes
  <2> QED BY <1>2, <2>1, RowsUntouched DEF BuildEnds, admission, payload, rows, sizes
<1>3. CASE PrefillChunk
  <2>1. StagesTold' BY <1>3 DEF PrefillChunk, StagesTold, admission, rows, sizes
  <2> QED BY <1>3, <2>1, RowsUntouched DEF PrefillChunk, admission, rows, sizes
<1>4. CASE FreeRow
  <2>1. StagesTold' BY <1>4 DEF FreeRow, StagesTold, admission, payload, rows, sizes
  <2> QED BY <1>4, <2>1, RowsUntouched DEF FreeRow, admission, payload, rows, sizes
<1>5. CASE LoopTest
  <2>1. StagesTold'
    <3>1. last_active = {} /\ last_active' = {} BY <1>5 DEF LoopTest, StagesTold, payload
    <3>2. pc' = "done" => active_rows' = {} /\ ~HasPending BY <1>5 DEF LoopTest
    <3>3. pending_seq_id' = pending_seq_id /\ prompts' = prompts /\ Len(prompts) \in Nat
      BY <1>5 DEF LoopTest, admission, rows
    <3> QED BY <3>1, <3>2, <3>3 DEF StagesTold, HasPending
  <2> QED BY <1>5, <2>1, RowsUntouched DEF LoopTest, admission, payload, rows, sizes
<1>6. CASE EnsureRow
  <2>1. StagesTold' BY <1>6 DEF EnsureRow, StagesTold, admission, payload, rows, sizes
  <2> QED BY <1>6, <2>1, RowsUntouched DEF EnsureRow, admission, payload, rows, sizes
<1>7. CASE \E r \in Row : RaiseCancel(r)
  <2>1. StagesTold' BY <1>7 DEF RaiseCancel, StagesTold, admission, payload, rows, sizes
  <2> QED BY <1>7, <2>1, RowsUntouched DEF RaiseCancel, admission, payload, rows, sizes
<1> QED BY <1>1, <1>2, <1>3, <1>4, <1>5, <1>6, <1>7

LEMMA PackKeepsBatch ==
  ASSUME BatchInv, PackRow
  PROVE  BatchInv'
<1>1. /\ pc = "pack" /\ HasPending /\ ChunkLen > 0 /\ packed' = packed + ChunkLen
      /\ UNCHANGED <<max_prefill_tokens, prompts, response_lens, finish_reason, active_rows>>
  BY DEF PackRow, CanPack, PackStops, sizes, rows
<1>2. /\ pending_seq_id \in Row /\ Row' = Row /\ prompts[pending_seq_id] \in Nat
      /\ pending_seq_id \in Nat /\ Len(prompts) \in Nat
  <2>1. pending_seq_id \in 1..Len(prompts) + 1 /\ Len(prompts) \in Nat /\ pending_seq_id <= Len(prompts)
    BY <1>1 DEF BatchInv, BatchType, HasPending
  <2>2. pending_seq_id \in Row BY <2>1 DEF Row
  <2>3. prompts[pending_seq_id] \in PromptLens BY <2>2 DEF BatchInv, BatchType, Row
  <2>4. prompts[pending_seq_id] \in Nat BY <2>3, SizesAssumption
  <2>5. Row' = Row BY <1>1 DEF Row
  <2> QED BY <2>1, <2>2, <2>4, <2>5
<1>3. ChunkLen \in Int BY <1>2 DEF ChunkLen, Budget, BatchInv, BatchType
<1>4. packed \in Nat /\ packed' \in Nat /\ packed' > 0 BY <1>1, <1>3 DEF BatchInv, BatchType
<1>5. CASE cursor + ChunkLen >= prompts[pending_seq_id]
  <2>1. /\ last_active' = last_active \cup {pending_seq_id} /\ pending_seq_id' = pending_seq_id + 1
        /\ cursor' = 0 /\ pc' = "pack"
    BY <1>5 DEF PackRow
  <2>2. \A r \in 1..pending_seq_id - 1 : r \in 1..pending_seq_id' - 1 /\ r # pending_seq_id BY <1>2, <2>1
  <2>3. pending_seq_id \in 1..pending_seq_id' - 1 /\ pending_seq_id' \in 1..Len(prompts) + 1
    BY <1>2, <2>1 DEF Row
  <2>4. BatchType' BY <1>1, <1>2, <1>4, <2>1, <2>2, <2>3 DEF BatchInv, BatchType
  <2>5. RowsTold'
    <3>1. active_rows' \cap last_active' = {} BY <1>1, <2>1, <2>2 DEF BatchInv, BatchType, RowsTold
    <3>2. finish_reason[pending_seq_id] = "none" BY <1>2 DEF BatchInv, RowsTold
    <3>3. ASSUME NEW r \in Row
          PROVE  /\ r >= pending_seq_id' => finish_reason[r] = "none"
                 /\ r < pending_seq_id' => r \in last_active' \/ response_lens[r] >= 1
      <4>1. r \in Nat BY DEF Row
      <4>2. r >= pending_seq_id' => r >= pending_seq_id BY <1>2, <2>1, <4>1
      <4>3. r < pending_seq_id' => r < pending_seq_id \/ r = pending_seq_id BY <1>2, <2>1, <4>1
      <4> QED BY <2>1, <4>2, <4>3 DEF BatchInv, RowsTold
    <3> QED BY <1>1, <1>2, <2>1, <3>1, <3>2, <3>3 DEF BatchInv, RowsTold
  <2>6. StagesTold' BY <1>4, <2>1 DEF StagesTold
  <2> QED BY <2>4, <2>5, <2>6 DEF BatchInv
<1>6. CASE ~(cursor + ChunkLen >= prompts[pending_seq_id])
  <2>1. cursor' = cursor + ChunkLen /\ pc' = "prefill" /\ UNCHANGED <<last_active, pending_seq_id>>
    BY <1>6 DEF PackRow
  <2>2. cursor' \in Nat BY <1>1, <1>3, <2>1 DEF BatchInv, BatchType
  <2>3. StagesTold' BY <1>4, <2>1 DEF StagesTold
  <2> QED BY <1>1, <1>4, <2>1, <2>2, <2>3, RowsUntouched
<1> QED BY <1>5, <1>6

LEMMA SampleKeepsBatch ==
  ASSUME BatchInv, NEW stopped, PrefillSample(stopped)
  PROVE  BatchInv'
<1> DEFINE removed == stopped \cup FullAfterPrefill
<1>1. /\ stopped \subseteq last_active
      /\ response_lens' = [r \in Row |-> IF r \in last_active THEN 1 ELSE response_lens[r]]
      /\ finish_reason' = [r \in Row |-> IF r \in FullAfterPrefill THEN "length"
                                         ELSE IF r \in stopped THEN "stop" ELSE finish_reason[r]]
      /\ active_rows' = active_rows \cup (last_active \ removed)
      /\ last_active' = {} /\ packed' = 0
      /\ pc' \in {"cancel", "free_prefilled"}
      /\ UNCHANGED <<max_prefill_tokens, prompts, pending_seq_id, cursor>>
  BY DEF PrefillSample, MarkFinished, sizes, admission
<1>2. Row' = Row BY <1>1 DEF Row
<1>3. MaxNewTokens \in Nat \ {0} BY SizesAssumption
<1>4. FullAfterPrefill \subseteq last_active /\ (MaxNewTokens = 1 => FullAfterPrefill = last_active)
      /\ (FullAfterPrefill # {} => MaxNewTokens = 1)
  BY <1>3 DEF FullAfterPrefill
<1>5. 1 \in 0..MaxNewTokens BY <1>3
<1>6. BatchType'
  <2>1. response_lens' \in [Row -> 0..MaxNewTokens] BY <1>1, <1>5 DEF BatchInv, BatchType
  <2>2. finish_reason' \in [Row -> Reasons] BY <1>1 DEF BatchInv, BatchType, Reasons
  <2> QED BY <1>1, <1>2, <2>1, <2>2 DEF BatchInv, BatchType
<1>7. active_rows \subseteq Row /\ last_active \subseteq Row
  <2>1. 1..pending_seq_id - 1 \subseteq Row BY DEF BatchInv, BatchType, Row
  <2> QED BY <2>1 DEF BatchInv, BatchType
<1>8. RowsTold'
  <2>1. ASSUME NEW r \in active_rows'
        PROVE  response_lens'[r] >= 1 /\ response_lens'[r] < MaxNewTokens /\ finish_reason'[r] = "none"
    <3>1. CASE r \in active_rows
      <4>1. r \notin last_active /\ r \in Row BY <1>7, <3>1 DEF BatchInv, RowsTold
      <4>2. response_lens'[r] = response_lens[r] /\ finish_reason'[r] = finish_reason[r] BY <1>1, <1>4, <4>1
      <4> QED BY <3>1, <4>2 DEF BatchInv, RowsTold
    <3>2. CASE r \in last_active \ removed
      <4>1. response_lens'[r] = 1 /\ finish_reason'[r] = finish_reason[r] /\ MaxNewTokens # 1
        BY <1>1, <1>4, <1>7, <3>2
      <4> QED BY <1>3, <3>2, <4>1 DEF BatchInv, RowsTold
    <3> QED BY <1>1, <3>1, <3>2
  <2>2. ASSUME NEW r \in Row
        PROVE  /\ finish_reason'[r] # "none" => response_lens'[r] >= 1
               /\ finish_reason'[r] = "length" => response_lens'[r] = MaxNewTokens
               /\ r >= pending_seq_id => finish_reason'[r] = "none"
               /\ r < pending_seq_id => response_lens'[r] >= 1
    <3>1. CASE r \in last_active
      <4>1. response_lens'[r] = 1 BY <1>1, <3>1
      <4>2. finish_reason'[r] = "length" => MaxNewTokens = 1
        <5>1. finish_reason[r] = "none" BY <3>1 DEF BatchInv, RowsTold
        <5> QED BY <1>1, <1>4, <5>1
      <4>3. ~(r >= pending_seq_id) BY <3>1 DEF BatchInv, BatchType
      <4> QED BY <4>1, <4>2, <4>3
    <3>2. CASE r \notin last_active
      <4>1. response_lens'[r] = response_lens[r] /\ finish_reason'[r] = finish_reason[r] BY <1>1, <1>4, <3>2
      <4> QED BY <3>2, <4>1 DEF BatchInv, RowsTold
    <3> QED BY <3>1, <3>2
  <2> QED BY <1>1, <1>2, <2>1, <2>2 DEF RowsTold
<1>9. StagesTold' BY <1>1 DEF StagesTold
<1> QED BY <1>6, <1>8, <1>9 DEF BatchInv

LEMMA CancelKeepsBatch ==
  ASSUME BatchInv, CancelRows
  PROVE  BatchInv'
<1>1. /\ pc = "cancel" /\ pc' \in {"test", "free_cancelled"}
      /\ response_lens' = [r \in Row |-> IF r \in Cancelled THEN 1 ELSE response_lens[r]]
      /\ finish_reason' = [r \in Row |-> IF r \in Cancelled THEN "cancelled" ELSE finish_reason[r]]
      /\ active_rows' = active_rows \ Cancelled
      /\ UNCHANGED <<max_prefill_tokens, prompts, pending_seq_id, cursor, packed, last_active>>
  BY DEF CancelRows, sizes, admission, payload
<1>2. Row' = Row BY <1>1 DEF Row
<1>3. 1 \in 0..MaxNewTokens BY SizesAssumption
<1>4. BatchType'
  <2>1. response_lens' \in [Row -> 0..MaxNewTokens] BY <1>1, <1>3 DEF BatchInv, BatchType
  <2>2. finish_reason' \in [Row -> Reasons] BY <1>1 DEF BatchInv, BatchType, Reasons
  <2> QED BY <1>1, <1>2, <2>1, <2>2 DEF BatchInv, BatchType
<1>5. 1..pending_seq_id - 1 \subseteq Row BY DEF BatchInv, BatchType, Row
<1>6. Cancelled \subseteq active_rows BY DEF Cancelled
<1>7. RowsTold'
  <2>1. ASSUME NEW r \in Row
        PROVE  /\ finish_reason'[r] # "none" => response_lens'[r] >= 1
               /\ finish_reason'[r] = "length" => response_lens'[r] = MaxNewTokens
               /\ r >= pending_seq_id => finish_reason'[r] = "none"
               /\ r < pending_seq_id => r \in last_active \/ response_lens'[r] >= 1
    <3>1. CASE r \in Cancelled
      <4>1. response_lens'[r] = 1 /\ finish_reason'[r] = "cancelled" BY <1>1, <3>1
      <4>2. ~(r >= pending_seq_id) BY <1>6, <3>1 DEF BatchInv, BatchType
      <4> QED BY <4>1, <4>2
    <3>2. CASE r \notin Cancelled BY <1>1, <3>2 DEF BatchInv, RowsTold
    <3> QED BY <3>1, <3>2
  <2>2. ASSUME NEW r \in active_rows'
        PROVE  response_lens'[r] >= 1 /\ response_lens'[r] < MaxNewTokens /\ finish_reason'[r] = "none"
    <3>1. r \in active_rows /\ r \notin Cancelled BY <1>1
    <3>2. r \in Row BY <1>5, <3>1 DEF BatchInv, BatchType
    <3> QED BY <1>1, <3>1, <3>2 DEF BatchInv, RowsTold
  <2>3. ASSUME NEW r \in last_active' PROVE finish_reason'[r] = "none"
    <3>1. r \in last_active /\ r \notin Cancelled /\ r \in Row
      BY <1>1, <1>5, <1>6 DEF BatchInv, BatchType, RowsTold
    <3> QED BY <1>1, <3>1 DEF BatchInv, RowsTold
  <2>4. active_rows' \cap last_active' = {} BY <1>1 DEF BatchInv, RowsTold
  <2> QED BY <1>1, <1>2, <2>1, <2>2, <2>3, <2>4 DEF RowsTold
<1>8. StagesTold' BY <1>1 DEF BatchInv, StagesTold
<1> QED BY <1>4, <1>7, <1>8 DEF BatchInv

LEMMA DecodeKeepsBatch ==
  ASSUME BatchInv, NEW stopped, Decode(stopped)
  PROVE  BatchInv'
<1> DEFINE removed == stopped \cup FullAfterDecode \cup Cancelled
<1>1. /\ pc = "ensure" /\ pc' \in {"refill", "free_decoded"} /\ stopped \subseteq active_rows
      /\ response_lens' =
           [r \in Row |-> IF r \in Cancelled THEN WithCancelToken(response_lens[r] + 1)
                          ELSE IF r \in active_rows THEN response_lens[r] + 1
                          ELSE response_lens[r]]
      /\ finish_reason' = [r \in Row |-> IF r \in FullAfterDecode THEN "length"
                                         ELSE IF r \in stopped THEN "stop" ELSE finish_reason[r]]
      /\ active_rows' = active_rows \ removed
      /\ UNCHANGED <<max_prefill_tokens, prompts, pending_seq_id, cursor, packed, last_active>>
  BY DEF Decode, MarkFinished, sizes, admission, payload
<1>2. Row' = Row BY <1>1 DEF Row
<1>3. MaxNewTokens \in Nat \ {0} BY SizesAssumption
<1>4. Cancelled \subseteq active_rows /\ FullAfterDecode \subseteq active_rows BY DEF Cancelled, FullAfterDecode
<1>5. active_rows \subseteq Row
  <2>1. 1..pending_seq_id - 1 \subseteq Row BY DEF BatchInv, BatchType, Row
  <2> QED BY <2>1 DEF BatchInv, BatchType
<1>6. last_active = {} BY <1>1 DEF BatchInv, StagesTold
<1>7. ASSUME NEW r \in active_rows
      PROVE  /\ response_lens[r] \in Nat /\ response_lens'[r] \in 1..MaxNewTokens
             /\ r \in FullAfterDecode => response_lens'[r] = MaxNewTokens
             /\ r \notin FullAfterDecode \cup Cancelled => response_lens'[r] < MaxNewTokens
  <2>1. r \in Row /\ response_lens[r] \in Nat /\ response_lens[r] >= 1 /\ response_lens[r] < MaxNewTokens
    BY <1>5 DEF BatchInv, BatchType, RowsTold
  <2>2. r \in FullAfterDecode <=> response_lens[r] + 1 >= MaxNewTokens BY DEF FullAfterDecode
  <2>3. CASE r \in Cancelled
    <3>1. response_lens'[r] = WithCancelToken(response_lens[r] + 1) BY <1>1, <2>1, <2>3
    <3> QED BY <1>3, <2>1, <2>2, <2>3, <3>1 DEF WithCancelToken
  <2>4. CASE r \notin Cancelled
    <3>1. response_lens'[r] = response_lens[r] + 1 BY <1>1, <2>1, <2>4
    <3> QED BY <1>3, <2>1, <2>2, <3>1
  <2> QED BY <2>3, <2>4
<1>8. \A r \in Row : r \notin active_rows => response_lens'[r] = response_lens[r] /\ finish_reason'[r] = finish_reason[r]
  BY <1>1, <1>4
<1>9. BatchType'
  <2>1. \A r \in Row : response_lens'[r] \in 0..MaxNewTokens
    <3>1. ASSUME NEW r \in Row, r \in active_rows PROVE response_lens'[r] \in 0..MaxNewTokens BY <1>3, <1>7, <3>1
    <3>2. ASSUME NEW r \in Row, r \notin active_rows PROVE response_lens'[r] \in 0..MaxNewTokens
      BY <1>8, <3>2 DEF BatchInv, BatchType
    <3> QED BY <3>1, <3>2
  <2>2. response_lens' \in [Row -> 0..MaxNewTokens] BY <1>1, <2>1
  <2>3. finish_reason' \in [Row -> Reasons] BY <1>1 DEF BatchInv, BatchType, Reasons
  <2> QED BY <1>1, <1>2, <2>2, <2>3 DEF BatchInv, BatchType
<1>10. RowsTold'
  <2>1. ASSUME NEW r \in active_rows'
        PROVE  response_lens'[r] >= 1 /\ response_lens'[r] < MaxNewTokens /\ finish_reason'[r] = "none"
    <3>1. r \in active_rows /\ r \notin removed BY <1>1
    <3>2. r \in Row /\ finish_reason'[r] = finish_reason[r] BY <1>1, <1>5, <3>1
    <3>3. response_lens'[r] \in 1..MaxNewTokens /\ response_lens'[r] < MaxNewTokens BY <1>7, <3>1
    <3> QED BY <1>3, <3>1, <3>2, <3>3 DEF BatchInv, RowsTold
  <2>2. ASSUME NEW r \in Row
        PROVE  /\ finish_reason'[r] # "none" => response_lens'[r] >= 1
               /\ finish_reason'[r] = "length" => response_lens'[r] = MaxNewTokens
               /\ r >= pending_seq_id => finish_reason'[r] = "none"
               /\ r < pending_seq_id => response_lens'[r] >= 1
    <3>1. CASE r \in active_rows
      <4>1. ~(r >= pending_seq_id) BY <3>1 DEF BatchInv, BatchType
      <4>2. response_lens'[r] \in 1..MaxNewTokens BY <1>7, <3>1
      <4>3. finish_reason'[r] = "length" => response_lens'[r] = MaxNewTokens
        <5>1. finish_reason[r] = "none" BY <3>1 DEF BatchInv, RowsTold
        <5>2. finish_reason'[r] = "length" => r \in FullAfterDecode BY <1>1, <5>1
        <5> QED BY <1>7, <3>1, <5>2
      <4> QED BY <4>1, <4>2, <4>3
    <3>2. CASE r \notin active_rows BY <1>6, <1>8, <3>2 DEF BatchInv, RowsTold
    <3> QED BY <3>1, <3>2
  <2> QED BY <1>1, <1>2, <1>6, <2>1, <2>2 DEF RowsTold
<1>11. StagesTold' BY <1>1, <1>6 DEF StagesTold
<1> QED BY <1>9, <1>10, <1>11 DEF BatchInv

\* The prompts of a request join behind the others, their rows untouched.
LEMMA RefillKeepsBatch ==
  ASSUME BatchInv, NEW lens \in Seq(PromptLens), Refill(lens)
  PROVE  BatchInv'
<1> DEFINE n == Len(prompts)
           m == Len(lens)
<1>1. /\ pc = "refill" /\ pc' = "refill"
      /\ prompts' = prompts \o lens /\ response_lens' = response_lens \o Zeros(m)
      /\ finish_reason' = finish_reason \o Blanks(m)
      /\ UNCHANGED <<max_prefill_tokens, pending_seq_id, cursor, packed, last_active, active_rows>>
  BY DEF Refill, AppendPrompts, sizes, admission, payload
<1>2. n \in Nat /\ m \in Nat /\ pending_seq_id \in 1..n + 1 BY DEF BatchInv, BatchType
<1>3. last_active = {} BY <1>1 DEF BatchInv, StagesTold
<1>4. prompts' \in Seq(PromptLens) /\ Len(prompts') = n + m
  <2>1. prompts \in Seq(PromptLens) BY DEF BatchInv, BatchType
  <2>2. prompts \o lens \in Seq(PromptLens) /\ Len(prompts \o lens) = n + m BY <2>1, ConcatElements
  <2> QED BY <1>1, <2>2
<1>5. /\ Zeros(m) \in Seq(0..MaxNewTokens) /\ Len(Zeros(m)) = m /\ \A i \in 1..m : Zeros(m)[i] = 0
      /\ Blanks(m) \in Seq(Reasons) /\ Len(Blanks(m)) = m /\ \A i \in 1..m : Blanks(m)[i] = "none"
  <2>1. 0 \in 0..MaxNewTokens /\ "none" \in Reasons BY SizesAssumption DEF Reasons
  <2>2. Zeros(m) \in [1..m -> 0..MaxNewTokens] /\ Blanks(m) \in [1..m -> Reasons] BY <2>1 DEF Zeros, Blanks
  <2>3. Zeros(m) \in Seq(0..MaxNewTokens) /\ Len(Zeros(m)) = m BY <1>2, <2>2, SeqOfFunction
  <2>4. Blanks(m) \in Seq(Reasons) /\ Len(Blanks(m)) = m BY <1>2, <2>2, SeqOfFunction
  <2> QED BY <2>3, <2>4 DEF Zeros, Blanks
<1>6. /\ response_lens \in Seq(0..MaxNewTokens) /\ Len(response_lens) = n
      /\ finish_reason \in Seq(Reasons) /\ Len(finish_reason) = n
  <2>1. response_lens \in [1..n -> 0..MaxNewTokens] /\ finish_reason \in [1..n -> Reasons]
    BY DEF BatchInv, BatchType, Row
  <2>2. response_lens \in Seq(0..MaxNewTokens) /\ Len(response_lens) = n BY <1>2, <2>1, SeqOfFunction
  <2>3. finish_reason \in Seq(Reasons) /\ Len(finish_reason) = n BY <1>2, <2>1, SeqOfFunction
  <2> QED BY <2>2, <2>3
<1>7. /\ response_lens' \in Seq(0..MaxNewTokens) /\ Len(response_lens') = n + m
      /\ \A i \in 1..n : response_lens'[i] = response_lens[i]
      /\ \A i \in n + 1 .. n + m : response_lens'[i] = 0
  <2>1. /\ response_lens' \in Seq(0..MaxNewTokens) /\ Len(response_lens') = n + m
        /\ \A i \in 1..n : response_lens'[i] = response_lens[i]
        /\ \A i \in n + 1 .. n + m : response_lens'[i] = Zeros(m)[i - n]
    <3> DEFINE S == 0..MaxNewTokens
    <3>1. PICK a \in Seq(S) : a = response_lens BY <1>6
    <3>2. PICK b \in Seq(S) : b = Zeros(m) BY <1>5
    <3>3. /\ a \o b \in Seq(S) /\ Len(a \o b) = Len(a) + Len(b)
          /\ \A i \in 1..Len(a) : (a \o b)[i] = a[i]
          /\ \A i \in Len(a) + 1 .. Len(a) + Len(b) : (a \o b)[i] = b[i - Len(a)]
      <4> HIDE DEF S
      <4> QED BY ConcatElements
    <3>4. Len(a) = n /\ Len(b) = m /\ response_lens' = a \o b BY <1>1, <1>5, <1>6, <3>1, <3>2
    <3> QED BY <3>1, <3>2, <3>3, <3>4
  <2>2. \A i \in n + 1 .. n + m : i - n \in 1..m BY <1>2
  <2> QED BY <1>5, <2>1, <2>2
<1>8. /\ finish_reason' \in Seq(Reasons) /\ Len(finish_reason') = n + m
      /\ \A i \in 1..n : finish_reason'[i] = finish_reason[i]
      /\ \A i \in n + 1 .. n + m : finish_reason'[i] = "none"
  <2>1. /\ finish_reason' \in Seq(Reasons) /\ Len(finish_reason') = n + m
        /\ \A i \in 1..n : finish_reason'[i] = finish_reason[i]
        /\ \A i \in n + 1 .. n + m : finish_reason'[i] = Blanks(m)[i - n]
    <3> DEFINE S == Reasons
    <3>1. PICK a \in Seq(S) : a = finish_reason BY <1>6
    <3>2. PICK b \in Seq(S) : b = Blanks(m) BY <1>5
    <3>3. /\ a \o b \in Seq(S) /\ Len(a \o b) = Len(a) + Len(b)
          /\ \A i \in 1..Len(a) : (a \o b)[i] = a[i]
          /\ \A i \in Len(a) + 1 .. Len(a) + Len(b) : (a \o b)[i] = b[i - Len(a)]
      <4> HIDE DEF S
      <4> QED BY ConcatElements
    <3>4. Len(a) = n /\ Len(b) = m /\ finish_reason' = a \o b BY <1>1, <1>5, <1>6, <3>1, <3>2
    <3> QED BY <3>1, <3>2, <3>3, <3>4
  <2>2. \A i \in n + 1 .. n + m : i - n \in 1..m BY <1>2
  <2> QED BY <1>5, <2>1, <2>2
<1> HIDE DEF n, m
<1>9. Row = 1..n /\ Row' = 1..(n + m) BY <1>4 DEF Row, n
<1>10. \A r \in Row' : r \in Row \/ (r \in n + 1 .. n + m /\ r >= pending_seq_id /\ ~(r < pending_seq_id))
  BY <1>2, <1>9
<1>11. BatchType'
  <2>1. response_lens' \in [Row' -> 0..MaxNewTokens] /\ finish_reason' \in [Row' -> Reasons]
    BY <1>7, <1>8, <1>9, SeqIsFunction
  <2>2. pending_seq_id \in 1..(n + m) + 1 BY <1>2
  <2> QED BY <1>1, <1>4, <2>1, <2>2 DEF BatchInv, BatchType
<1>12. RowsTold'
  <2>1. ASSUME NEW r \in active_rows
        PROVE  response_lens'[r] = response_lens[r] /\ finish_reason'[r] = finish_reason[r]
    <3>1. r \in 1..n BY <1>2 DEF BatchInv, BatchType
    <3> QED BY <1>7, <1>8, <3>1
  <2>2. ASSUME NEW r \in Row'
        PROVE  /\ finish_reason'[r] # "none" => response_lens'[r] >= 1
               /\ finish_reason'[r] = "length" => response_lens'[r] = MaxNewTokens
               /\ r >= pending_seq_id => finish_reason'[r] = "none"
               /\ r < pending_seq_id => r \in last_active \/ response_lens'[r] >= 1
    <3>1. CASE r \in Row BY <1>7, <1>8, <1>9, <3>1 DEF BatchInv, RowsTold
    <3>2. CASE r \in n + 1 .. n + m /\ r >= pending_seq_id /\ ~(r < pending_seq_id) BY <1>8, <3>2
    <3> QED BY <1>10, <3>1, <3>2
  <2> QED BY <1>1, <1>3, <2>1, <2>2 DEF BatchInv, RowsTold
<1>13. StagesTold' BY <1>1, <1>3 DEF StagesTold
<1> QED BY <1>11, <1>12, <1>13 DEF BatchInv

-----------------------------------------------------------------------------
(* Answers                                                                 *)

LEMMA JoinOwn ==
  ASSUME NEW a, NEW b, NEW s, AllOwn(a, s), AllOwn(b, s)
  PROVE  AllOwn(a \o b, s)
<1> DEFINE X == ElementsOf(a) \cup ElementsOf(b)
           c == a \o b
<1>1. a \in Seq(X) /\ b \in Seq(X) BY DEF AllOwn
<1>2. /\ c \in Seq(X)
      /\ Len(a) \in Nat /\ Len(b) \in Nat /\ Len(c) = Len(a) + Len(b)
      /\ \A i \in 1..Len(a) : c[i] = a[i]
      /\ \A i \in Len(a) + 1 .. Len(a) + Len(b) : c[i] = b[i - Len(a)]
  BY <1>1, ConcatElements
<1> HIDE DEF X, c
<1>3. \A i \in 1..Len(c) : \/ i \in 1..Len(a)
                           \/ i \in Len(a) + 1 .. Len(a) + Len(b) /\ i - Len(a) \in 1..Len(b)
  BY <1>2
<1>4. \A i \in 1..Len(c) : IsOwn(c[i], s) BY <1>2, <1>3 DEF AllOwn
<1>5. c \in Seq(ElementsOf(c))
  <2>1. \A i \in 1..Len(c) : c[i] \in ElementsOf(c) BY DEF ElementsOf
  <2> QED BY <1>2, <2>1
<1> QED BY <1>4, <1>5 DEF AllOwn, c

LEMMA OneOwn ==
  ASSUME NEW a, NEW x, NEW s, AllOwn(a, s), IsOwn(x, s)
  PROVE  AllOwn(Append(a, x), s)
<1> DEFINE b == <<x>>
<1>1. AllOwn(b, s)
  <2>1. Len(b) = 1 /\ b[1] = x /\ 1..Len(b) = {1} OBVIOUS
  <2>2. b \in Seq(ElementsOf(b))
    <3>1. x \in ElementsOf(b) BY <2>1 DEF ElementsOf
    <3> QED BY <3>1
  <2> HIDE DEF b
  <2> QED BY <2>1, <2>2 DEF AllOwn
<1>2. Append(a, x) = a \o b
  <2> DEFINE X == ElementsOf(a) \cup {x}
  <2>1. a \in Seq(X) /\ x \in X BY DEF AllOwn
  <2> HIDE DEF X
  <2> QED BY <2>1
<1> QED BY <1>1, <1>2, JoinOwn

\* An error is nobody's answer.
LEMMA FailuresOwn ==
  ASSUME NEW ids \in Seq(Nat), NEW s
  PROVE  AllOwn([i \in 1..Len(ids) |-> Failed(ids[i])], s)
<1> DEFINE fs == [i \in 1..Len(ids) |-> Failed(ids[i])]
<1>1. Len(ids) \in Nat OBVIOUS
<1>2. fs \in [1..Len(ids) -> ElementsOf(fs)]
  <2>1. fs \in [1..Len(ids) -> {fs[i] : i \in 1..Len(ids)}] OBVIOUS
  <2>2. fs \in Seq({fs[i] : i \in 1..Len(ids)}) /\ Len(fs) = Len(ids) BY <1>1, <2>1, SeqOfFunction
  <2> QED BY <2>1, <2>2 DEF ElementsOf
<1>4. \A i \in 1..Len(ids) : ~fs[i].ok BY DEF Failed
<1> HIDE DEF fs
<1>3. fs \in Seq(ElementsOf(fs)) /\ Len(fs) = Len(ids) BY <1>1, <1>2, SeqOfFunction
<1>5. \A i \in 1..Len(fs) : IsOwn(fs[i], s) BY <1>3, <1>4 DEF IsOwn
<1> QED BY <1>3, <1>5 DEF AllOwn, fs

\* The answer to a request of the batch is its own, if its rows have responses.
LEMMA OkIsOwn ==
  ASSUME RowsBelong, submitted \in Seq(Shapes), NEW k \in 1..Len(request_ids), NEW reasons,
         \A i \in 1..Len(request_rows[k]) :
           /\ response_lens'[request_rows[k][i]] \in 1..MaxNewTokens
           /\ reasons[request_rows[k][i]] = "length" => response_lens'[request_rows[k][i]] = MaxNewTokens
  PROVE  IsOwn(Ok(request_ids[k], request_rows[k], reasons), submitted)
<1>1. PICK x : x = Ok(request_ids[k], request_rows[k], reasons) OBVIOUS
<1>2. PICK rs \in Seq(Nat) : rs = request_rows[k] BY DEF RowsBelong
<1>3. PICK id \in Ids : id = request_ids[k] BY DEF RowsBelong
<1>4. /\ x.id = id
      /\ x.lens = [i \in 1..Len(rs) |-> prompts[rs[i]]]
      /\ x.tokens = [i \in 1..Len(rs) |-> response_lens'[rs[i]]]
      /\ x.reasons = [i \in 1..Len(rs) |-> reasons[rs[i]]]
  <2>1. x = Ok(id, rs, reasons) BY ONLY <1>1, <1>2, <1>3, Zenon
  <2> QED BY ONLY <2>1, Zenon DEF Ok
<1>5. submitted[id] \in Shapes BY DEF Ids
<1>6. Lens(id) \in Seq(PromptLens) BY <1>5, ShapesAssumption DEF Lens
<1>7. Len(rs) = Len(Lens(id)) /\ \A i \in 1..Len(rs) : prompts[rs[i]] = Lens(id)[i]
  BY <1>2, <1>3 DEF RowsBelong
<1>8. x.lens = Lens(id)
  <2>1. Len(rs) \in Nat /\ Lens(id) = [i \in 1..Len(Lens(id)) |-> Lens(id)[i]] BY <1>6
  <2> QED BY <1>4, <1>7, <2>1
<1>9. ASSUME NEW i \in DOMAIN x.tokens
      PROVE  x.tokens[i] \in 1..MaxNewTokens /\ (x.reasons[i] = "length" => x.tokens[i] = MaxNewTokens)
  <2>1. i \in 1..Len(rs) BY <1>4
  <2>2. x.tokens[i] = response_lens'[rs[i]] /\ x.reasons[i] = reasons[rs[i]] BY <1>4, <2>1
  <2> QED BY <1>2, <2>1, <2>2
<1>10. IsOwn(x, submitted) BY <1>4, <1>8, <1>9 DEF IsOwn, Ids, Lens
<1> QED BY <1>1, <1>10

LEMMA AnswersOwn ==
  ASSUME RowsBelong, submitted \in Seq(Shapes), NEW ks, ks \subseteq 1..Len(request_ids), NEW reasons,
         \A k \in ks : \A i \in 1..Len(request_rows[k]) :
           /\ response_lens'[request_rows[k][i]] \in 1..MaxNewTokens
           /\ reasons[request_rows[k][i]] = "length" => response_lens'[request_rows[k][i]] = MaxNewTokens
  PROVE  AllOwn(Answers(ks, reasons), submitted)
<1> DEFINE all == [k \in 1..Len(request_ids) |-> k]
           order == Kept(all, ks)
           as == [i \in 1..Len(order) |-> Ok(request_ids[order[i]], request_rows[order[i]], reasons)]
<1>0. Len(request_ids) \in Nat BY DEF RowsBelong
<1>1. all \in Seq(Nat) BY <1>0
<1>2. order \in Seq(Nat) /\ \A j \in 1..Len(order) : order[j] \in ks
  <2> HIDE DEF all
  <2> QED BY <1>1, KeptFacts
<1>3. Len(order) \in Nat BY <1>2
<1>4. Answers(ks, reasons) = as BY DEF Answers
<1> HIDE DEF all, order
<1>5. Len(as) = Len(order) /\ \A i \in 1..Len(order) : as[i] = Ok(request_ids[order[i]], request_rows[order[i]], reasons)
  BY <1>3
<1>6. as \in Seq(ElementsOf(as))
  <2>1. \A i \in 1..Len(order) : as[i] \in ElementsOf(as) BY <1>5 DEF ElementsOf
  <2>2. as = [i \in 1..Len(order) |-> as[i]] OBVIOUS
  <2> HIDE DEF as
  <2>3. as \in [1..Len(order) -> ElementsOf(as)] BY <2>1, <2>2
  <2> QED BY <1>3, <2>3, SeqOfFunction
<1> HIDE DEF as
<1>7. ASSUME NEW i \in 1..Len(as) PROVE IsOwn(as[i], submitted)
  <2>1. as[i] = Ok(request_ids[order[i]], request_rows[order[i]], reasons) /\ order[i] \in ks BY <1>2, <1>5
  <2>2. PICK k \in ks : k = order[i] BY <2>1
  <2>3. IsOwn(Ok(request_ids[k], request_rows[k], reasons), submitted) BY <2>2, OkIsOwn
  <2> QED BY <2>1, <2>2, <2>3
<1>8. AllOwn(as, submitted) BY <1>6, <1>7 DEF AllOwn
<1> QED BY <1>4, <1>8

-----------------------------------------------------------------------------
(* Steps                                                                   *)

\* A taken command was submitted, and so are those that stay.
LEMMA NextWasSubmitted ==
  ASSUME QueuesHoldIds, NEW id, NextCommand(id), UNCHANGED submitted
  PROVE  id \in Ids /\ QueuesHoldIds'
<1>1. Ids' = Ids BY DEF Ids
<1>2. \A q \in Seq(Ids) : q # << >> => Head(q) \in Ids /\ Tail(q) \in Seq(Ids) OBVIOUS
<1> QED BY <1>1, <1>2 DEF NextCommand, QueuesHoldIds

LEMMA HeadWasSubmitted ==
  ASSUME QueuesHoldIds, cmd_queue # << >>, cmd_queue' = Tail(cmd_queue), UNCHANGED <<submitted, deferred>>
  PROVE  Head(cmd_queue) \in Ids /\ QueuesHoldIds'
<1>1. Ids' = Ids BY DEF Ids
<1>2. \A q \in Seq(Ids) : q # << >> => Head(q) \in Ids /\ Tail(q) \in Seq(Ids) OBVIOUS
<1> QED BY <1>1, <1>2 DEF QueuesHoldIds

\* The rows of the batch, when neither they nor the requests have changed.
LEMMA RowsBelongStill ==
  ASSUME RowsBelong, UNCHANGED <<submitted, request_ids, request_rows, prompts>>
  PROVE  RowsBelong'
<1>1. Ids' = Ids /\ Row' = Row BY DEF Ids, Row
<1>2. \A id : Lens(id)' = Lens(id) BY DEF Lens
<1> QED BY <1>1, <1>2 DEF RowsBelong

LEMMA BatchSame ==
  ASSUME BatchInv, UNCHANGED vars
  PROVE  BatchInv'
<1>1. UNCHANGED <<max_prefill_tokens, prompts, pending_seq_id, cursor, packed, last_active, active_rows,
                  response_lens, finish_reason, pc>>
  BY DEF vars, sizes, admission, payload, rows
<1>2. StagesTold' BY <1>1 DEF BatchInv, StagesTold
<1> QED BY <1>1, <1>2, RowsUntouched DEF BatchInv, BatchType

LEMMA OwnSame ==
  ASSUME OwnInv, UNCHANGED wvars, BatchInv', UNCHANGED prompts, rollout = 0 => pc' = pc
  PROVE  OwnInv'
<1>1. UNCHANGED <<submitted, cmd_queue, deferred, request_ids, request_rows, results, rollout, alive>>
  BY DEF wvars, queues, batch
<1>2. QueuesHoldIds' BY <1>1 DEF OwnInv, QueuesHoldIds, Ids
<1>3. RowsBelong' BY <1>1, RowsBelongStill DEF OwnInv
<1> QED BY <1>1, <1>2, <1>3 DEF OwnInv

LEMMA ServeKeepsOwn ==
  ASSUME OwnInv, NEW id, Serve(id) \/ ServeFails(id)
  PROVE  OwnInv'
<1>1. /\ NextCommand(id) /\ alive /\ rollout = 0
      /\ UNCHANGED <<vars, submitted, rollout, request_ids, request_rows>>
  BY DEF Serve, ServeFails, Idle, batch
<1>2. id \in Ids /\ QueuesHoldIds' BY <1>1, NextWasSubmitted DEF OwnInv
<1>3. UNCHANGED <<prompts, pc>> BY <1>1 DEF vars, rows
<1>4. BatchInv' /\ RowsBelong' BY <1>1, <1>3, BatchSame, RowsBelongStill DEF OwnInv
<1>5. CASE Serve(id)
  <2>1. results' = Append(results, Empty(id)) /\ (Op(id) = "other" \/ Lens(id) = << >>) BY <1>5 DEF Serve
  <2>2. PICK x : x = Empty(id) OBVIOUS
  <2>3. x.id = id /\ x.lens = << >> /\ x.tokens = << >> BY <2>2 DEF Empty
  <2>4. IsOwn(x, submitted) BY <1>2, <2>1, <2>3 DEF IsOwn, Ids, Op, Lens
  <2>5. AllOwn(Append(results, x), submitted) BY <2>4, OneOwn DEF OwnInv
  <2> QED BY <1>1, <1>2, <1>3, <1>4, <2>1, <2>2, <2>5 DEF OwnInv
<1>6. CASE ServeFails(id)
  <2>1. results' = Append(results, Failed(id)) BY <1>6 DEF ServeFails
  <2>2. PICK x : x = Failed(id) OBVIOUS
  <2>3. IsOwn(x, submitted) BY <2>2 DEF IsOwn, Failed
  <2>4. AllOwn(Append(results, x), submitted) BY <2>3, OneOwn DEF OwnInv
  <2> QED BY <1>1, <1>2, <1>3, <1>4, <2>1, <2>2, <2>4 DEF OwnInv
<1> QED BY <1>5, <1>6

\* A new batch.
LEMMA StartKeepsOwn ==
  ASSUME OwnInv, NEW id, StartRollout(id)
  PROVE  OwnInv'
<1>1. /\ NextCommand(id) /\ alive /\ rollout = 0 /\ alive' = alive
      /\ prompts' = Lens(id) /\ pending_seq_id' = 1 /\ cursor' = 0
      /\ max_prefill_tokens' = LocalMaxRunning * RolloutMaxPromptLen
      /\ response_lens' = Zeros(Len(Lens(id))) /\ finish_reason' = Blanks(Len(Lens(id)))
      /\ pc' = "refill" /\ rollout' = id
      /\ request_ids' = <<id>> /\ request_rows' = <<[i \in 1..Len(Lens(id)) |-> i]>>
      /\ UNCHANGED <<submitted, results, packed, last_active, active_rows>>
  BY DEF StartRollout, Idle, payload
<1>2. id \in Ids /\ QueuesHoldIds' BY <1>1, NextWasSubmitted DEF OwnInv
<1>3. id \in Nat \ {0} /\ submitted[id] \in Shapes BY <1>2 DEF Ids, OwnInv, QueuesHoldIds
<1>4. PICK lens \in Seq(PromptLens) : lens = Lens(id) BY <1>3, ShapesAssumption DEF Lens
<1>5. pc = "done" /\ active_rows = {} /\ last_active = {}
  BY <1>1 DEF OwnInv, BatchInv, StagesTold
<1>6. Len(lens) \in Nat /\ Row' = 1..Len(lens) BY <1>1, <1>4 DEF Row
<1>7. /\ response_lens' \in [Row' -> 0..MaxNewTokens] /\ finish_reason' \in [Row' -> Reasons]
      /\ \A r \in Row' : finish_reason'[r] = "none"
  <2>1. 0 \in 0..MaxNewTokens BY SizesAssumption
  <2> QED BY <1>1, <1>4, <1>6, <2>1 DEF Zeros, Blanks, Reasons
<1>8. BatchInv'
  <2>1. BatchType'
    <3>1. LocalMaxRunning * RolloutMaxPromptLen \in Nat BY SizesAssumption
    <3>2. 1 \in 1..Len(lens) + 1 BY <1>6
    <3> QED BY <1>1, <1>4, <1>5, <1>7, <3>1, <3>2 DEF OwnInv, BatchInv, BatchType
  <2>2. RowsTold'
    <3>1. \A r \in Row' : ~(r < pending_seq_id') BY <1>1, <1>6
    <3> QED BY <1>1, <1>5, <1>7, <3>1 DEF RowsTold
  <2>3. StagesTold' BY <1>1, <1>5 DEF StagesTold
  <2> QED BY <2>1, <2>2, <2>3 DEF BatchInv
<1>9. RowsBelong'
  <2>1. Ids' = Ids /\ Lens(id)' = Lens(id) BY <1>1 DEF Ids, Lens
  <2>2. PICK rs \in Seq(Nat) : rs = [i \in 1..Len(lens) |-> i] /\ Len(rs) = Len(lens)
    <3>1. [i \in 1..Len(lens) |-> i] \in [1..Len(lens) -> Nat] BY <1>6
    <3>2. [i \in 1..Len(lens) |-> i] \in Seq(Nat) BY <1>6, <3>1, SeqOfFunction
    <3>3. Len([i \in 1..Len(lens) |-> i]) = Len(lens) BY <1>6
    <3> QED BY <3>2, <3>3
  <2>3. request_rows' = <<rs>> /\ request_ids' = <<id>> BY <1>1, <1>4, <2>2
  <2>4. /\ request_rows' \in Seq(Seq(Nat)) /\ Len(request_rows') = 1 /\ request_rows'[1] = rs
        /\ request_ids' \in Seq(Ids) /\ Len(request_ids') = 1 /\ request_ids'[1] = id
    BY <1>2, <2>3
  <2>5. \A i \in 1..Len(rs) : rs[i] \in Row' /\ prompts'[rs[i]] = lens[i] BY <1>1, <1>4, <1>6, <2>2
  <2>6. \A k \in 1..Len(request_ids') : k = 1 BY <2>4
  <2>7. submitted'[request_ids'[1]].lens = lens
    <3>1. submitted' = submitted /\ submitted[id].lens = lens BY <1>1, <1>4 DEF Lens
    <3> QED BY <2>4, <3>1
  <2>8. ASSUME NEW k \in 1..Len(request_ids')
        PROVE  /\ Len(request_rows'[k]) = Len(submitted'[request_ids'[k]].lens)
               /\ \A i \in 1..Len(request_rows'[k]) :
                    /\ request_rows'[k][i] \in Row'
                    /\ prompts'[request_rows'[k][i]] = submitted'[request_ids'[k]].lens[i]
    <3>1. k = 1 BY <2>6
    <3>2. request_rows'[k] = rs /\ submitted'[request_ids'[k]].lens = lens BY <2>4, <2>7, <3>1
    <3> QED BY <2>2, <2>5, <3>2
  <2> QED BY <2>1, <2>4, <2>8 DEF RowsBelong, Lens
<1>10. rollout' # 0 BY <1>1, <1>3
<1> QED BY <1>1, <1>2, <1>8, <1>9, <1>10 DEF OwnInv

\* The rows of a joining request are those appended for it.
LEMMA JoinBelongs ==
  ASSUME RowsBelong, prompts \in Seq(PromptLens), NEW id \in Ids, Lens(id) \in Seq(PromptLens),
         Join(id), prompts' = prompts \o Lens(id), UNCHANGED submitted
  PROVE  RowsBelong'
<1>1. PICK lens \in Seq(PromptLens) : lens = Lens(id) OBVIOUS
<1>2. PICK rs : rs = [i \in 1..Len(lens) |-> Len(prompts) + i] OBVIOUS
<1>3. /\ request_ids' = Append(request_ids, id) /\ request_rows' = Append(request_rows, rs)
  BY <1>1, <1>2 DEF Join
<1>4. Len(prompts) \in Nat /\ Len(lens) \in Nat OBVIOUS
<1>5. rs \in Seq(Nat) /\ Len(rs) = Len(lens)
  <2>1. rs \in [1..Len(lens) -> Nat] BY <1>2, <1>4
  <2> QED BY <1>4, <2>1, SeqOfFunction
<1>6. /\ Len(prompts') = Len(prompts) + Len(lens)
      /\ \A i \in 1..Len(prompts) : prompts'[i] = prompts[i]
      /\ \A i \in Len(prompts) + 1 .. Len(prompts) + Len(lens) : prompts'[i] = lens[i - Len(prompts)]
  BY <1>1, ConcatElements
<1>7. Row \subseteq Row' BY <1>4, <1>6 DEF Row
<1>8. \A i \in 1..Len(rs) : rs[i] \in Row' /\ prompts'[rs[i]] = lens[i]
  <2>1. ASSUME NEW i \in 1..Len(rs) PROVE rs[i] \in Row' /\ prompts'[rs[i]] = lens[i]
    <3>1. /\ rs[i] = Len(prompts) + i /\ i \in Nat /\ i >= 1 /\ i <= Len(lens) BY <1>2, <1>4, <1>5
    <3>2. rs[i] \in Len(prompts) + 1 .. Len(prompts) + Len(lens) /\ rs[i] - Len(prompts) = i BY <1>4, <3>1
    <3> QED BY <1>4, <1>6, <3>2 DEF Row
  <2> QED BY <2>1
<1>9. Ids' = Ids /\ \A j : Lens(j)' = Lens(j) BY DEF Ids, Lens
<1> DEFINE n == Len(request_ids)
<1>10. /\ request_ids \in Seq(Ids) /\ request_rows \in Seq(Seq(Nat)) /\ Len(request_rows) = n /\ n \in Nat
  BY DEF RowsBelong
<1>11. /\ request_ids' \in Seq(Ids) /\ request_rows' \in Seq(Seq(Nat))
       /\ Len(request_ids') = n + 1 /\ Len(request_rows') = n + 1
       /\ \A k \in 1..n : request_ids'[k] = request_ids[k] /\ request_rows'[k] = request_rows[k]
       /\ request_ids'[n + 1] = id /\ request_rows'[n + 1] = rs
  BY <1>3, <1>5, <1>10
<1> HIDE DEF n
<1>12. \A j : Lens(j) = submitted'[j].lens BY DEF Lens
<1> DEFINE Right(k) ==
      /\ Len(request_rows'[k]) = Len(submitted'[request_ids'[k]].lens)
      /\ \A i \in 1..Len(request_rows'[k]) :
           /\ request_rows'[k][i] \in Row'
           /\ prompts'[request_rows'[k][i]] = submitted'[request_ids'[k]].lens[i]
<1>13. Right(n + 1)
  <2>1. request_rows'[n + 1] = rs /\ submitted'[request_ids'[n + 1]].lens = lens BY <1>1, <1>11, <1>12
  <2> QED BY <1>5, <1>8, <2>1
<1>14. ASSUME NEW k \in 1..n PROVE Right(k)
  <2>1. /\ Len(request_rows[k]) = Len(submitted[request_ids[k]].lens)
        /\ \A i \in 1..Len(request_rows[k]) :
             request_rows[k][i] \in Row /\ prompts[request_rows[k][i]] = submitted[request_ids[k]].lens[i]
    BY DEF RowsBelong, Lens, n
  <2>2. request_rows'[k] = request_rows[k] /\ request_ids'[k] = request_ids[k] /\ submitted' = submitted
    BY <1>11
  <2>3. \A i \in 1..Len(request_rows[k]) : prompts'[request_rows[k][i]] = prompts[request_rows[k][i]]
    BY <1>6, <2>1 DEF Row
  <2> QED BY <1>7, <2>1, <2>2, <2>3, ZenonT(30)
<1>15. /\ request_ids' \in Seq(Ids') /\ request_rows' \in Seq(Seq(Nat))
       /\ Len(request_rows') = Len(request_ids')
  BY <1>9, <1>11
<1>16. \A k \in 1..Len(request_ids') : Right(k)
  <2>1. \A k \in 1..Len(request_ids') : k = n + 1 \/ k \in 1..n BY <1>10, <1>11
  <2> HIDE DEF Right
  <2> QED BY <1>13, <1>14, <2>1
<1> QED BY <1>15, <1>16 DEF RowsBelong, Lens

LEMMA JoinKeepsOwn ==
  ASSUME OwnInv, JoinRollout \/ JoinEmpty
  PROVE  OwnInv'
<1> DEFINE id == Head(cmd_queue)
<1>1. /\ alive /\ rollout # 0 /\ cmd_queue # << >> /\ cmd_queue' = Tail(cmd_queue)
      /\ Join(id) /\ UNCHANGED <<submitted, deferred, rollout, alive>>
  BY DEF JoinRollout, JoinEmpty, Running
<1>2. id \in Ids /\ QueuesHoldIds' BY <1>1, HeadWasSubmitted DEF OwnInv
<1> HIDE DEF id
<1>3. Lens(id) \in Seq(PromptLens)
  <2>1. submitted[id] \in Shapes BY <1>2 DEF OwnInv, QueuesHoldIds, Ids
  <2> QED BY <2>1, ShapesAssumption DEF Lens
<1>4. prompts \in Seq(PromptLens) BY DEF OwnInv, BatchInv, BatchType
<1>5. CASE JoinRollout
  <2>1. Refill(Lens(id)) /\ results' = results BY <1>5 DEF JoinRollout, id
  <2>2. BatchInv' BY <1>3, <2>1, RefillKeepsBatch DEF OwnInv
  <2>3. prompts' = prompts \o Lens(id) BY <2>1 DEF Refill, AppendPrompts
  <2>4. RowsBelong' BY <1>1, <1>2, <1>3, <1>4, <2>3, JoinBelongs DEF OwnInv
  <2> QED BY <1>1, <1>2, <2>1, <2>2, <2>4 DEF OwnInv
<1>6. CASE JoinEmpty
  <2>1. UNCHANGED vars /\ results' = Append(results, Empty(id)) /\ Lens(id) = << >>
    BY <1>6 DEF JoinEmpty, id
  <2>2. BatchInv' BY <2>1, BatchSame DEF OwnInv
  <2>3. prompts' = prompts \o Lens(id)
    <3>1. prompts' = prompts BY <2>1 DEF vars, rows
    <3>2. prompts \o << >> = prompts BY <1>4
    <3> QED BY <2>1, <3>1, <3>2
  <2>4. RowsBelong' BY <1>1, <1>2, <1>3, <1>4, <2>3, JoinBelongs DEF OwnInv
  <2>5. PICK x : x = Empty(id) OBVIOUS
  <2>6. x.id = id /\ x.lens = << >> /\ x.tokens = << >> BY <2>5 DEF Empty
  <2>7. IsOwn(x, submitted) BY <1>2, <2>1, <2>6 DEF IsOwn, Ids, Lens
  <2>8. AllOwn(Append(results, x), submitted) BY <2>7, OneOwn DEF OwnInv
  <2> QED BY <1>1, <1>2, <2>1, <2>2, <2>4, <2>5, <2>8 DEF OwnInv
<1> QED BY <1>5, <1>6

LEMMA DeferKeepsOwn ==
  ASSUME OwnInv, DeferCommand
  PROVE  OwnInv'
<1>1. /\ rollout # 0 /\ cmd_queue # << >> /\ cmd_queue' = Tail(cmd_queue) /\ RefillEnds
      /\ deferred' = Append(deferred, Head(cmd_queue))
      /\ UNCHANGED <<submitted, rollout, request_ids, request_rows, results, alive>>
  BY DEF DeferCommand, Running, batch
<1>2. QueuesHoldIds'
  <2>1. Ids' = Ids BY <1>1 DEF Ids
  <2>2. \A q \in Seq(Ids) : q # << >> => Head(q) \in Ids /\ Tail(q) \in Seq(Ids) OBVIOUS
  <2> QED BY <1>1, <2>1, <2>2 DEF OwnInv, QueuesHoldIds
<1>3. BatchInv' BY <1>1, QuietKeepsBatch DEF OwnInv
<1>4. RowsBelong' BY <1>1, RowsBelongStill DEF OwnInv, RefillEnds, rows
<1> QED BY <1>1, <1>2, <1>3, <1>4 DEF OwnInv

LEMMA SubmitKeepsOwn ==
  ASSUME OwnInv, Submit
  PROVE  OwnInv'
<1>1. PICK s \in Shapes : submitted' = Append(submitted, s) BY DEF Submit
<1>2. /\ cmd_queue' = Append(cmd_queue, Len(submitted) + 1)
      /\ UNCHANGED <<vars, deferred, request_ids, request_rows, rollout, results, alive>>
  BY DEF Submit, batch
<1>3. submitted \in Seq(Shapes) /\ Len(submitted) \in Nat BY DEF OwnInv, QueuesHoldIds
<1>4. /\ submitted' \in Seq(Shapes) /\ Len(submitted') = Len(submitted) + 1
      /\ \A i \in Ids : submitted'[i] = submitted[i]
  BY <1>1, <1>3 DEF Ids
<1>5. Ids \subseteq Ids' /\ Len(submitted) + 1 \in Ids' BY <1>3, <1>4 DEF Ids
<1>6. QueuesHoldIds'
  <2>1. \A q \in Seq(Ids) : q \in Seq(Ids') BY <1>5
  <2> QED BY <1>2, <1>4, <1>5, <2>1 DEF OwnInv, QueuesHoldIds
<1>7. UNCHANGED <<prompts, pc>> /\ BatchInv' BY <1>2, BatchSame DEF OwnInv, vars, rows
<1>8. RowsBelong'
  <2>1. Row' = Row BY <1>7 DEF Row
  <2>2. request_ids \in Seq(Ids') BY <1>5 DEF OwnInv, RowsBelong
  <2>3. \A k \in 1..Len(request_ids) : submitted'[request_ids[k]] = submitted[request_ids[k]]
    BY <1>4 DEF OwnInv, RowsBelong
  <2>4. \A k \in 1..Len(request_ids) : Lens(request_ids[k])' = Lens(request_ids[k]) BY <1>2, <2>3 DEF Lens
  <2>5. RowsBelong BY DEF OwnInv
  <2>6. /\ request_rows' \in Seq(Seq(Nat)) /\ Len(request_rows') = Len(request_ids')
        /\ request_ids' = request_ids /\ request_rows' = request_rows
    BY <1>2, <2>5 DEF RowsBelong
  <2>7. ASSUME NEW k \in 1..Len(request_ids')
        PROVE  /\ Len(request_rows'[k]) = Len(Lens(request_ids[k])')
               /\ \A i \in 1..Len(request_rows'[k]) :
                    request_rows'[k][i] \in Row' /\ prompts'[request_rows'[k][i]] = Lens(request_ids[k])'[i]
    <3>1. k \in 1..Len(request_ids) /\ Lens(request_ids[k])' = Lens(request_ids[k]) BY <2>4, <2>6, <2>7
    <3>2. prompts' = prompts BY <1>7
    <3> QED BY <2>1, <2>5, <2>6, <3>1, <3>2 DEF RowsBelong
  <2> QED BY <2>2, <2>6, <2>7 DEF RowsBelong
<1>9. AllOwn(results', submitted')
  <2>1. \A x : IsOwn(x, submitted) => IsOwn(x, submitted')
    <3>1. ASSUME NEW x, IsOwn(x, submitted), x.ok PROVE x.id \in Ids /\ x.id \in Ids' /\ submitted'[x.id] = submitted[x.id]
      BY <1>4, <1>5, <3>1 DEF IsOwn, Ids
    <3> QED BY <3>1 DEF IsOwn, Ids
  <2> QED BY <1>2, <2>1 DEF OwnInv, AllOwn
<1> QED BY <1>2, <1>6, <1>7, <1>8, <1>9 DEF OwnInv

\* The answers that callbacks send, when the rows that stopped, and those that
\* are reported after the step, have their responses.
LEMMA SendKeepsOwn ==
  ASSUME OwnInv, rollout # 0, NEW stopped, SendFinished(stopped), UNCHANGED prompts, BatchInv',
         \A r \in Row : r \in stopped \/ finish_reason[r] # "none" =>
           /\ response_lens'[r] \in 1..MaxNewTokens
           /\ r \notin stopped /\ finish_reason[r] = "length" => response_lens'[r] = MaxNewTokens
  PROVE  OwnInv'
<1> DEFINE early  == [r \in Row |-> IF r \in stopped THEN "stop" ELSE finish_reason[r]]
           first  == IF stopped = {} THEN {} ELSE Complete(early)
           second == Complete(finish_reason') \ first
<1>1. /\ results' = results \o Answers(first, early) \o Answers(second, finish_reason')
      /\ UNCHANGED <<submitted, cmd_queue, deferred, rollout, request_ids, request_rows, alive>>
  BY DEF SendFinished, queues
<1>2. RowsBelong /\ submitted \in Seq(Shapes) /\ AllOwn(results, submitted) BY DEF OwnInv, QueuesHoldIds
<1>3. \A k \in 1..Len(request_ids) : \A i \in 1..Len(request_rows[k]) : request_rows[k][i] \in Row
  BY <1>2 DEF RowsBelong
<1>4. AllOwn(Answers(first, early), submitted)
  <2>1. first \subseteq 1..Len(request_ids) BY DEF Complete
  <2>2. ASSUME NEW k \in first, NEW i \in 1..Len(request_rows[k])
        PROVE  /\ response_lens'[request_rows[k][i]] \in 1..MaxNewTokens
               /\ early[request_rows[k][i]] = "length" => response_lens'[request_rows[k][i]] = MaxNewTokens
    <3>1. PICK r \in Row : r = request_rows[k][i] BY <1>3, <2>1
    <3>2. early[r] # "none" BY <2>2, <3>1 DEF Complete
    <3>3. early[r] = IF r \in stopped THEN "stop" ELSE finish_reason[r] OBVIOUS
    <3> HIDE DEF early, first
    <3> QED BY <3>1, <3>2, <3>3
  <2> HIDE DEF early, first
  <2> QED BY <1>2, <2>1, <2>2, AnswersOwn
<1>5. AllOwn(Answers(second, finish_reason'), submitted)
  <2>1. second \subseteq 1..Len(request_ids) BY DEF Complete
  <2>2. ASSUME NEW k \in second, NEW i \in 1..Len(request_rows[k])
        PROVE  /\ response_lens'[request_rows[k][i]] \in 1..MaxNewTokens
               /\ finish_reason'[request_rows[k][i]] = "length" => response_lens'[request_rows[k][i]] = MaxNewTokens
    <3>1. PICK r \in Row : r = request_rows[k][i] BY <1>3, <2>1
    <3>2. finish_reason'[r] # "none" BY <2>2, <3>1 DEF Complete
    <3>3. Row' = Row BY DEF Row
    <3>4. response_lens'[r] \in 0..MaxNewTokens BY <3>3 DEF BatchInv, BatchType
    <3>5. response_lens'[r] >= 1 /\ (finish_reason'[r] = "length" => response_lens'[r] = MaxNewTokens)
      BY <3>2, <3>3 DEF BatchInv, RowsTold
    <3>6. response_lens'[r] \in 1..MaxNewTokens BY <3>4, <3>5, SizesAssumption
    <3> QED BY <3>1, <3>5, <3>6
  <2> HIDE DEF second
  <2> QED BY <1>2, <2>1, <2>2, AnswersOwn
<1> HIDE DEF early, first, second
<1>6. AllOwn(results', submitted) BY <1>1, <1>2, <1>4, <1>5, JoinOwn
<1>7. QueuesHoldIds' BY <1>1 DEF OwnInv, QueuesHoldIds, Ids
<1>8. RowsBelong' BY <1>1, RowsBelongStill DEF OwnInv
<1> QED BY <1>1, <1>6, <1>7, <1>8 DEF OwnInv

LEMMA BatchStepKeepsOwn ==
  ASSUME OwnInv, PrefillAndSend \/ CancelAndSend \/ DecodeAndSend
  PROVE  OwnInv'
<1>0. BatchInv BY DEF OwnInv
<1>1. \A r \in Row : /\ response_lens[r] \in 0..MaxNewTokens
                     /\ finish_reason[r] # "none" =>
                          /\ r \notin active_rows /\ r \notin last_active /\ response_lens[r] >= 1
                          /\ finish_reason[r] = "length" => response_lens[r] = MaxNewTokens
  BY <1>0 DEF BatchInv, BatchType, RowsTold
<1>2. MaxNewTokens \in Nat \ {0} BY SizesAssumption
<1>3. \A n \in 0..MaxNewTokens : n >= 1 => n \in 1..MaxNewTokens BY <1>2
<1>4. active_rows \subseteq Row /\ last_active \subseteq Row
  <2>1. 1..pending_seq_id - 1 \subseteq Row BY <1>0 DEF BatchInv, BatchType, Row
  <2> QED BY <1>0, <2>1 DEF BatchInv, BatchType
<1>5. CASE PrefillAndSend
  <2>1. PICK stopped \in SUBSET last_active : PrefillSample(stopped) /\ SendFinished(stopped)
    BY <1>5 DEF PrefillAndSend
  <2>2. rollout # 0 /\ prompts' = prompts BY <1>5, <2>1 DEF PrefillAndSend, Running, PrefillSample
  <2>3. BatchInv' BY <1>0, <2>1, SampleKeepsBatch
  <2>4. response_lens' = [r \in Row |-> IF r \in last_active THEN 1 ELSE response_lens[r]]
    BY <2>1 DEF PrefillSample
  <2>5. ASSUME NEW r \in Row, r \in stopped \/ finish_reason[r] # "none"
        PROVE  /\ response_lens'[r] \in 1..MaxNewTokens
               /\ r \notin stopped /\ finish_reason[r] = "length" => response_lens'[r] = MaxNewTokens
    <3>1. CASE r \in stopped
      <4>1. response_lens'[r] = 1 BY <2>4, <3>1
      <4> QED BY <1>2, <3>1, <4>1
    <3>2. CASE r \notin stopped
      <4>1. response_lens'[r] = response_lens[r] BY <1>1, <2>4, <2>5, <3>2
      <4> QED BY <1>1, <1>3, <2>5, <3>2, <4>1
    <3> QED BY <3>1, <3>2
  <2> QED BY <2>1, <2>2, <2>3, <2>5, SendKeepsOwn
<1>6. CASE CancelAndSend
  <2>1. CancelRows /\ SendFinished({}) /\ rollout # 0 BY <1>6 DEF CancelAndSend, Running
  <2>2. prompts' = prompts
        /\ response_lens' = [r \in Row |-> IF r \in Cancelled THEN 1 ELSE response_lens[r]]
    BY <2>1 DEF CancelRows
  <2>3. BatchInv' BY <1>0, <2>1, CancelKeepsBatch
  <2>4. ASSUME NEW r \in Row, r \in {} \/ finish_reason[r] # "none"
        PROVE  /\ response_lens'[r] \in 1..MaxNewTokens
               /\ r \notin {} /\ finish_reason[r] = "length" => response_lens'[r] = MaxNewTokens
    <3>1. r \notin Cancelled BY <1>1, <2>4 DEF Cancelled
    <3>2. response_lens'[r] = response_lens[r] BY <2>2, <3>1
    <3> QED BY <1>1, <1>3, <2>4, <3>2
  <2> QED BY <2>1, <2>2, <2>3, <2>4, SendKeepsOwn
<1>7. CASE DecodeAndSend
  <2>1. PICK stopped \in SUBSET active_rows : Decode(stopped) /\ SendFinished(stopped)
    BY <1>7 DEF DecodeAndSend
  <2>2. rollout # 0 /\ prompts' = prompts BY <1>7, <2>1 DEF DecodeAndSend, Running, Decode
  <2>3. BatchInv' BY <1>0, <2>1, DecodeKeepsBatch
  <2>4. response_lens' =
           [r \in Row |-> IF r \in Cancelled THEN WithCancelToken(response_lens[r] + 1)
                          ELSE IF r \in active_rows THEN response_lens[r] + 1
                          ELSE response_lens[r]]
    BY <2>1 DEF Decode
  <2>5. ASSUME NEW r \in Row, r \in stopped \/ finish_reason[r] # "none"
        PROVE  /\ response_lens'[r] \in 1..MaxNewTokens
               /\ r \notin stopped /\ finish_reason[r] = "length" => response_lens'[r] = MaxNewTokens
    <3>1. CASE r \in stopped
      <4>1. r \in active_rows /\ response_lens[r] \in Nat /\ response_lens[r] < MaxNewTokens
        BY <1>0, <1>1, <3>1 DEF BatchInv, RowsTold
      <4>2. response_lens'[r] = WithCancelToken(response_lens[r] + 1) \/ response_lens'[r] = response_lens[r] + 1
        BY <2>4, <4>1
      <4> QED BY <1>2, <3>1, <4>1, <4>2 DEF WithCancelToken
    <3>2. CASE r \notin stopped
      <4>1. response_lens'[r] = response_lens[r] BY <1>1, <2>4, <2>5, <3>2 DEF Cancelled
      <4> QED BY <1>1, <1>3, <2>5, <3>2, <4>1
    <3> QED BY <3>1, <3>2
  <2> QED BY <2>1, <2>2, <2>3, <2>5, SendKeepsOwn
<1> QED BY <1>5, <1>6, <1>7

\* When the batch is over every row has a response, so the rest can be answered.
LEMMA FinishKeepsOwn ==
  ASSUME OwnInv, FinishRollout
  PROVE  OwnInv'
<1> DEFINE cut == [r \in Row |-> "truncated"]
<1>1. /\ pc = "done" /\ UNCHANGED vars /\ results' = results \o Answers(Unanswered, cut)
      /\ request_ids' = << >> /\ request_rows' = << >>
      /\ UNCHANGED <<submitted, cmd_queue, deferred, alive>>
  BY DEF FinishRollout, queues
<1>2. UNCHANGED <<prompts, pc, response_lens>> /\ BatchInv' BY <1>1, BatchSame DEF OwnInv, vars, rows
<1>3. RowsBelong /\ submitted \in Seq(Shapes) /\ AllOwn(results, submitted) BY DEF OwnInv, QueuesHoldIds
<1>4. \A r \in Row : response_lens'[r] \in 1..MaxNewTokens
  <2>1. last_active = {} /\ pending_seq_id > Len(prompts) BY <1>1 DEF OwnInv, BatchInv, StagesTold
  <2>2. pending_seq_id \in Nat /\ Len(prompts) \in Nat BY DEF OwnInv, BatchInv, BatchType
  <2>3. \A r \in Row : r < pending_seq_id BY <2>1, <2>2 DEF Row
  <2>4. \A r \in Row : response_lens[r] \in 0..MaxNewTokens /\ response_lens[r] >= 1
    BY <2>1, <2>3 DEF OwnInv, BatchInv, BatchType, RowsTold
  <2> QED BY <1>2, <2>4, SizesAssumption
<1>5. AllOwn(Answers(Unanswered, cut), submitted)
  <2>1. Unanswered \subseteq 1..Len(request_ids) BY DEF Unanswered
  <2>2. ASSUME NEW k \in Unanswered, NEW i \in 1..Len(request_rows[k])
        PROVE  /\ response_lens'[request_rows[k][i]] \in 1..MaxNewTokens
               /\ cut[request_rows[k][i]] = "length" => response_lens'[request_rows[k][i]] = MaxNewTokens
    <3>1. PICK r \in Row : r = request_rows[k][i] BY <1>3, <2>1 DEF RowsBelong
    <3>2. cut[r] = "truncated" OBVIOUS
    <3> QED BY <1>4, <3>1, <3>2
  <2> HIDE DEF cut
  <2> QED BY <1>3, <2>1, <2>2, AnswersOwn
<1> HIDE DEF cut
<1>6. AllOwn(results', submitted) BY <1>1, <1>3, <1>5, JoinOwn
<1>7. QueuesHoldIds' BY <1>1 DEF OwnInv, QueuesHoldIds, Ids
<1>8. RowsBelong'
  <2>1. << >> \in Seq(Ids') /\ << >> \in Seq(Seq(Nat)) /\ Len(<< >>) = 0 OBVIOUS
  <2> QED BY <1>1, <2>1 DEF RowsBelong
<1> QED BY <1>1, <1>2, <1>6, <1>7, <1>8 DEF OwnInv

LEMMA FailsKeepsOwn ==
  ASSUME OwnInv, WorkerInv, RolloutFails
  PROVE  OwnInv'
<1> DEFINE ids == FailedRequests
           fs == [i \in 1..Len(ids) |-> Failed(ids[i])]
<1>1. /\ ~alive' /\ results' = results \o fs
      /\ UNCHANGED <<vars, submitted, cmd_queue, deferred, rollout, request_ids, request_rows>>
  BY DEF RolloutFails, queues, batch
<1>2. ids \in Seq(Nat) BY DEF WorkerInv, WorkerType, FailedRequests
<1>3. AllOwn(fs, submitted)
  <2> HIDE DEF ids
  <2> QED BY <1>2, FailuresOwn
<1> HIDE DEF fs, ids
<1>4. AllOwn(results', submitted) BY <1>1, <1>3, JoinOwn DEF OwnInv
<1>5. QueuesHoldIds' BY <1>1 DEF OwnInv, QueuesHoldIds, Ids
<1>6. UNCHANGED prompts /\ BatchInv' BY <1>1, BatchSame DEF OwnInv, vars, rows
<1>7. RowsBelong' BY <1>1, <1>6, RowsBelongStill DEF OwnInv
<1> QED BY <1>1, <1>4, <1>5, <1>6, <1>7 DEF OwnInv

LEMMA NextKeepsOwn ==
  ASSUME OwnInv, WorkerInv, [CNext]_allvars
  PROVE  OwnInv'
<1>0. BatchInv BY DEF OwnInv
<1>1. CASE WorkerStep
  <2>1. ASSUME NEW id \in 1..Len(submitted), Serve(id) PROVE OwnInv' BY <2>1, ServeKeepsOwn
  <2>2. ASSUME NEW id \in 1..Len(submitted), StartRollout(id) PROVE OwnInv' BY <2>2, StartKeepsOwn
  <2>3. CASE JoinRollout \/ JoinEmpty BY <2>3, JoinKeepsOwn
  <2>4. CASE DeferCommand BY <2>4, DeferKeepsOwn
  <2>5. CASE QueueEmpty
    <3>1. RefillEnds /\ UNCHANGED wvars /\ rollout # 0 BY <2>5 DEF QueueEmpty, Running
    <3> QED BY <1>0, <3>1, QuietKeepsBatch, OwnSame DEF RefillEnds, rows
  <2>6. CASE PrefillAndSend \/ CancelAndSend \/ DecodeAndSend BY <2>6, BatchStepKeepsOwn
  <2>7. CASE QuietStep
    <3>1. UNCHANGED wvars /\ rollout # 0 BY <2>7 DEF QuietStep, Running
    <3>2. CASE PackRow BY <1>0, <3>1, <3>2, PackKeepsBatch, OwnSame DEF PackRow, rows
    <3>3. CASE BuildEnds \/ PrefillChunk \/ FreeRow \/ LoopTest \/ EnsureRow
      <4>1. prompts' = prompts BY <3>3 DEF BuildEnds, PrefillChunk, FreeRow, LoopTest, EnsureRow, rows
      <4> QED BY <1>0, <3>1, <3>3, <4>1, QuietKeepsBatch, OwnSame
    <3> QED BY <2>7, <3>2, <3>3 DEF QuietStep
  <2>8. CASE FinishRollout BY <2>8, FinishKeepsOwn
  <2> QED BY <1>1, <2>1, <2>2, <2>3, <2>4, <2>5, <2>6, <2>7, <2>8 DEF WorkerStep
<1>2. ASSUME NEW id \in 1..Len(submitted), ServeFails(id) PROVE OwnInv' BY <1>2, ServeKeepsOwn
<1>3. CASE RolloutFails BY <1>3, FailsKeepsOwn
<1>4. CASE Submit BY <1>4, SubmitKeepsOwn
<1>5. CASE Cancel
  <2>1. /\ UNCHANGED wvars /\ rollout # 0 /\ \E r \in Row : RaiseCancel(r) BY <1>5 DEF Cancel, Running
  <2>2. prompts' = prompts BY <2>1 DEF RaiseCancel, rows
  <2> QED BY <1>0, <2>1, <2>2, QuietKeepsBatch, OwnSame
<1>6. CASE Waiting \/ UNCHANGED allvars
  <2>1. UNCHANGED wvars /\ UNCHANGED vars BY <1>6 DEF Waiting, allvars
  <2>2. UNCHANGED <<prompts, pc>> BY <2>1 DEF vars, rows
  <2> QED BY <1>0, <2>1, <2>2, BatchSame, OwnSame
<1> QED BY <1>1, <1>2, <1>3, <1>4, <1>5, <1>6 DEF CNext

LEMMA InitOwn == CInit => OwnInv
<1> SUFFICES ASSUME CInit PROVE OwnInv
  OBVIOUS
<1>1. /\ prompts = << >> /\ max_prefill_tokens = 1 /\ packed = 0 /\ cursor = 0 /\ pending_seq_id = 1
      /\ response_lens = << >> /\ finish_reason = << >> /\ active_rows = {} /\ last_active = {} /\ pc = "done"
      /\ submitted = << >> /\ cmd_queue = << >> /\ deferred = << >> /\ request_ids = << >> /\ request_rows = << >>
      /\ results = << >>
  BY DEF CInit, WorkerInit
<1>2. Len(prompts) = 0 /\ Row = {} BY <1>1 DEF Row
<1>3. BatchInv
  <2>1. response_lens \in [Row -> 0..MaxNewTokens] /\ finish_reason \in [Row -> Reasons] BY <1>1, <1>2
  <2>2. BatchType BY <1>1, <1>2, <2>1 DEF BatchType
  <2> QED BY <1>1, <1>2, <2>2 DEF BatchInv, RowsTold, StagesTold
<1>4. RowsBelong /\ QueuesHoldIds BY <1>1 DEF RowsBelong, QueuesHoldIds
<1>5. AllOwn(results, submitted) BY <1>1 DEF AllOwn
<1> QED BY <1>1, <1>3, <1>4, <1>5 DEF OwnInv

\* Whoever shares the batch, joins it late or is cancelled in it, a rollout is
\* answered with its own prompts in its own order, and only when every one of
\* its rows has a response (run_continuous_rollout_payload, send_finished).
THEOREM AnswersAreOwn == CSpec => []OwnAnswer
<1>1. CInit => WorkerInv /\ OwnInv BY InitWorker, InitOwn
<1>2. WorkerInv /\ OwnInv /\ [CNext]_allvars => (WorkerInv /\ OwnInv)' BY NextKeepsWorker, NextKeepsOwn
<1>3. WorkerInv /\ OwnInv => OwnAnswer
  <2> SUFFICES ASSUME OwnInv PROVE OwnAnswer
    OBVIOUS
  <2>1. \A i \in 1..Len(results) : IsOwn(results[i], submitted) BY DEF OwnInv, AllOwn
  <2> QED BY <2>1 DEF IsOwn, OwnAnswer, Op, Lens
<1> QED BY <1>1, <1>2, <1>3, PTL DEF CSpec

-----------------------------------------------------------------------------
(* The rows that join a batch fit it                                       *)

\* Every row fits the cache, and the pool has a full table for every running row.
Roomy ==
  /\ \A r \in Row : prompts[r] + MaxNewTokens <= max_cache_len
  /\ num_cache_blocks >= max_running_seqs * MaxBlocksPerSeq

SchedInv == TypeInv /\ PoolOK /\ BoundsOK /\ QuietOK /\ Roomy

LEMMA SchedSame == SchedInv /\ UNCHANGED vars => SchedInv'
<1> SUFFICES ASSUME SchedInv, UNCHANGED vars PROVE SchedInv'
  OBVIOUS
<1>1. [Next]_vars OBVIOUS
<1>2. TypeInv' /\ PoolOK' /\ BoundsOK' /\ QuietOK'
  BY <1>1, NextType, NextPool, NextBounds, NextQuiet DEF SchedInv
<1>3. Roomy' BY DEF SchedInv, Roomy, vars, sizes, rows, Row, MaxBlocksPerSeq
<1> QED BY <1>2, <1>3 DEF SchedInv

\* A step of the batch that adds no rows is a step of the scheduler.
LEMMA BatchStepKeepsSched ==
  ASSUME SchedInv, Next, UNCHANGED prompts
  PROVE  SchedInv'
<1>1. TypeInv' /\ PoolOK' /\ BoundsOK' /\ QuietOK'
  BY NextType, NextPool, NextBounds, NextQuiet DEF SchedInv
<1>2. UNCHANGED sizes BY PoolMoves DEF SchedInv
<1>3. Roomy' BY <1>2 DEF SchedInv, Roomy, sizes, Row, MaxBlocksPerSeq
<1> QED BY <1>1, <1>3 DEF SchedInv

\* A payload's cache holds the longest prompt of its chunk with its response.
LEMMA PayloadFits ==
  ASSUME submitted \in Seq(Shapes), NEW id \in 1..Len(submitted)
  PROVE  /\ Lens(id) \in Seq(PromptLens)
         /\ PayloadCacheLen(id) \in Nat \ {0}
         /\ \A i \in 1..Len(Lens(id)) : Lens(id)[i] + MaxNewTokens <= PayloadCacheLen(id)
         /\ submitted[id].widest \in 1..LocalMaxRunning
<1>1. submitted[id] \in Shapes BY DEF Ids
<1> DEFINE s == submitted[id]
<1> HIDE DEF s
<1>2. /\ s.lens \in Seq(PromptLens) /\ s.longest \in PromptLens /\ s.widest \in 1..LocalMaxRunning
      /\ \A i \in 1..Len(s.lens) : s.lens[i] <= s.longest
  BY <1>1, ShapesAssumption DEF s
<1>3. /\ s.longest \in Nat \ {0} /\ RolloutMaxPromptLen \in Nat \ {0} /\ MaxNewTokens \in Nat \ {0}
      /\ \A x \in PromptLens : x \in Nat
  BY <1>2, SizesAssumption
<1> DEFINE top == IF s.longest >= RolloutMaxPromptLen THEN s.longest ELSE RolloutMaxPromptLen
<1>4. PayloadCacheLen(id) = MaxNewTokens + top BY DEF PayloadCacheLen, s
<1>5. top \in Nat \ {0} /\ s.longest <= top BY <1>3
<1> HIDE DEF top
<1>6. \A i \in 1..Len(s.lens) : s.lens[i] \in Nat BY <1>2, <1>3
<1>7. \A i \in 1..Len(s.lens) : s.lens[i] + MaxNewTokens <= MaxNewTokens + top
  <2>1. ASSUME NEW i \in 1..Len(s.lens) PROVE s.lens[i] + MaxNewTokens <= MaxNewTokens + top
    <3>1. s.lens[i] <= s.longest /\ s.lens[i] \in Nat BY <1>2, <1>6
    <3> QED BY <1>3, <1>5, <3>1
  <2> QED BY <2>1
<1>8. MaxNewTokens + top \in Nat \ {0} BY <1>3, <1>5
<1> QED BY <1>2, <1>4, <1>7, <1>8 DEF Lens, s

\* The commands that wait were submitted.
LEMMA HeadFits ==
  ASSUME OwnInv, cmd_queue # << >>
  PROVE  Head(cmd_queue) \in 1..Len(submitted)
BY DEF OwnInv, QueuesHoldIds, Ids

LEMMA JoinKeepsSched ==
  ASSUME SchedInv, OwnInv, JoinRollout
  PROVE  SchedInv'
<1> DEFINE id == Head(cmd_queue)
           lens == Lens(id)
<1>1. Joinable(id) /\ Refill(lens) /\ cmd_queue # << >> BY DEF JoinRollout
<1>2. id \in 1..Len(submitted) /\ submitted \in Seq(Shapes)
  BY <1>1, HeadFits DEF OwnInv, QueuesHoldIds
<1>3. /\ lens \in Seq(PromptLens)
      /\ \A i \in 1..Len(lens) : lens[i] + MaxNewTokens <= PayloadCacheLen(id)
      /\ PayloadCacheLen(id) \in Nat
  BY <1>2, PayloadFits
<1>4. PayloadCacheLen(id) <= max_cache_len BY <1>1 DEF Joinable
<1> HIDE DEF id, lens
<1>5. TypeInv' BY <1>1, <1>3, RefillType DEF SchedInv
<1>6. UNCHANGED <<sizes, pool, admission, payload, active_rows, pc, todo>> /\ AppendPrompts(lens)
  BY <1>1 DEF Refill
<1>7. PoolOK'
  <2>1. UNCHANGED <<free_blocks, seq_to_blocks, Block>> BY <1>6 DEF pool, sizes, Block
  <2> QED BY <2>1 DEF SchedInv, PoolOK, FreeDistinct, HeldDistinct, FreeNotHeld, FreeOrHeld
<1>8. BoundsOK' BY <1>6 DEF SchedInv, BoundsOK, pool, sizes, payload, MaxBlocksPerSeq
<1>9. QuietOK' BY <1>6 DEF SchedInv, QuietOK
<1>10. Roomy'
  <2>1. prompts \in Seq(PromptLens) /\ prompts' = prompts \o lens
    BY <1>6 DEF SchedInv, TypeInv, TypeOK, AppendPrompts
  <2>2. /\ Len(prompts') = Len(prompts) + Len(lens)
        /\ Len(prompts) \in Nat /\ Len(lens) \in Nat
        /\ \A i \in 1..Len(prompts) : prompts'[i] = prompts[i]
        /\ \A i \in 1..Len(lens) : prompts'[Len(prompts) + i] = lens[i]
    BY <1>3, <2>1, ConcatFacts
  <2>3. UNCHANGED <<max_cache_len, max_running_seqs, num_cache_blocks, MaxBlocksPerSeq>>
    BY <1>6 DEF sizes, MaxBlocksPerSeq
  <2>4. \A i \in 1..Len(lens) : lens[i] + MaxNewTokens <= max_cache_len
    <3>1. ASSUME NEW i \in 1..Len(lens) PROVE lens[i] + MaxNewTokens <= max_cache_len
      <4>1. lens[i] \in Nat
        <5>1. lens[i] \in PromptLens BY <1>3
        <5> QED BY <5>1, SizesAssumption
      <4>2. max_cache_len \in Nat /\ MaxNewTokens \in Nat BY SizesAssumption DEF SchedInv, TypeInv, TypeOK
      <4>3. lens[i] + MaxNewTokens <= PayloadCacheLen(id) BY <1>3
      <4> QED BY <1>3, <1>4, <4>1, <4>2, <4>3
    <3> QED BY <3>1
  <2>5. ASSUME NEW r \in Row' PROVE prompts'[r] + MaxNewTokens <= max_cache_len'
    <3>1. CASE r \in Row BY <2>2, <2>3, <3>1 DEF SchedInv, Roomy, Row
    <3>2. CASE r \notin Row
      <4>1. r - Len(prompts) \in 1..Len(lens) /\ Len(prompts) + (r - Len(prompts)) = r
        BY <2>2, <3>2 DEF Row
      <4>2. prompts'[r] = lens[r - Len(prompts)] BY <2>2, <4>1
      <4> QED BY <2>3, <2>4, <4>1, <4>2
    <3> QED BY <3>1, <3>2
  <2> QED BY <2>3, <2>5 DEF SchedInv, Roomy
<1> QED BY <1>5, <1>7, <1>8, <1>9, <1>10 DEF SchedInv

\* A batch in which nothing has been admitted, over a pool in order.
Fresh ==
  /\ Roomy
  /\ max_running_seqs \in Nat \ {0} /\ max_cache_len \in Nat \ {0}
  /\ max_prefill_tokens \in Nat \ {0} /\ num_cache_blocks \in Nat \ {0}
  /\ prompts \in Seq(PromptLens) /\ pending_seq_id = 1 /\ cursor = 0
  /\ free_blocks = [i \in 1..num_cache_blocks |-> i - 1]
  /\ seq_to_blocks = [r \in {} |-> << >>]
  /\ packed \in Nat /\ last_active = {} /\ active_rows = {}
  /\ response_lens = Zeros(Len(prompts)) /\ cache_seqlens = Zeros(Len(prompts))
  /\ finish_reason = Blanks(Len(prompts))
  /\ cancel_flags = {} /\ sample_step \in Nat /\ pc \in {"refill", "done"} /\ todo = {}

LEMMA FreshIsSched == Fresh => SchedInv
<1> SUFFICES ASSUME Fresh PROVE SchedInv
  OBVIOUS
<1> USE DEF Fresh
<1>1. TypeInv
  <2>1. free_blocks \in Seq(Block) BY IsASeq DEF Block
  <2>2. /\ response_lens \in [Row -> 0..MaxNewTokens]
        /\ cache_seqlens \in [Row -> Nat]
        /\ finish_reason \in [Row -> {"none", "stop", "length", "cancelled"}]
    BY SizesAssumption DEF Row, Zeros, Blanks
  <2>3. seq_to_blocks \in [DOMAIN seq_to_blocks -> Seq(Block)] /\ DOMAIN seq_to_blocks = {}
    OBVIOUS
  <2>4. Len(prompts) \in Nat OBVIOUS
  <2>5. TypeOK BY <2>1, <2>2, <2>3, <2>4 DEF TypeOK, Stages
  <2>6. RowsOK BY DEF RowsOK
  <2> QED BY <2>5, <2>6 DEF TypeInv
<1>2. PoolOK
  <2>1. Len(free_blocks) = num_cache_blocks OBVIOUS
  <2>2. FreeDistinct BY <2>1 DEF FreeDistinct
  <2>3. HeldDistinct /\ FreeNotHeld BY DEF HeldDistinct, FreeNotHeld
  <2>4. ASSUME NEW b \in Block PROVE \E i \in 1..Len(free_blocks) : free_blocks[i] = b
    <3>1. b + 1 \in 1..num_cache_blocks /\ (b + 1) - 1 = b BY DEF Block
    <3>2. free_blocks[b + 1] = b BY <3>1
    <3> QED BY <2>1, <3>1, <3>2
  <2> QED BY <2>2, <2>3, <2>4 DEF PoolOK, FreeOrHeld
<1>3. BoundsOK
  <2>1. DOMAIN seq_to_blocks = {} OBVIOUS
  <2>2. Cardinality(DOMAIN seq_to_blocks) = 0 BY <2>1, FS_EmptySet
  <2> QED BY <2>1, <2>2 DEF BoundsOK
<1>4. QuietOK BY DEF QuietOK
<1> QED BY <1>1, <1>2, <1>3, <1>4 DEF SchedInv

LEMMA InitSched == CInit => SchedInv
<1> SUFFICES ASSUME CInit PROVE SchedInv
  OBVIOUS
<1>1. /\ max_running_seqs = 1 /\ max_cache_len = 1 /\ max_prefill_tokens = 1 /\ num_cache_blocks = 1
      /\ prompts = << >> /\ pending_seq_id = 1 /\ cursor = 0
      /\ free_blocks = <<0>> /\ seq_to_blocks = [r \in {} |-> << >>]
      /\ packed = 0 /\ last_active = {} /\ active_rows = {}
      /\ response_lens = << >> /\ cache_seqlens = << >> /\ finish_reason = << >>
      /\ cancel_flags = {} /\ sample_step = 1 /\ pc = "done" /\ todo = {}
  BY DEF CInit
<1>2. Len(prompts) = 0 /\ prompts \in Seq(PromptLens) BY <1>1
<1>3. Row = {} BY <1>2 DEF Row
<1>4. MaxBlocksPerSeq = 1
  <2>1. \A d \in Nat \ {0} : d \div d = 1
    <3>1. ASSUME NEW d \in Nat \ {0} PROVE d \div d = 1 OBVIOUS
    <3> QED BY <3>1
  <2>2. BlockSize \in Nat \ {0} /\ 1 + BlockSize - 1 = BlockSize BY SizesAssumption
  <2> QED BY <1>1, <2>1, <2>2 DEF MaxBlocksPerSeq, CeilDiv
<1>5. Roomy BY <1>1, <1>3, <1>4 DEF Roomy
<1>6. free_blocks = [i \in 1..num_cache_blocks |-> i - 1] BY <1>1
<1>7. /\ response_lens = Zeros(Len(prompts)) /\ cache_seqlens = Zeros(Len(prompts))
      /\ finish_reason = Blanks(Len(prompts))
  BY <1>1, <1>2 DEF Zeros, Blanks
<1>8. Fresh BY <1>1, <1>2, <1>5, <1>6, <1>7 DEF Fresh
<1> QED BY <1>8, FreshIsSched

\* A rollout that starts gets a pool of its own, sized for it.
LEMMA StartKeepsSched ==
  ASSUME SchedInv, OwnInv, NEW id \in 1..Len(submitted), StartRollout(id)
  PROVE  SchedInv'
<1>1. alive /\ rollout = 0 BY DEF StartRollout, Idle
<1>2. pc = "done" BY <1>1 DEF OwnInv
<1>3. todo = {} /\ active_rows = {} /\ last_active = {} /\ packed \in Nat
  BY <1>2 DEF SchedInv, QuietOK, TypeInv, TypeOK, RowsOK
<1>4. /\ max_running_seqs' \in {LocalMaxRunning, submitted[id].widest}
      /\ max_cache_len' = PayloadCacheLen(id)
      /\ max_prefill_tokens' = LocalMaxRunning * RolloutMaxPromptLen
      /\ num_cache_blocks' = max_running_seqs' * CeilDiv(max_cache_len', BlockSize)
      /\ prompts' = Lens(id) /\ pending_seq_id' = 1 /\ cursor' = 0
      /\ free_blocks' = [i \in 1..num_cache_blocks' |-> i - 1]
      /\ seq_to_blocks' = [r \in {} |-> << >>]
      /\ response_lens' = Zeros(Len(Lens(id))) /\ cache_seqlens' = Zeros(Len(Lens(id)))
      /\ finish_reason' = Blanks(Len(Lens(id)))
      /\ cancel_flags' = {} /\ sample_step' = 1 /\ pc' = "refill"
      /\ UNCHANGED <<packed, last_active, active_rows, todo>>
  BY DEF StartRollout, payload
<1>5. /\ Lens(id) \in Seq(PromptLens) /\ PayloadCacheLen(id) \in Nat \ {0}
      /\ \A i \in 1..Len(Lens(id)) : Lens(id)[i] + MaxNewTokens <= PayloadCacheLen(id)
      /\ submitted[id].widest \in 1..LocalMaxRunning
  BY PayloadFits DEF OwnInv, QueuesHoldIds
<1>6. max_running_seqs' \in Nat \ {0}
  <2>1. LocalMaxRunning \in Nat \ {0} BY SizesAssumption
  <2> QED BY <1>4, <1>5, <2>1
<1>7. MaxBlocksPerSeq' \in Nat \ {0} /\ MaxBlocksPerSeq' = CeilDiv(max_cache_len', BlockSize)
  <2>1. MaxBlocksPerSeq' = CeilDiv(max_cache_len', BlockSize) BY DEF MaxBlocksPerSeq, CeilDiv
  <2> QED BY <1>4, <1>5, <2>1, CeilDivFacts, SizesAssumption
<1>8. num_cache_blocks' = max_running_seqs' * MaxBlocksPerSeq' BY <1>4, <1>7
<1>9. num_cache_blocks' \in Nat \ {0} BY <1>6, <1>7, <1>8, ProductPositive
<1>10. max_prefill_tokens' \in Nat \ {0} BY <1>4, SizesAssumption, ProductPositive
<1>11. Roomy'
  <2>1. \A r \in Row' : prompts'[r] + MaxNewTokens <= max_cache_len' BY <1>4, <1>5 DEF Row
  <2>2. num_cache_blocks' >= max_running_seqs' * MaxBlocksPerSeq'
    <3>1. num_cache_blocks' \in Nat BY <1>9
    <3> QED BY <1>8, <3>1
  <2> QED BY <2>1, <2>2 DEF Roomy
<1>12. /\ response_lens' = Zeros(Len(prompts')) /\ cache_seqlens' = Zeros(Len(prompts'))
       /\ finish_reason' = Blanks(Len(prompts')) /\ prompts' \in Seq(PromptLens)
       /\ packed' \in Nat /\ last_active' = {} /\ active_rows' = {} /\ todo' = {}
       /\ max_cache_len' \in Nat \ {0} /\ sample_step' \in Nat
  BY <1>3, <1>4, <1>5
<1>13. Zeros(Len(prompts))' = Zeros(Len(prompts')) /\ Blanks(Len(prompts))' = Blanks(Len(prompts'))
  BY DEF Zeros, Blanks
<1>14. Fresh' BY <1>4, <1>6, <1>9, <1>10, <1>11, <1>12, <1>13 DEF Fresh
<1> QED BY <1>14, FreshIsSched, PTL

LEMMA NextKeepsSched ==
  ASSUME SchedInv, OwnInv, [CNext]_allvars
  PROVE  SchedInv'
<1>1. CASE WorkerStep
  <2>1. ASSUME NEW id \in 1..Len(submitted), Serve(id) PROVE SchedInv' BY <2>1, SchedSame DEF Serve
  <2>2. ASSUME NEW id \in 1..Len(submitted), StartRollout(id) PROVE SchedInv' BY <2>2, StartKeepsSched
  <2>3. CASE JoinRollout BY <2>3, JoinKeepsSched
  <2>4. CASE JoinEmpty BY <2>4, SchedSame DEF JoinEmpty
  <2>5. CASE DeferCommand \/ QueueEmpty
    <3>1. RefillEnds BY <2>5 DEF DeferCommand, QueueEmpty
    <3>2. Next BY <3>1 DEF Next, LoopStep
    <3> QED BY <3>1, <3>2, BatchStepKeepsSched DEF RefillEnds, rows
  <2>6. CASE PrefillAndSend
    <3>1. PICK stopped \in SUBSET last_active : PrefillSample(stopped) BY <2>6 DEF PrefillAndSend
    <3>2. Next BY <3>1 DEF Next, LoopStep, SampleSome
    <3> QED BY <3>1, <3>2, BatchStepKeepsSched DEF PrefillSample
  <2>7. CASE CancelAndSend
    <3>1. CancelRows BY <2>7 DEF CancelAndSend
    <3>2. Next BY <3>1 DEF Next, LoopStep
    <3> QED BY <3>1, <3>2, BatchStepKeepsSched DEF CancelRows
  <2>8. CASE DecodeAndSend
    <3>1. PICK stopped \in SUBSET active_rows : Decode(stopped) BY <2>8 DEF DecodeAndSend
    <3>2. Next BY <3>1 DEF Next, LoopStep, DecodeSome
    <3> QED BY <3>1, <3>2, BatchStepKeepsSched DEF Decode
  <2>9. CASE QuietStep
    <3>1. BuildEnds \/ PackRow \/ PrefillChunk \/ FreeRow \/ LoopTest \/ EnsureRow
      BY <2>9 DEF QuietStep
    <3>2. Next BY <3>1 DEF Next, LoopStep
    <3>3. UNCHANGED prompts BY <3>1 DEF BuildEnds, PackRow, PrefillChunk, FreeRow, LoopTest, EnsureRow, rows
    <3> QED BY <3>2, <3>3, BatchStepKeepsSched
  <2>10. CASE FinishRollout BY <2>10, SchedSame DEF FinishRollout
  <2> QED BY <1>1, <2>1, <2>2, <2>3, <2>4, <2>5, <2>6, <2>7, <2>8, <2>9, <2>10 DEF WorkerStep
<1>2. ASSUME NEW id \in 1..Len(submitted), ServeFails(id) PROVE SchedInv' BY <1>2, SchedSame DEF ServeFails
<1>3. CASE RolloutFails BY <1>3, SchedSame DEF RolloutFails
<1>4. CASE Submit BY <1>4, SchedSame DEF Submit
<1>5. CASE Cancel
  <2>1. PICK r \in Row : RaiseCancel(r) BY <1>5 DEF Cancel
  <2>2. Next BY <2>1 DEF Next
  <2> QED BY <2>1, <2>2, BatchStepKeepsSched DEF RaiseCancel, rows
<1>6. CASE Waiting \/ UNCHANGED allvars BY <1>6, SchedSame DEF Waiting, allvars
<1> QED BY <1>1, <1>2, <1>3, <1>4, <1>5, <1>6 DEF CNext

LEMMA InvFits == SchedInv => JoinersFit
<1> SUFFICES ASSUME SchedInv PROVE JoinersFit
  OBVIOUS
<1>1. /\ num_cache_blocks >= max_running_seqs * MaxBlocksPerSeq
      /\ \A r \in Row : prompts[r] + MaxNewTokens <= max_cache_len
  BY DEF SchedInv, Roomy
<1>2. ASSUME CanPack PROVE ChunkBlocks <= Len(free_blocks)
  <2>1. MaxBlocksPerSeq \in Nat BY TableWidth DEF SchedInv, TypeInv
  <2> QED BY <1>1, <1>2, <2>1, ChunkFits, Room DEF SchedInv, TypeInv, BoundsOK
<1>3. ASSUME pc = "ensure", NEW r \in todo PROVE DecodeBlocks(r) <= Len(free_blocks)
  <2>1. r \in active_rows /\ r \in Row BY <1>3 DEF SchedInv, TypeInv, TypeOK, RowsOK
  <2>2. Cardinality(DOMAIN seq_to_blocks \cup {r}) <= max_running_seqs
    <3>1. DOMAIN seq_to_blocks \cup {r} = DOMAIN seq_to_blocks BY <2>1, DecodeFits DEF SchedInv
    <3> QED BY <3>1 DEF SchedInv, BoundsOK
  <2> QED BY <1>1, <2>1, <2>2, DecodeFits, TableWidth, Room DEF SchedInv, TypeInv, BoundsOK
<1> QED BY <1>1, <1>2, <1>3 DEF JoinersFit

\* Whatever compatible commands join a batch, its cache has room for their rows and
\* its pool for every block they ask for (_rollout_payloads_compatible, the sizes of
\* generate_rollout_async): none of the errors of rollout_state.py can be raised.
THEOREM JoinersAlwaysFit == CSpec => []JoinersFit
<1>1. CInit => WorkerInv /\ OwnInv /\ SchedInv BY InitWorker, InitOwn, InitSched
<1>2. WorkerInv /\ OwnInv /\ SchedInv /\ [CNext]_allvars => WorkerInv' /\ OwnInv' /\ SchedInv'
  BY NextKeepsWorker, NextKeepsOwn, NextKeepsSched
<1>3. SchedInv => JoinersFit BY InvFits
<1> QED BY <1>1, <1>2, <1>3, PTL DEF CSpec
=============================================================================
