--------------------------- MODULE DataPlanProofs ---------------------------
(***************************************************************************)
(* Three theorems about how data is divided and put together again.        *)
(* From the turns of a rollout to a batch of rows, for any contexts,       *)
(* responses and rewards, and any number of turns: a trained token is one  *)
(* that was sampled in a turn of its own trajectory, with its own          *)
(* log-probability, and the advantages of a prompt add up to nothing.      *)
(* From a request to its answers, for any rows, ranks, chunks, cursors and *)
(* microbatches: every row is answered at its own place.                   *)
(* From the parameters to the shards of their optimizer and back, for any  *)
(* parameters, ranks, chunks, buckets, gradients and history: every rank   *)
(* has the one model, which full masters make that of a single rank.       *)
(***************************************************************************)
EXTENDS DataParallel, TrajectoryRows, OptimizerShards, InductionFacts, FiniteSetTheorems

-----------------------------------------------------------------------------
(* Advantages                                                              *)

\* compute_group_advantages: within a group they add up to nothing.
LEMMA GroupSumsToZero ==
  ASSUME NEW S, IsFiniteSet(S), NEW f, \A x \in S : f[x] \in Int,
         NEW g, \A x \in S : g[x] = Advantage(f, S, x)
  PROVE  SumFunctionOnSet(g, S) = 0
<1> DEFINE c == Cardinality(S)  d == SumFunctionOnSet(f, S)
<1>1. c \in Int BY FS_CardinalityType
<1>2. d \in Int BY SumType
<1>3. \A x \in S : g[x] = c * f[x] - d BY DEF Advantage
<1> HIDE DEF c, d
<1>4. SumFunctionOnSet(g, S) = c * SumFunctionOnSet(f, S) - Cardinality(S) * d BY <1>1, <1>2, <1>3, SumLinear
<1>5. SumFunctionOnSet(g, S) = c * d - c * d BY <1>4 DEF c, d
<1>6. c * d \in Int BY <1>1, <1>2
<1> QED BY <1>5, <1>6

-----------------------------------------------------------------------------
(* The rows of a trajectory                                                *)

TurnSet == [item : Items, context : Seq(Nat), response : Seq(Nat), trained : Nat]
RowSet == [item : Items, token : Seq(Nat), response : Seq(BOOLEAN), loss : Seq(BOOLEAN),
           logprob : Seq(Nat \X Nat)]

\* Position p of the row is a token sampled in one of the turns ts of its trajectory.
FromTurn(row, p, ts) ==
  LET k == row.logprob[p][1]
      n == row.logprob[p][2]
  IN  row.response[p] /\ k \in DOMAIN ts /\ ts[k].item = row.item /\ ts[k].response[n] = row.token[p]

\* Three of the rows are as long as one another; the log-probabilities may be missing, but
\* where none is, what is trained was sampled.
Honest(row, ts) ==
  /\ row \in RowSet
  /\ Len(row.response) = Len(row.token) /\ Len(row.loss) = Len(row.token)
  /\ Len(row.logprob) <= Len(row.token)
  /\ Len(row.logprob) = Len(row.token) =>
       \A p \in 1 .. Len(row.token) : row.loss[p] => FromTurn(row, p, ts)

\* The prefix that two rows share ends within both.
LEMMA PrefixWithin ==
  ASSUME NEW a \in Seq(Nat), NEW b \in Seq(Nat)
  PROVE  CommonPrefixLen(a, b) \in 0 .. Len(b)
<1> DEFINE AtEnd(n) == Alike(a, b, n) /\ ~Alike(a, b, n + 1)
           S == {m \in 0 .. Len(b) + 1 : Alike(a, b, m) \/ \E n \in 0 .. Len(b) : AtEnd(n)}
<1>1. 0 \in S BY DEF Alike
<1>2. ASSUME NEW m \in 0 .. (Len(b) + 1) - 1, m \in S PROVE m + 1 \in S
  <2>1. m \in 0 .. Len(b) /\ m + 1 \in 0 .. Len(b) + 1 OBVIOUS
  <2> QED BY <1>2, <2>1
<1> HIDE DEF S
<1>a. Len(b) + 1 \in Nat OBVIOUS
<1>3. 0 .. Len(b) + 1 \subseteq S BY <1>a, <1>1, <1>2, IntervalInduction
<1>4. Len(b) + 1 \in S BY <1>a, <1>3
<1>5. ~Alike(a, b, Len(b) + 1) BY DEF Alike
<1>6. \E n \in 0 .. Len(b) : AtEnd(n) BY <1>4, <1>5 DEF S
<1> QED BY <1>6 DEF CommonPrefixLen

\* Two sequences one behind the other, the second by its own places.
LEMMA Joined ==
  ASSUME NEW X, NEW s \in Seq(X), NEW t \in Seq(X)
  PROVE  /\ s \o t \in Seq(X) /\ Len(s \o t) = Len(s) + Len(t)
         /\ \A i \in 1 .. Len(s) : (s \o t)[i] = s[i]
         /\ \A j \in 1 .. Len(t) : (s \o t)[Len(s) + j] = t[j]
<1>1. ASSUME NEW j \in 1 .. Len(t) PROVE (s \o t)[Len(s) + j] = t[j]
  <2>1. Len(s) \in Nat /\ Len(t) \in Nat OBVIOUS
  <2>2. Len(s) + j \in Len(s) + 1 .. Len(s) + Len(t) /\ (Len(s) + j) - Len(s) = j BY <2>1
  <2> QED BY <2>2, ConcatElements
<1> QED BY <1>1, ConcatElements

\* A row e is s with what t has past its first p places.
IsExtension(e, s, t, p) ==
  /\ Len(e) = Len(s) + (IF p <= Len(t) THEN Len(t) - p ELSE 0)
  /\ \A i \in 1 .. Len(s) : e[i] = s[i]
  /\ \A j \in 1 .. Len(t) - p : e[Len(s) + j] = t[p + j]

\* A row and what is appended to it, position by position.
LEMMA Extended ==
  ASSUME NEW X, NEW s \in Seq(X), NEW t \in Seq(X), NEW p \in Nat
  PROVE  /\ s \o Suffix(t, p) \in Seq(X)
         /\ IsExtension(s \o Suffix(t, p), s, t, p)
<1> DEFINE u == SubSeq(t, p + 1, Len(t))
<1>1. u \in Seq(X) /\ Len(u) = IF p <= Len(t) THEN Len(t) - p ELSE 0
  OBVIOUS
<1>2. \A j \in 1 .. Len(t) - p : u[j] = t[p + j] OBVIOUS
<1>3. Len(s) \in Nat /\ Len(t) \in Nat /\ Len(u) \in Nat BY <1>1
<1>4. Suffix(t, p) = u BY DEF Suffix
<1> HIDE DEF u
<1>a. u \in Seq(X) BY <1>1
<1>5. /\ s \o u \in Seq(X) /\ Len(s \o u) = Len(s) + Len(u)
      /\ \A i \in 1 .. Len(s) : (s \o u)[i] = s[i]
      /\ \A j \in 1 .. Len(u) : (s \o u)[Len(s) + j] = u[j]
  <2>1. s \o u \in Seq(X) BY <1>a, Joined
  <2>2. Len(s \o u) = Len(s) + Len(u) BY <1>a, Joined
  <2>3. \A i \in 1 .. Len(s) : (s \o u)[i] = s[i] BY <1>a, Joined
  <2>4. \A j \in 1 .. Len(u) : (s \o u)[Len(s) + j] = u[j] BY <1>a, Joined
  <2> QED BY <2>1, <2>2, <2>3, <2>4
<1>6. ASSUME NEW j \in 1 .. Len(t) - p PROVE (s \o u)[Len(s) + j] = t[p + j]
  <2>1. j \in 1 .. Len(u) BY <1>1, <1>3
  <2> QED BY <1>2, <1>5, <2>1
<1> QED BY <1>1, <1>3, <1>4, <1>5, <1>6 DEF IsExtension

\* _set_sample_training_row makes an honest row of the k-th turn.
LEMMA RowOfHonest ==
  ASSUME NEW ts \in Seq(TurnSet), NEW k \in 1 .. Len(ts), NEW lps \in {ts[k].response, << >>}
  PROVE  Honest(RowOf(ts[k], lps, k), ts) /\ RowOf(ts[k], lps, k).item = ts[k].item
<1> DEFINE turn == ts[k]  c == Len(turn.context)  r == Len(turn.response)  row == RowOf(turn, lps, k)
<1>1. turn \in TurnSet OBVIOUS
<1> HIDE DEF turn
<1>a. turn.item \in Items /\ turn.context \in Seq(Nat) /\ turn.response \in Seq(Nat)
  BY <1>1 DEF TurnSet
<1>b. lps = turn.response \/ lps = << >> BY DEF turn
<1>c. << >> \in Seq(Nat) /\ Len(<< >>) = 0 OBVIOUS
<1>d. lps \in Seq(Nat) /\ (Len(lps) = r \/ Len(lps) = 0)
  <2>1. CASE lps = turn.response BY <1>a, <2>1
  <2>2. CASE lps = << >> BY <1>c, <2>2
  <2> QED BY <1>b, <2>1, <2>2
<1> HIDE DEF row
<1>2. /\ turn.item \in Items /\ turn.context \in Seq(Nat) /\ turn.response \in Seq(Nat)
      /\ c \in Nat /\ r \in Nat /\ lps \in Seq(Nat) /\ Len(lps) \in Nat
      /\ Len(lps) = r \/ Len(lps) = 0
  BY <1>a, <1>d
<1> DEFINE no == AllOf(FALSE, c)  yes == AllOf(TRUE, r)  zero == AllOf(Zero, c)
           loss == [i \in 1 .. r |-> i <= turn.trained]  lp == [i \in 1 .. Len(lps) |-> <<k, i>>]
<1>3. /\ no \in Seq(BOOLEAN) /\ Len(no) = c /\ \A i \in 1 .. c : no[i] = FALSE
      /\ yes \in Seq(BOOLEAN) /\ Len(yes) = r /\ \A i \in 1 .. r : yes[i] = TRUE
  BY <1>2 DEF AllOf
<1>4. zero \in Seq(Nat \X Nat) /\ Len(zero) = c BY <1>2 DEF AllOf, Zero
<1>5. loss \in Seq(BOOLEAN) /\ Len(loss) = r BY <1>2
<1>6. lp \in Seq(Nat \X Nat) /\ Len(lp) = Len(lps) /\ \A i \in 1 .. Len(lps) : lp[i] = <<k, i>>
  BY <1>2
<1>7. /\ row.item = turn.item /\ row.token = turn.context \o turn.response
      /\ row.response = no \o yes /\ row.loss = no \o loss /\ row.logprob = zero \o lp
      /\ row = [item |-> row.item, token |-> row.token, response |-> row.response,
                loss |-> row.loss, logprob |-> row.logprob]
  BY DEF RowOf, row
<1> HIDE DEF no, yes, zero, loss, lp, row, c, r
<1>8. row.token \in Seq(Nat) /\ Len(row.token) = c + r /\ \A i \in 1 .. r : row.token[c + i] = turn.response[i]
  <2> DEFINE s == turn.context  t == turn.response
  <2>1. s \in Seq(Nat) /\ t \in Seq(Nat) /\ Len(s) = c /\ Len(t) = r /\ row.token = s \o t
    BY <1>a, <1>7 DEF c, r
  <2> HIDE DEF s, t
  <2>2. s \o t \in Seq(Nat) BY <2>1, Joined
  <2>3. Len(s \o t) = c + r BY <2>1, Joined
  <2>4. \A j \in 1 .. r : (s \o t)[c + j] = t[j]
    <3>a. s \in Seq(Nat) /\ t \in Seq(Nat) BY <2>1
    <3>1. \A j \in 1 .. Len(t) : (s \o t)[Len(s) + j] = t[j] BY ONLY <3>a, Joined
    <3> QED BY ONLY <2>1, <3>1
  <2> QED BY <2>1, <2>2, <2>3, <2>4 DEF t
<1>9. /\ row.response \in Seq(BOOLEAN) /\ Len(row.response) = c + r
      /\ \A i \in 1 .. r : row.response[c + i] = TRUE
  BY <1>3, <1>7, Joined
<1>10. /\ row.loss \in Seq(BOOLEAN) /\ Len(row.loss) = c + r
       /\ \A i \in 1 .. c : row.loss[i] = FALSE
  BY <1>3, <1>5, <1>7, Joined
<1>11. /\ row.logprob \in Seq(Nat \X Nat) /\ Len(row.logprob) = c + Len(lps)
       /\ \A i \in 1 .. Len(lps) : row.logprob[c + i] = <<k, i>>
  <2>1. zero \o lp \in Seq(Nat \X Nat) BY <1>4, <1>6, Joined
  <2>2. Len(zero \o lp) = Len(zero) + Len(lp) BY <1>4, <1>6, Joined
  <2>a. zero \in Seq(Nat \X Nat) /\ lp \in Seq(Nat \X Nat) BY <1>4, <1>6
  <2>3. \A j \in 1 .. Len(lp) : (zero \o lp)[Len(zero) + j] = lp[j] BY ONLY <2>a, Joined
  <2> QED BY <1>4, <1>6, <1>7, <2>1, <2>2, <2>3
<1>12. row \in RowSet BY <1>2, <1>7, <1>8, <1>9, <1>10, <1>11 DEF RowSet
<1>13. ASSUME Len(row.logprob) = Len(row.token), NEW p \in 1 .. Len(row.token), row.loss[p]
       PROVE  FromTurn(row, p, ts)
  <2>1. Len(lps) = r BY <1>2, <1>8, <1>11, <1>13
  <2>2. p \in 1 .. c + r BY <1>8
  <2>3. p \notin 1 .. c BY <1>10, <1>13
  <2>4. p - c \in 1 .. r /\ p = c + (p - c) BY <1>2, <2>2, <2>3
  <2>5. PICK i \in 1 .. r : p = c + i BY <2>4
  <2>6. row.logprob[p] = <<k, i>> BY <1>11, <2>1, <2>5
  <2>7. row.token[p] = turn.response[i] BY <1>8, <2>5
  <2>8. row.response[p] BY <1>9, <2>5
  <2>9. k \in DOMAIN ts /\ ts[k].item = row.item /\ ts[k] = turn BY <1>7 DEF turn
  <2> QED BY <2>6, <2>7, <2>8, <2>9 DEF FromTurn
<1>14. Len(row.logprob) <= Len(row.token) BY <1>2, <1>8, <1>11
<1> QED BY <1>7, <1>8, <1>9, <1>10, <1>12, <1>13, <1>14 DEF Honest, row, turn

\* _append_sample_response keeps an honest row honest.
LEMMA AppendRowHonest ==
  ASSUME NEW ts \in Seq(TurnSet), NEW old, NEW new,
         Honest(old, ts), Honest(new, ts), old.item = new.item
  PROVE  Honest(AppendRow(old, new), ts) /\ AppendRow(old, new).item = old.item
<1> DEFINE p == CommonPrefixLen(old.token, new.token)  row == AppendRow(old, new)
           a == Len(old.token)  b == Len(new.token)
<1>1. /\ old.item \in Items /\ old.token \in Seq(Nat) /\ old.response \in Seq(BOOLEAN)
      /\ old.loss \in Seq(BOOLEAN) /\ old.logprob \in Seq(Nat \X Nat)
      /\ new.token \in Seq(Nat) /\ new.response \in Seq(BOOLEAN)
      /\ new.loss \in Seq(BOOLEAN) /\ new.logprob \in Seq(Nat \X Nat)
      /\ old = [item |-> old.item, token |-> old.token, response |-> old.response,
                loss |-> old.loss, logprob |-> old.logprob]
  BY DEF Honest, RowSet
<1>2. p \in 0 .. b BY <1>1, PrefixWithin
<1>3. /\ row.item = old.item /\ row.token = old.token \o Suffix(new.token, p)
      /\ row.response = old.response \o Suffix(new.response, p)
      /\ row.loss = old.loss \o Suffix(new.loss, p)
      /\ row.logprob = old.logprob \o Suffix(new.logprob, p)
      /\ row = [item |-> row.item, token |-> row.token, response |-> row.response,
                loss |-> row.loss, logprob |-> row.logprob]
  <2> DEFINE tt == old.token \o Suffix(new.token, p)  rr == old.response \o Suffix(new.response, p)
             ll == old.loss \o Suffix(new.loss, p)  gg == old.logprob \o Suffix(new.logprob, p)
  <2>1. row = [old EXCEPT !.token = tt, !.response = rr, !.loss = ll, !.logprob = gg]
    BY DEF AppendRow
  <2> HIDE DEF tt, rr, ll, gg, row, p
  <2>2. row.item = old.item /\ row.token = tt /\ row.response = rr /\ row.loss = ll /\ row.logprob = gg
        /\ row = [item |-> old.item, token |-> tt, response |-> rr, loss |-> ll, logprob |-> gg]
    BY <1>1, <2>1
  <2> QED BY <2>2 DEF tt, rr, ll, gg
<1>4. /\ a \in Nat /\ b \in Nat /\ Len(old.logprob) \in Nat /\ Len(new.logprob) \in Nat
      /\ Len(old.response) = a /\ Len(old.loss) = a /\ Len(old.logprob) <= a
      /\ Len(new.response) = b /\ Len(new.loss) = b /\ Len(new.logprob) <= b
  BY <1>1 DEF Honest
<1> HIDE DEF p, row, a, b
<1>5. p \in Nat /\ p <= b BY <1>2, <1>4
<1>6. /\ row.token \in Seq(Nat) /\ Len(row.token) = a + (b - p)
      /\ \A i \in 1 .. a : row.token[i] = old.token[i]
      /\ \A j \in 1 .. b - p : row.token[a + j] = new.token[p + j]
  <2>1. row.token \in Seq(Nat) /\ IsExtension(row.token, old.token, new.token, p)
    <3> HIDE DEF IsExtension
    <3>1. old.token \in Seq(Nat) /\ new.token \in Seq(Nat) /\ p \in Nat BY <1>1, <1>5
    <3> QED BY ONLY <1>3, <3>1, Extended
  <2> QED BY <1>4, <1>5, <2>1 DEF IsExtension, a, b
<1>7. /\ row.response \in Seq(BOOLEAN) /\ Len(row.response) = a + (b - p)
      /\ \A i \in 1 .. a : row.response[i] = old.response[i]
      /\ \A j \in 1 .. b - p : row.response[a + j] = new.response[p + j]
  <2>1. row.response \in Seq(BOOLEAN) /\ IsExtension(row.response, old.response, new.response, p)
    <3> HIDE DEF IsExtension
    <3>1. old.response \in Seq(BOOLEAN) /\ new.response \in Seq(BOOLEAN) /\ p \in Nat BY <1>1, <1>5
    <3> QED BY ONLY <1>3, <3>1, Extended
  <2> QED BY <1>4, <1>5, <2>1 DEF IsExtension, a, b
<1>8. /\ row.loss \in Seq(BOOLEAN) /\ Len(row.loss) = a + (b - p)
      /\ \A i \in 1 .. a : row.loss[i] = old.loss[i]
      /\ \A j \in 1 .. b - p : row.loss[a + j] = new.loss[p + j]
  <2>1. row.loss \in Seq(BOOLEAN) /\ IsExtension(row.loss, old.loss, new.loss, p)
    <3> HIDE DEF IsExtension
    <3>1. old.loss \in Seq(BOOLEAN) /\ new.loss \in Seq(BOOLEAN) /\ p \in Nat BY <1>1, <1>5
    <3> QED BY ONLY <1>3, <3>1, Extended
  <2> QED BY <1>4, <1>5, <2>1 DEF IsExtension, a, b
<1> DEFINE m == Len(old.logprob)  n == Len(new.logprob)
<1>9. /\ row.logprob \in Seq(Nat \X Nat) /\ Len(row.logprob) = m + (IF p <= n THEN n - p ELSE 0)
      /\ \A i \in 1 .. m : row.logprob[i] = old.logprob[i]
      /\ \A j \in 1 .. n - p : row.logprob[m + j] = new.logprob[p + j]
  <2>1. row.logprob \in Seq(Nat \X Nat) /\ IsExtension(row.logprob, old.logprob, new.logprob, p)
    <3> HIDE DEF IsExtension
    <3>1. old.logprob \in Seq(Nat \X Nat) /\ new.logprob \in Seq(Nat \X Nat) /\ p \in Nat BY <1>1, <1>5
    <3> QED BY ONLY <1>3, <3>1, Extended
  <2> QED BY <1>4, <1>5, <2>1 DEF IsExtension, a, b
<1>10. row \in RowSet BY <1>1, <1>3, <1>6, <1>7, <1>8, <1>9 DEF RowSet
<1> HIDE DEF m, n
<1>11. m \in Nat /\ n \in Nat /\ m <= a /\ n <= b BY <1>4 DEF m, n
<1>12. Len(row.logprob) <= Len(row.token) BY <1>4, <1>5, <1>6, <1>9, <1>11
<1>13. ASSUME Len(row.logprob) = Len(row.token), NEW q \in 1 .. Len(row.token), row.loss[q]
       PROVE  FromTurn(row, q, ts)
  <2>a. m + (IF p <= n THEN n - p ELSE 0) = a + (b - p) BY ONLY <1>6, <1>9, <1>13
  <2>b. a \in Nat /\ b \in Nat BY <1>4
  <2>1. m = a /\ (n = b \/ b = p) BY ONLY <1>5, <1>11, <2>a, <2>b
  <2>2. CASE q \in 1 .. a
    <3>1. old.loss[q] BY <1>8, <1>13, <2>2
    <3>2. FromTurn(old, q, ts) BY <2>1, <2>2, <3>1 DEF Honest, a, m
    <3>3. row.logprob[q] = old.logprob[q] /\ row.token[q] = old.token[q] /\ row.response[q] = old.response[q]
      BY <1>6, <1>7, <1>9, <2>1, <2>2
    <3> QED BY <1>3, <3>2, <3>3 DEF FromTurn
  <2>3. CASE q \notin 1 .. a
    <3>1. q - a \in 1 .. b - p /\ q = a + (q - a) BY <1>4, <1>5, <1>6, <2>3
    <3>2. PICK j \in 1 .. b - p : q = a + j BY <3>1
    <3>3. n = b /\ p + j \in 1 .. b BY <1>4, <1>5, <2>1, <3>2
    <3>4. /\ row.logprob[q] = new.logprob[p + j] /\ row.token[q] = new.token[p + j]
          /\ row.response[q] = new.response[p + j] /\ row.loss[q] = new.loss[p + j]
      BY <1>6, <1>7, <1>8, <1>9, <2>1, <3>2, <3>3
    <3>5. new.loss[p + j] BY <1>13, <3>4
    <3>6. FromTurn(new, p + j, ts) BY <3>3, <3>5 DEF Honest, b, n
    <3> QED BY <1>3, <3>4, <3>6 DEF FromTurn
  <2> QED BY <2>2, <2>3
<1> QED BY <1>3, <1>6, <1>7, <1>8, <1>10, <1>12, <1>13 DEF Honest, row

\* Another turn does not change what the earlier ones sampled.
LEMMA HonestWithMoreTurns ==
  ASSUME NEW ts \in Seq(TurnSet), NEW turn \in TurnSet, NEW row, Honest(row, ts)
  PROVE  Honest(row, Append(ts, turn))
<1>1. \A k \in DOMAIN ts : k \in DOMAIN Append(ts, turn) /\ Append(ts, turn)[k] = ts[k]
  OBVIOUS
<1>2. ASSUME NEW p, FromTurn(row, p, ts) PROVE FromTurn(row, p, Append(ts, turn))
  BY <1>1, <1>2 DEF FromTurn
<1> QED BY <1>2 DEF Honest

\* The first of some places is one of them.
LEMMA FirstOf ==
  ASSUME NEW n \in Nat, NEW S, S \subseteq 1 .. n, S # {}
  PROVE  Min(S) \in S
<1> DEFINE Least == \E x \in S : \A y \in S : x =< y
           T == {m \in 0 .. n : Least \/ \A y \in S : y > m}
<1>1. 0 \in T OBVIOUS
<1>2. ASSUME NEW m \in 0 .. n - 1, m \in T PROVE m + 1 \in T
  <2>1. CASE m + 1 \in S /\ ~Least
    <3>1. \A y \in S : m + 1 =< y BY <1>2, <2>1
    <3> QED BY <2>1, <3>1
  <2>2. CASE m + 1 \notin S \/ Least BY <1>2, <2>2
  <2> QED BY <2>1, <2>2
<1> HIDE DEF T, Least
<1>3. 0 .. n \subseteq T BY <1>1, <1>2, IntervalInduction
<1>4. n \in T BY <1>3
<1>5. Least
  <2>1. PICK y \in S : TRUE OBVIOUS
  <2>2. y \in 1 .. n /\ ~(y > n) BY <2>1
  <2> QED BY <1>4, <2>1, <2>2 DEF T
<1> QED BY <1>5 DEF Least, Min

-----------------------------------------------------------------------------
(* The batch                                                               *)

\* Every row is honest at every stage, not only what is trained of a batch.
RowsInv ==
  /\ turns \in Seq(TurnSet)
  /\ samples \in Seq(RowSet)
  /\ \A i \in 1 .. Len(samples) : Honest(samples[i], turns)
  /\ RowsTellTheRollout

\* Nothing was collected yet.
LEMMA RowsInit == RInit => RowsInv
<1> SUFFICES ASSUME RInit PROVE RowsInv OBVIOUS
<1>1. turns = << >> /\ samples = << >> /\ stage # "built" BY DEF RInit
<1>2. turns \in Seq(TurnSet) /\ samples \in Seq(RowSet) /\ 1 .. Len(samples) = {} BY <1>1
<1>3. RowsTellTheRollout BY <1>1 DEF RowsTellTheRollout, TrainedTokensWereSampled, AdvantagesSumToZero
<1> QED BY <1>2, <1>3 DEF RowsInv

\* A turn becomes a row of its own or goes to the end of the row of its item.
LEMMA TakeTurnKeeps == ASSUME RowsInv, TakeTurn PROVE RowsInv'
<1>a. PICK item \in Items, context \in Contexts, response \in Responses :
      \E trained \in {1, Len(response)}, lps \in {response, << >>} :
        LET turn == [item |-> item, context |-> context, response |-> response, trained |-> trained]
            row == RowOf(turn, lps, Len(turns) + 1) IN
        /\ turns' = Append(turns, turn)
        /\ samples' = IF Existing(item) = {} THEN Append(samples, row)
                      ELSE LET i == Min(Existing(item)) IN
                           [samples EXCEPT ![i] = AppendRow(@, row)]
  BY DEF TakeTurn
<1>1. PICK trained \in {1, Len(response)}, lps \in {response, << >>} :
        LET turn == [item |-> item, context |-> context, response |-> response, trained |-> trained]
            row == RowOf(turn, lps, Len(turns) + 1) IN
        /\ turns' = Append(turns, turn)
        /\ samples' = IF Existing(item) = {} THEN Append(samples, row)
                      ELSE LET i == Min(Existing(item)) IN
                           [samples EXCEPT ![i] = AppendRow(@, row)]
  BY <1>a
<1> DEFINE turn == [item |-> item, context |-> context, response |-> response, trained |-> trained]
           k == Len(turns) + 1  row == RowOf(turn, lps, k)
<1>2. /\ turns' = Append(turns, turn)
      /\ samples' = IF Existing(item) = {} THEN Append(samples, row)
                    ELSE [samples EXCEPT ![Min(Existing(item))] = AppendRow(@, row)]
  BY <1>1
<1>3. context \in Seq(Nat) /\ response \in Seq(Nat) /\ trained \in Nat BY TokensAssumption
<1>4. turn \in TurnSet BY <1>3 DEF TurnSet
<1>5. turn.item = item /\ turn.response = response OBVIOUS
<1> HIDE DEF turn
<1>6. turns \in Seq(TurnSet) /\ samples \in Seq(RowSet) /\ \A i \in 1 .. Len(samples) : Honest(samples[i], turns)
  BY DEF RowsInv
<1>7. turns' \in Seq(TurnSet) /\ k \in 1 .. Len(turns') /\ turns'[k] = turn BY <1>2, <1>4, <1>6
<1>8. Honest(row, turns') /\ row.item = item
  <2>1. lps \in {turns'[k].response, << >>} BY <1>5, <1>7
  <2> HIDE DEF k
  <2> QED BY <1>5, <1>7, <2>1, RowOfHonest
<1> HIDE DEF row, k
<1>9. \A i \in 1 .. Len(samples) : Honest(samples[i], turns')
  BY <1>2, <1>4, <1>6, HonestWithMoreTurns
<1>10. samples' \in Seq(RowSet) /\ \A i \in 1 .. Len(samples') : Honest(samples'[i], turns')
  <2>1. CASE Existing(item) = {}
    <3>1. samples' = Append(samples, row) BY <1>2, <2>1
    <3>2. row \in RowSet BY <1>8 DEF Honest
    <3>3. /\ samples' \in Seq(RowSet) /\ Len(samples') = Len(samples) + 1 /\ Len(samples) \in Nat
          /\ samples'[Len(samples) + 1] = row /\ \A i \in 1 .. Len(samples) : samples'[i] = samples[i]
      BY <1>6, <3>1, <3>2
    <3>4. ASSUME NEW i \in 1 .. Len(samples') PROVE Honest(samples'[i], turns')
      <4>1. CASE i = Len(samples) + 1 BY <1>8, <3>3, <4>1
      <4>2. CASE i \in 1 .. Len(samples) BY <1>9, <3>3, <4>2
      <4> QED BY <3>3, <4>1, <4>2
    <3> QED BY <3>3, <3>4
  <2>2. CASE Existing(item) # {}
    <3> DEFINE i == Min(Existing(item))
    <3>1. samples' = [samples EXCEPT ![i] = AppendRow(samples[i], row)] BY <1>2, <2>2
    <3>2. i \in 1 .. Len(samples) /\ samples[i].item = item
      <4>1. Len(samples) \in Nat /\ Existing(item) \subseteq 1 .. Len(samples) BY <1>6 DEF Existing
      <4>2. i \in Existing(item) BY <2>2, <4>1, FirstOf
      <4> QED BY <4>1, <4>2 DEF Existing
    <3> HIDE DEF i
    <3>3. Honest(AppendRow(samples[i], row), turns') BY <1>7, <1>8, <1>9, <3>2, AppendRowHonest
    <3>4. AppendRow(samples[i], row) \in RowSet BY <3>3 DEF Honest
    <3>5. /\ samples' \in Seq(RowSet) /\ Len(samples') = Len(samples)
          /\ samples'[i] = AppendRow(samples[i], row)
          /\ \A j \in 1 .. Len(samples) : j # i => samples'[j] = samples[j]
      BY <1>6, <3>1, <3>2, <3>4
    <3>6. ASSUME NEW j \in 1 .. Len(samples') PROVE Honest(samples'[j], turns')
      <4>1. CASE j = i BY <3>3, <3>5, <4>1
      <4>2. CASE j # i BY <1>9, <3>5, <4>2
      <4> QED BY <4>1, <4>2
    <3> QED BY <3>5, <3>6
  <2> QED BY <2>1, <2>2
<1>11. stage' # "built" BY DEF TakeTurn
<1>12. RowsTellTheRollout'
  BY <1>11 DEF RowsTellTheRollout, TrainedTokensWereSampled, AdvantagesSumToZero
<1> QED BY <1>7, <1>10, <1>12 DEF RowsInv

\* The rows that stay are rows that were there.
LEMMA FilterKeeps == ASSUME RowsInv, Filter PROVE RowsInv'
<1>1. turns' = turns /\ samples' = Short /\ stage' # "built" BY DEF Filter
<1>2. turns \in Seq(TurnSet) /\ samples \in Seq(RowSet) /\ \A i \in 1 .. Len(samples) : Honest(samples[i], turns)
  BY DEF RowsInv
<1>3. Short \in Seq(RowSet) /\ \A j \in 1 .. Len(Short) : \E i \in 1 .. Len(samples) : Short[j] = samples[i]
  <2> DEFINE S == {s \in ToSet(samples) : Len(s.token) <= MaxContext}
  <2>1. Short = Kept(samples, S) BY DEF Short
  <2> HIDE DEF S, Short
  <2>2. Kept(samples, S) \in Seq(RowSet) BY <1>2, KeptFacts
  <2>3. \A j \in 1 .. Len(Kept(samples, S)) : \E i \in 1 .. Len(samples) : Kept(samples, S)[j] = samples[i]
    BY <1>2, KeptFacts
  <2> QED BY <2>1, <2>2, <2>3
<1>4. RowsTellTheRollout'
  BY <1>1 DEF RowsTellTheRollout, TrainedTokensWereSampled, AdvantagesSumToZero
<1> HIDE DEF Short
<1> QED BY <1>1, <1>2, <1>3, <1>4 DEF RowsInv

\* A batch takes the rows as they are.
LEMMA MaterializeKeeps == ASSUME RowsInv, Materialize PROVE RowsInv'
<1>1. turns' = turns /\ samples' = samples BY DEF Materialize
<1>2. turns \in Seq(TurnSet) /\ samples \in Seq(RowSet) /\ \A i \in 1 .. Len(samples) : Honest(samples[i], turns)
  BY DEF RowsInv
<1>3. CASE stage' # "built"
  BY <1>1, <1>2, <1>3 DEF RowsInv, RowsTellTheRollout, TrainedTokensWereSampled, AdvantagesSumToZero
<1>4. CASE stage' = "built"
  <2>1. PICK rewards \in [DOMAIN samples -> 0 .. 1] :
           /\ \A i \in DOMAIN samples : Aligned(samples[i])
           /\ batch' = [i \in DOMAIN samples |->
                          [row |-> samples[i], advantage |-> Advantage(rewards, Group(i), i)]]
    BY <1>4 DEF Materialize
  <2>2. DOMAIN batch' = DOMAIN samples /\ DOMAIN samples = 1 .. Len(samples) /\ Len(samples) \in Nat BY <1>2, <2>1
  <2>3. \A i \in DOMAIN samples : batch'[i].row = samples[i] /\ batch'[i].advantage = Advantage(rewards, Group(i), i)
    BY <2>1
  <2>4. TrainedTokensWereSampled'
    <3>1. ASSUME NEW i \in DOMAIN batch', NEW p \in Trained(batch'[i].row)
          PROVE  FromTurn(batch'[i].row, p, turns)
      <4>1. Honest(samples[i], turns) /\ Aligned(samples[i]) /\ batch'[i].row = samples[i]
        BY <1>2, <2>1, <2>2, <2>3
      <4>2. Len(samples[i].logprob) = Len(samples[i].token) BY <4>1 DEF Aligned
      <4>3. samples[i].token \in Seq(Nat) BY <4>1 DEF Honest, RowSet
      <4>4. p \in 1 .. Len(samples[i].token) /\ samples[i].loss[p] BY <4>1, <4>3 DEF Trained
      <4> QED BY <4>1, <4>2, <4>4 DEF Honest
    <3> QED BY <1>1, <3>1 DEF TrainedTokensWereSampled, FromTurn
  <2>5. AdvantagesSumToZero'
    <3>1. SUFFICES ASSUME NEW i \in DOMAIN batch'
                   PROVE  SumFunctionOnSet([j \in DOMAIN batch' |-> batch'[j].advantage],
                                {j \in DOMAIN batch' : batch'[j].row.item.prompt = batch'[i].row.item.prompt}) = 0
      BY DEF AdvantagesSumToZero
    <3> DEFINE g == [j \in DOMAIN batch' |-> batch'[j].advantage]
    <3>2. {j \in DOMAIN batch' : batch'[j].row.item.prompt = batch'[i].row.item.prompt} = Group(i)
      BY <2>2, <2>3 DEF Group
    <3>3. IsFiniteSet(Group(i))
      <4>1. IsFiniteSet(1 .. Len(samples)) BY <2>2, FS_Interval
      <4>2. Group(i) \subseteq 1 .. Len(samples) BY <2>2 DEF Group
      <4> QED BY <4>1, <4>2, FS_Subset
    <3>4. \A x \in Group(i) : rewards[x] \in Int BY DEF Group
    <3>5. \A x \in Group(i) : g[x] = Advantage(rewards, Group(i), x)
      <4>1. SUFFICES ASSUME NEW x \in Group(i) PROVE g[x] = Advantage(rewards, Group(i), x) OBVIOUS
      <4>2. x \in DOMAIN samples /\ Group(x) = Group(i) BY DEF Group
      <4> QED BY <2>2, <2>3, <4>2
    <3> HIDE DEF g
    <3>6. SumFunctionOnSet(g, Group(i)) = 0 BY <3>3, <3>4, <3>5, GroupSumsToZero
    <3> QED BY <3>2, <3>6 DEF g
  <2> QED BY <1>1, <1>2, <2>4, <2>5 DEF RowsInv, RowsTellTheRollout
<1> QED BY <1>3, <1>4

\* However the turns of a rollout are merged into rows and overlong rows dropped, a batch
\* trains what was sampled, and the advantages of a prompt add up to nothing
\* (_materialize_agentic_train_batch).
THEOREM RowsTellTheRolloutAlways == RSpec => []RowsTellTheRollout
<1>1. RowsInv /\ [RNext]_rvars => RowsInv'
  <2> SUFFICES ASSUME RowsInv, [RNext]_rvars PROVE RowsInv' OBVIOUS
  <2>1. CASE TakeTurn BY <2>1, TakeTurnKeeps
  <2>2. CASE Filter BY <2>2, FilterKeeps
  <2>3. CASE Materialize BY <2>3, MaterializeKeeps
  <2>4. CASE UNCHANGED rvars
    <3>1. turns' = turns /\ samples' = samples /\ stage' = stage /\ batch' = batch BY <2>4 DEF rvars
    <3>2. TrainedTokensWereSampled => TrainedTokensWereSampled'
      <4> DEFINE Fit(b, ts) == \A i \in DOMAIN b : \A p \in Trained(b[i].row) : FromTurn(b[i].row, p, ts)
      <4>1. TrainedTokensWereSampled <=> (stage = "built" => Fit(batch, turns))
        BY DEF TrainedTokensWereSampled, FromTurn
      <4>2. TrainedTokensWereSampled' <=> (stage' = "built" => Fit(batch', turns'))
        BY DEF TrainedTokensWereSampled, FromTurn
      <4> HIDE DEF Fit
      <4> QED BY <3>1, <4>1, <4>2
    <3>3. AdvantagesSumToZero => AdvantagesSumToZero'
      <4> DEFINE Sum(b, i) == SumFunctionOnSet([j \in DOMAIN b |-> b[j].advantage],
                                    {j \in DOMAIN b : b[j].row.item.prompt = b[i].row.item.prompt})
      <4>1. AdvantagesSumToZero <=> (stage = "built" => \A i \in DOMAIN batch : Sum(batch, i) = 0)
        BY DEF AdvantagesSumToZero
      <4>2. AdvantagesSumToZero' <=> (stage' = "built" => \A i \in DOMAIN batch' : Sum(batch', i) = 0)
        BY DEF AdvantagesSumToZero
      <4> HIDE DEF Sum
      <4> QED BY <3>1, <4>1, <4>2
    <3> QED BY <3>1, <3>2, <3>3 DEF RowsInv, RowsTellTheRollout
  <2> QED BY <2>1, <2>2, <2>3, <2>4 DEF RNext
<1>2. RowsInv => RowsTellTheRollout BY DEF RowsInv
<1> QED BY <1>1, <1>2, RowsInit, PTL DEF RSpec

-----------------------------------------------------------------------------
(* The deal                                                                *)

\* A place in a deal: the round and the rank.
LEMMA Divided ==
  ASSUME NEW a \in Nat, NEW d \in Nat \ {0}
  PROVE  a \div d \in Nat /\ a % d \in 0 .. d - 1 /\ a = (a \div d) * d + (a % d)
BY Z3

\* Rounds follow each other.
LEMMA RoundsFollow ==
  ASSUME NEW q \in Nat, NEW t \in Nat, NEW d \in Nat \ {0}
  PROVE  /\ q * d \in Nat /\ (q + 1) * d = q * d + d
         /\ q < t => q * d + d <= t * d
         /\ q <= t => q * d <= t * d
<1>1. q * d \in Nat /\ (q + 1) * d = q * d + d OBVIOUS
<1>2. ASSUME NEW a \in Nat, NEW b \in Nat, a <= b PROVE a * d <= b * d
  <2>1. PICK e \in Nat : b = a + e
    <3>1. b - a \in Nat /\ b = a + (b - a) BY <1>2
    <3> QED BY <3>1
  <2>2. b * d = a * d + e * d /\ e * d \in Nat /\ a * d \in Nat BY <2>1
  <2> QED BY <2>2
<1>3. q < t => (q + 1) * d <= t * d
  <2>1. q < t => q + 1 <= t OBVIOUS
  <2> QED BY <1>2, <2>1
<1> QED BY <1>1, <1>2, <1>3

\* Two places that are the same number are one.
LEMMA OnePlace ==
  ASSUME NEW q \in Nat, NEW t \in Nat, NEW d \in Nat \ {0}, NEW r \in 0 .. d - 1, NEW s \in 0 .. d - 1,
         q * d + r = t * d + s
  PROVE  q = t /\ r = s
<1>1. q * d \in Nat /\ t * d \in Nat BY RoundsFollow
<1>2. ~(q < t)
  <2> SUFFICES ASSUME q < t PROVE FALSE OBVIOUS
  <2>1. q * d + d <= t * d BY RoundsFollow
  <2> DEFINE a == q * d  b == t * d
  <2>2. a \in Nat /\ b \in Nat /\ a + d <= b /\ a + r = b + s BY <1>1, <2>1
  <2> HIDE DEF a, b
  <2> QED BY <2>2
<1>3. ~(t < q)
  <2> SUFFICES ASSUME t < q PROVE FALSE OBVIOUS
  <2>1. t * d + d <= q * d BY RoundsFollow
  <2> DEFINE a == q * d  b == t * d
  <2>2. a \in Nat /\ b \in Nat /\ b + d <= a /\ a + r = b + s BY <1>1, <2>1
  <2> HIDE DEF a, b
  <2> QED BY <2>2
<1>4. q = t BY <1>2, <1>3
<1> QED BY <1>1, <1>4

\* The next number belongs to r if it is its turn, and otherwise r waits on.
LEMMA NextTurn ==
  ASSUME NEW m \in Nat, NEW L \in Nat, NEW q \in Nat, NEW d \in Nat \ {0}, NEW r \in 0 .. d - 1, NEW s \in 0 .. d - 1,
         m = q * d + s, m <= L * d + r, L # 0 => (L - 1) * d + r + 1 <= m
  PROVE  (s = r => q = L) /\ (s # r => m + 1 <= L * d + r)
<1> DEFINE A == q * d  B == L * d
<1>1. /\ A \in Nat /\ B \in Nat /\ (q < L => A + d <= B) /\ (L < q => B + d <= A)
      /\ (q + 1) * d = A + d /\ (L # 0 => (L - 1) * d = B - d)
  <2>1. A \in Nat /\ B \in Nat /\ (q < L => A + d <= B) /\ (L < q => B + d <= A) /\ (q + 1) * d = A + d
    BY RoundsFollow
  <2>2. L # 0 => (L - 1) * d = B - d
    <3> SUFFICES ASSUME L # 0 PROVE (L - 1) * d = B - d OBVIOUS
    <3>1. PICK l \in Nat : L = l + 1
      <4>1. L - 1 \in Nat /\ L = (L - 1) + 1 OBVIOUS
      <4> QED BY <4>1
    <3>2. l * d \in Nat /\ (l + 1) * d = l * d + d BY RoundsFollow
    <3>3. L - 1 = l BY <3>1
    <3> QED BY <3>1, <3>2, <3>3
  <2> QED BY <2>1, <2>2
<1>2. m = A + s /\ m <= B + r /\ (L # 0 => B - d + r + 1 <= m) BY <1>1
<1>3. ASSUME s = r, q # L PROVE FALSE
  <2>1. CASE q < L
    <3>1. L # 0 BY <2>1
    <3> HIDE DEF A, B
    <3> QED BY <1>1, <1>2, <1>3, <2>1, <3>1
  <2>2. CASE L < q
    <3> HIDE DEF A, B
    <3> QED BY <1>1, <1>2, <1>3, <2>2
  <2> QED BY <1>3, <2>1, <2>2
<1>4. ASSUME s # r PROVE m + 1 <= B + r
  <2>1. A + s # B + r BY <1>4, OnePlace
  <2> HIDE DEF A, B
  <2> QED BY <1>1, <1>2, <2>1
<1> QED BY <1>3, <1>4

\* The numbers from one.
Ids(n) == [i \in 1 .. n |-> i]

\* They are a sequence of their own values.
LEMMA IdsAre ==
  ASSUME NEW n \in Nat
  PROVE  Ids(n) \in Seq(Nat) /\ Len(Ids(n)) = n /\ \A i \in 1 .. n : Ids(n)[i] = i
<1>1. Ids(n) \in [1 .. n -> Nat] BY DEF Ids
<1> QED BY <1>1, SeqOfFunction DEF Ids

\* What rank r of d is dealt of n: every d-th from r on, as long as there are some.
Dealt(at, n, d, r) ==
  /\ at \in Seq(Nat) /\ n <= Len(at) * d + r
  /\ \A k \in 1 .. Len(at) : at[k] = (k - 1) * d + r + 1 /\ at[k] <= n

\* So is the deal when rank r keeps the numbers whose turn is its own.
LEMMA DealtTo ==
  ASSUME NEW n \in Nat, NEW d \in Nat \ {0}, NEW r \in 0 .. d - 1,
         NEW I, \A i \in 1 .. n : i \in I <=> (i - 1) % d = r
  PROVE  Dealt(Kept(Ids(n), I), n, d, r)
<1> DEFINE s == Ids(n)
<1>0. s \in Seq(Nat) /\ Len(s) = n /\ \A i \in 1 .. n : s[i] = i BY IdsAre
<1> HIDE DEF s
<1>1. PICK f : KeptUpTo(f, s, I, n) /\ Kept(s, I) = f[n] BY <1>0, KeptExists
<1>2. \A i \in 0 .. n : f[i] = IF i = 0 THEN << >> ELSE IF s[i] \in I THEN Append(f[i - 1], s[i]) ELSE f[i - 1]
  BY <1>1 DEF KeptUpTo
<1> DEFINE T == {m \in 0 .. n : Dealt(f[m], m, d, r)}
<1>3. 0 \in T
  <2>1. f[0] = << >> BY <1>2
  <2>2. Dealt(<< >>, 0, d, r)
    <3>1. Len(<< >>) * d + r = r BY RoundsFollow
    <3>2. << >> \in Seq(Nat) /\ Len(<< >>) = 0 /\ 0 <= r OBVIOUS
    <3> QED BY <3>1, <3>2 DEF Dealt
  <2> QED BY <2>1, <2>2
<1>4. ASSUME NEW m \in 0 .. n - 1, m \in T PROVE m + 1 \in T
  <2>0. m \in Nat /\ m + 1 \in 1 .. n /\ m + 1 \in 0 .. n /\ m + 1 # 0 /\ (m + 1) - 1 = m OBVIOUS
  <2>1. f[m + 1] = IF m + 1 \in I THEN Append(f[m], m + 1) ELSE f[m] BY <1>0, <1>2, <2>0
  <2>2. m + 1 \in I <=> m % d = r BY <2>0
  <2> DEFINE a == f[m]  L == Len(f[m])  q == m \div d
  <2>3. /\ a \in Seq(Nat) /\ L \in Nat /\ m <= L * d + r
        /\ \A k \in 1 .. L : a[k] = (k - 1) * d + r + 1 /\ a[k] <= m
    BY <1>4 DEF Dealt
  <2>4. q \in Nat /\ m % d \in 0 .. d - 1 /\ m = q * d + (m % d) BY <2>0, Divided
  <2>5. L * d \in Nat /\ (L + 1) * d = L * d + d /\ q * d \in Nat BY <2>3, <2>4, RoundsFollow
  <2>8. (m % d = r => q = L) /\ (m % d # r => m + 1 <= L * d + r)
    <3>1. L # 0 => (L - 1) * d + r + 1 <= m
      <4>1. L # 0 => L \in 1 .. L BY <2>3
      <4> QED BY <2>3, <4>1
    <3> DEFINE s1 == m % d
    <3>2. s1 \in 0 .. d - 1 /\ m = q * d + s1 /\ q \in Nat /\ L \in Nat /\ m <= L * d + r BY <2>3, <2>4
    <3> HIDE DEF q, L, a, s1
    <3>3. (s1 = r => q = L) /\ (s1 # r => m + 1 <= L * d + r) BY <2>0, <3>1, <3>2, NextTurn
    <3> QED BY <3>3 DEF s1
  <2>6. CASE m % d = r
    <3>1. q = L BY <2>6, <2>8
    <3>2. f[m + 1] = Append(a, m + 1) BY <2>1, <2>2, <2>6
    <3>3. m = L * d + r BY <2>4, <2>6, <3>1
    <3> DEFINE b == Append(a, m + 1)
    <3>4. /\ b \in Seq(Nat) /\ Len(b) = L + 1 /\ b[L + 1] = m + 1 /\ \A k \in 1 .. L : b[k] = a[k]
          /\ 1 .. Len(b) = 1 .. L \cup {L + 1} /\ (L + 1) - 1 = L
      BY <2>0, <2>3
    <3> HIDE DEF a, b, L, q
    <3>5. m + 1 <= Len(b) * d + r BY <2>0, <2>5, <3>3, <3>4
    <3>6. ASSUME NEW k \in 1 .. Len(b) PROVE b[k] = (k - 1) * d + r + 1 /\ b[k] <= m + 1
      <4>1. CASE k \in 1 .. L
        <5>1. b[k] = a[k] /\ a[k] = (k - 1) * d + r + 1 /\ a[k] <= m BY <2>3, <3>4, <4>1
        <5>2. k - 1 \in Nat BY <2>3, <4>1
        <5>3. (k - 1) * d \in Nat BY <5>2, RoundsFollow
        <5> QED BY <2>0, <5>1, <5>3
      <4>2. CASE k = L + 1 BY <2>0, <3>3, <3>4, <4>2
      <4> QED BY <3>4, <4>1, <4>2
    <3>7. Dealt(b, m + 1, d, r) BY <3>4, <3>5, <3>6 DEF Dealt
    <3> QED BY <2>0, <3>2, <3>7 DEF b
  <2>7. CASE m % d # r
    <3>1. f[m + 1] = a BY <2>1, <2>2, <2>7
    <3>3. m + 1 <= L * d + r BY <2>7, <2>8
    <3> HIDE DEF a, L, q
    <3>4. ASSUME NEW k \in 1 .. L PROVE a[k] <= m + 1
      <4>1. a[k] = (k - 1) * d + r + 1 /\ a[k] <= m BY <2>3
      <4>2. k - 1 \in Nat BY <2>3
      <4>3. (k - 1) * d \in Nat BY <4>2, RoundsFollow
      <4> QED BY <2>0, <4>1, <4>3
    <3>5. Dealt(a, m + 1, d, r) BY <2>3, <3>3, <3>4 DEF Dealt, a, L
    <3> QED BY <2>0, <3>1, <3>5
  <2> QED BY <2>6, <2>7
<1> HIDE DEF T
<1>5. 0 .. n \subseteq T BY <1>3, <1>4, IntervalInduction
<1>6. n \in T BY <1>5
<1>7. Dealt(f[n], n, d, r) BY <1>6 DEF T
<1> QED BY <1>1, <1>7 DEF s

\* The rows of a rank, by their places among all.
At(n, d, offset, r) == Kept(Ids(n), {i \in 1 .. n : (i - 1 + offset) % d = r})

\* A list comprehension over some places is one entry for each of them.
LEMMA PickIs ==
  ASSUME NEW n \in Nat, NEW items, DOMAIN items = 1 .. n, NEW I
  PROVE  Pick(items, I) = [k \in 1 .. Len(Kept(Ids(n), I)) |-> items[Kept(Ids(n), I)[k]]]
<1> DEFINE at == Kept(Ids(n), I)
<1>1. at \in Seq(Nat) BY IdsAre, KeptFacts
<1>2. DOMAIN at = 1 .. Len(at) BY <1>1
<1>3. Pick(items, I) = [k \in DOMAIN at |-> items[at[k]]] BY DEF Pick, Ids
<1> HIDE DEF at
<1>4. Pick(items, I) = [k \in 1 .. Len(at) |-> items[at[k]]] BY <1>2, <1>3
<1> QED BY <1>4 DEF at

\* What rank r of the split holds: the rows at its places.
HasShares(outs, items, n, d, offset) ==
  /\ DOMAIN outs = 0 .. d - 1
  /\ \A r \in 0 .. d - 1 :
       /\ outs[r] = [k \in 1 .. Len(At(n, d, offset, r)) |-> outs[r][k]]
       /\ \A k \in 1 .. Len(At(n, d, offset, r)) : outs[r][k] = items[At(n, d, offset, r)[k]]

\* _split_list_by_dp_with_offset gives every rank its share.
LEMMA SplitIs ==
  ASSUME NEW n \in Nat, NEW items, DOMAIN items = 1 .. n, NEW d, NEW offset
  PROVE  /\ HasShares(Split(items, d, offset), items, n, d, offset)
         /\ Split(items, d, offset) = [r \in 0 .. d - 1 |-> Split(items, d, offset)[r]]
<1> DEFINE S == Split(items, d, offset)
<1>1. ASSUME NEW r \in 0 .. d - 1
      PROVE  /\ S[r] = [k \in 1 .. Len(At(n, d, offset, r)) |-> S[r][k]]
             /\ \A k \in 1 .. Len(At(n, d, offset, r)) : S[r][k] = items[At(n, d, offset, r)[k]]
  <2> DEFINE I == {i \in DOMAIN items : (i - 1 + offset) % d = r}  at == Kept(Ids(n), I)
  <2>1. S[r] = Pick(items, I) BY DEF Split
  <2>2. I = {i \in 1 .. n : (i - 1 + offset) % d = r} OBVIOUS
  <2>4. at = At(n, d, offset, r) BY <2>2 DEF At
  <2> HIDE DEF I, S
  <2>3. S[r] = [k \in 1 .. Len(at) |-> items[at[k]]] BY <2>1, PickIs
  <2> HIDE DEF at
  <2>5. /\ S[r] = [k \in 1 .. Len(at) |-> S[r][k]]
        /\ \A k \in 1 .. Len(at) : S[r][k] = items[at[k]]
    BY <2>3
  <2> QED BY <2>4, <2>5
<1>2. S = [r \in 0 .. d - 1 |-> S[r]] /\ DOMAIN S = 0 .. d - 1 BY DEF Split
<1> HIDE DEF S
<1>3. HasShares(S, items, n, d, offset) BY <1>1, <1>2 DEF HasShares
<1> QED BY <1>2, <1>3 DEF S

\* Without an offset ranks are dealt as split_list_by_dp deals.
LEMMA AtDealt ==
  ASSUME NEW n \in Nat, NEW d \in Nat \ {0}, NEW r \in 0 .. d - 1
  PROVE  Dealt(At(n, d, 0, r), n, d, r)
<1> DEFINE I == {i \in 1 .. n : (i - 1 + 0) % d = r}
<1>1. \A i \in 1 .. n : i \in I <=> (i - 1) % d = r OBVIOUS
<1> HIDE DEF I
<1>2. Dealt(Kept(Ids(n), I), n, d, r) BY <1>1, DealtTo
<1> QED BY <1>2 DEF At, I

\* And row i is at its round's place with its rank.
LEMMA DealtPlace ==
  ASSUME NEW n \in Nat, NEW d \in Nat \ {0}, NEW i \in 1 .. n, NEW at, Dealt(at, n, d, (i - 1) % d)
  PROVE  /\ (i - 1) % d \in 0 .. d - 1
         /\ (i - 1) \div d + 1 \in 1 .. Len(at) /\ at[(i - 1) \div d + 1] = i
<1> DEFINE q == (i - 1) \div d  r == (i - 1) % d
<1>1. i - 1 \in Nat OBVIOUS
<1>2. q \in Nat /\ r \in 0 .. d - 1 /\ i - 1 = q * d + r BY <1>1, Divided
<1>3. /\ at \in Seq(Nat) /\ n <= Len(at) * d + r
      /\ \A k \in 1 .. Len(at) : at[k] = (k - 1) * d + r + 1 /\ at[k] <= n
  BY DEF Dealt
<1> DEFINE L == Len(at)
<1>4. L \in Nat BY <1>3
<1> HIDE DEF q, r, L
<1>5. q < L
  <2> SUFFICES ASSUME L <= q PROVE FALSE BY <1>2, <1>4
  <2>1. L * d <= q * d /\ L * d \in Nat /\ q * d \in Nat BY <1>2, <1>4, RoundsFollow
  <2> DEFINE A == q * d  B == L * d
  <2>2. A \in Nat /\ B \in Nat /\ B <= A /\ i - 1 = A + r /\ n <= B + r BY <1>2, <1>3, <2>1 DEF L
  <2> HIDE DEF A, B
  <2> QED BY <1>2, <2>2
<1>6. q + 1 \in 1 .. L /\ (q + 1) - 1 = q BY <1>2, <1>4, <1>5
<1>7. at[q + 1] = q * d + r + 1 BY <1>3, <1>6 DEF L
<1>8. at[q + 1] = i
  <2> DEFINE A == q * d
  <2>1. A \in Nat /\ i - 1 = A + r /\ at[q + 1] = A + r + 1 BY <1>2, <1>7, RoundsFollow
  <2> HIDE DEF A
  <2> QED BY <1>2, <2>1
<1> QED BY <1>2, <1>6, <1>8 DEF q, r, L

\* Nothing is added by keeping.
LEMMA KeptIsShorter ==
  ASSUME NEW X, NEW s \in Seq(X), NEW S
  PROVE  Len(Kept(s, S)) <= Len(s)
<1> DEFINE n == Len(s)
<1>0. n \in Nat OBVIOUS
<1>1. PICK f : KeptUpTo(f, s, S, n) /\ Kept(s, S) = f[n] BY KeptExists
<1>2. \A i \in 0 .. n : f[i] = IF i = 0 THEN << >> ELSE IF s[i] \in S THEN Append(f[i - 1], s[i]) ELSE f[i - 1]
  BY <1>1 DEF KeptUpTo
<1> DEFINE T == {m \in 0 .. n : f[m] \in Seq(X) /\ Len(f[m]) <= m}
<1>3. 0 \in T
  <2>1. f[0] = << >> BY <1>0, <1>2
  <2> DEFINE e == << >>
  <2>2. e \in Seq(X) /\ Len(e) = 0 OBVIOUS
  <2>3. f[0] = e BY <2>1
  <2> HIDE DEF e, n
  <2>4. f[0] \in Seq(X) /\ Len(f[0]) <= 0 BY <2>2, <2>3
  <2> QED BY <1>0, <2>4
<1>4. ASSUME NEW m \in 0 .. n - 1, m \in T PROVE m + 1 \in T
  <2>1. m \in Nat /\ m + 1 \in 0 .. n /\ m + 1 # 0 /\ (m + 1) - 1 = m /\ m + 1 \in 1 .. n BY <1>0
  <2>2. f[m + 1] = IF s[m + 1] \in S THEN Append(f[m], s[m + 1]) ELSE f[m] BY <1>2, <2>1
  <2>3. s[m + 1] \in X /\ f[m] \in Seq(X) /\ Len(f[m]) <= m BY <1>4, <2>1
  <2> DEFINE g == f[m]  x == s[m + 1]
  <2>4. Append(g, x) \in Seq(X) /\ Len(Append(g, x)) = Len(g) + 1 BY <2>3
  <2> DEFINE h == f[m + 1]  b == Append(g, x)
  <2>5. h = b \/ h = g BY <2>2
  <2>6. g \in Seq(X) /\ Len(g) <= m /\ Len(g) \in Nat BY <2>3
  <2>8. b \in Seq(X) /\ Len(b) = Len(g) + 1 BY <2>4
  <2> HIDE DEF g, x, h, b, n, T
  <2>7. h \in Seq(X) /\ Len(h) <= m + 1 BY <2>1, <2>8, <2>5, <2>6
  <2> USE DEF h, T
  <2> QED BY <2>1, <2>7
<1> HIDE DEF T
<1>5. 0 .. n \subseteq T BY <1>0, <1>3, <1>4, IntervalInduction
<1>6. n \in T BY <1>0, <1>5
<1> QED BY <1>1, <1>6 DEF T

\* at holds, once each, the rows that satisfy the offset deal to r.
Once(at, n, d, offset, r) ==
  /\ at \in Seq(Nat) /\ Len(at) <= n
  /\ \A k \in 1 .. Len(at) : at[k] \in 1 .. n /\ (at[k] - 1 + offset) % d = r
  /\ \A j, k \in 1 .. Len(at) : at[j] = at[k] => j = k
  /\ \A i \in 1 .. n : (i - 1 + offset) % d = r => \E k \in 1 .. Len(at) : at[k] = i

\* With an offset each row is somewhere once.
LEMMA AtOnce ==
  ASSUME NEW n \in Nat, NEW d \in Nat \ {0}, NEW offset \in Nat, NEW r
  PROVE  Once(At(n, d, offset, r), n, d, offset, r)
<1> DEFINE I == {i \in 1 .. n : (i - 1 + offset) % d = r}  s == Ids(n)  at == Kept(s, I)
<1>0. s \in Seq(Nat) /\ Len(s) = n /\ \A i \in 1 .. n : s[i] = i BY IdsAre
<1>1. \A i \in I : i \in 1 .. n /\ (i - 1 + offset) % d = r OBVIOUS
<1>2. \A i \in 1 .. n : (i - 1 + offset) % d = r => i \in I OBVIOUS
<1>5. At(n, d, offset, r) = at BY DEF At
<1> HIDE DEF s, I
<1>3. /\ at \in Seq(Nat)
      /\ \A i \in 1 .. Len(s) : s[i] \in I => \E j \in 1 .. Len(at) : at[j] = s[i]
      /\ \A j \in 1 .. Len(at) : at[j] \in I
      /\ (\A i, j \in 1 .. Len(s) : s[i] = s[j] => i = j) =>
              \A i, j \in 1 .. Len(at) : at[i] = at[j] => i = j
  <2>1. s \in Seq(Nat) BY <1>0
  <2> QED BY <2>1, KeptFacts
<1>4. Len(at) <= n BY <1>0, KeptIsShorter
<1> HIDE DEF at
<1>6. \A j \in 1 .. Len(at) : at[j] \in 1 .. n /\ (at[j] - 1 + offset) % d = r BY <1>1, <1>3
<1>7. \A i, j \in 1 .. Len(at) : at[i] = at[j] => i = j BY <1>0, <1>3
<1>8. \A i \in 1 .. n : (i - 1 + offset) % d = r => \E k \in 1 .. Len(at) : at[k] = i BY <1>0, <1>2, <1>3
<1>9. Once(at, n, d, offset, r) BY <1>3, <1>4, <1>6, <1>7, <1>8 DEF Once
<1> QED BY <1>5, <1>9

-----------------------------------------------------------------------------
(* The merges                                                              *)

\* TP rank 0 of each group is heard (dp_rank0_results).
LEMMA Rank0Is ==
  ASSUME NEW req, req.dp \in Nat \ {0}, req.tp \in Nat \ {0}, NEW shares, DOMAIN shares = 0 .. req.dp - 1,
         shares = [e \in DOMAIN shares |-> shares[e]]
  PROVE  Rank0(req, Results(req, shares)) = shares
<1> DEFINE d == req.dp  t == req.tp
<1>1. ASSUME NEW e \in 0 .. d - 1 PROVE Rank0(req, Results(req, shares))[e] = shares[e]
  <2>1. e \in Nat /\ e + 1 <= d BY <1>1
  <2>2. e * t \in Nat /\ (e + 1) * t = e * t + t /\ (e + 1) * t <= d * t BY <2>1, RoundsFollow
  <2>3. d * t \in Nat BY RoundsFollow
  <2>4. e * t \in 0 .. d * t - 1 BY <2>2, <2>3
  <2>5. (e * t) % t = 0 /\ (e * t) \div t = e
    <3> DEFINE a == e * t
    <3>1. a \in Nat BY <2>2
    <3>2. a \div t \in Nat /\ a % t \in 0 .. t - 1 /\ a = (a \div t) * t + (a % t) BY <3>1, Divided
    <3>3. a = e * t + 0 /\ 0 \in 0 .. t - 1 BY <2>2
    <3> DEFINE q == a \div t  s == a % t
    <3>4. q \in Nat /\ s \in 0 .. t - 1 /\ q * t + s = e * t + 0 BY <3>2, <3>3
    <3>6. q * t + s = e * t + 0 /\ t \in Nat \ {0} /\ 0 \in 0 .. t - 1 /\ e \in Nat BY <2>1, <3>4
    <3>7. q \in Nat /\ s \in 0 .. t - 1 BY <3>4
    <3> DEFINE z == 0
    <3>8. z \in 0 .. t - 1 /\ q * t + s = e * t + z BY <3>6
    <3> HIDE DEF a, q, s, z
    <3>5. q = e /\ s = z BY <3>6, <3>7, <3>8, OnePlace
    <3> QED BY <3>5 DEF q, s, a, z
  <2> DEFINE a == e * t
  <2>6. Rank0(req, Results(req, shares))[e] = Results(req, shares)[a] BY DEF Rank0
  <2>7. Results(req, shares)[a] = IF a % t = 0 THEN shares[a \div t] ELSE None BY <2>4 DEF Results
  <2> QED BY <2>5, <2>6, <2>7
<1>2. Rank0(req, Results(req, shares)) = [e \in 0 .. d - 1 |-> Rank0(req, Results(req, shares))[e]] BY DEF Rank0
<1> QED BY <1>1, <1>2

\* The synchronous merge undoes the deal.
LEMMA MergeInOrderIs ==
  ASSUME NEW chunk \in Seq(Nat), NEW d \in Nat \ {0}
  PROVE  MergeInOrder(Split(chunk, d, 0), d, Len(chunk)) = chunk
<1> DEFINE n == Len(chunk)  outs == Split(chunk, d, 0)
<1>1. n \in Nat /\ DOMAIN chunk = 1 .. n /\ chunk = [i \in 1 .. n |-> chunk[i]] OBVIOUS
<1> HIDE DEF n
<1>2. HasShares(outs, chunk, n, d, 0) BY <1>1, SplitIs
<1> HIDE DEF outs
<1>3. ASSUME NEW i \in 1 .. n
      PROVE  LET out == outs[(i - 1) % d]  k == (i - 1) \div d + 1
             IN (IF k \in DOMAIN out THEN out[k] ELSE None) = chunk[i]
  <2> DEFINE r == (i - 1) % d  k == (i - 1) \div d + 1  at == At(n, d, 0, r)
  <2>1. r \in 0 .. d - 1
    <3>1. i - 1 \in Nat BY <1>1
    <3> QED BY <3>1, Divided
  <2>2. Dealt(at, n, d, r)
    <3> HIDE DEF r
    <3> QED BY <1>1, <2>1, AtDealt
  <2>3. k \in 1 .. Len(at) /\ at[k] = i
    <3>1. Dealt(at, n, d, (i - 1) % d) BY <2>2
    <3> HIDE DEF at
    <3> QED BY <1>1, <3>1, DealtPlace
  <2> HIDE DEF k, r
  <2>4. DOMAIN outs[r] = 1 .. Len(at) /\ outs[r][k] = chunk[at[k]] BY <1>2, <2>1, <2>3 DEF HasShares
  <2> HIDE DEF at
  <2>5. (IF k \in DOMAIN outs[r] THEN outs[r][k] ELSE None) = chunk[i] BY <2>3, <2>4
  <2> QED BY <2>5 DEF r, k
<1>4. MergeInOrder(outs, d, n) = [i \in 1 .. n |-> chunk[i]] BY <1>3 DEF MergeInOrder
<1> QED BY <1>1, <1>4 DEF n, outs

\* So does the asynchronous one, whatever rank the deal begins with.
LEMMA MergeByIndicesIs ==
  ASSUME NEW chunk \in Seq(Nat), NEW d \in Nat \ {0}, NEW offset \in Nat, NEW from \in Nat
  PROVE  MergeByIndices(Split(chunk, d, offset), Split(Indices(from, Len(chunk)), d, offset), from, Len(chunk))
           = chunk
<1> DEFINE n == Len(chunk)  ids == Indices(from, n)
           outs == Split(chunk, d, offset)  indices == Split(ids, d, offset)
           A(r) == At(n, d, offset, r)
<1>1. n \in Nat /\ DOMAIN chunk = 1 .. n /\ chunk = [i \in 1 .. n |-> chunk[i]] OBVIOUS
<1> HIDE DEF n
<1>2. DOMAIN ids = 1 .. n /\ \A i \in 1 .. n : ids[i] = from + i BY DEF Indices
<1> HIDE DEF ids
<1>a. HasShares(outs, chunk, n, d, offset) /\ HasShares(indices, ids, n, d, offset) BY <1>1, <1>2, SplitIs
<1> HIDE DEF outs, indices
<1>3. /\ DOMAIN outs = 0 .. d - 1 /\ DOMAIN indices = 0 .. d - 1
      /\ \A r \in 0 .. d - 1 :
           /\ DOMAIN outs[r] = 1 .. Len(A(r)) /\ DOMAIN indices[r] = 1 .. Len(A(r))
           /\ \A k \in 1 .. Len(A(r)) : outs[r][k] = chunk[A(r)[k]] /\ indices[r][k] = ids[A(r)[k]]
  BY <1>a DEF HasShares
<1>5. \A r : Once(A(r), n, d, offset, r) BY <1>1, AtOnce
<1> HIDE DEF A
<1>6. ASSUME NEW i \in 1 .. n
      PROVE  LET at == {p \in (DOMAIN outs) \X (1 .. n) :
                          /\ p[2] \in DOMAIN indices[p[1]] /\ p[2] \in DOMAIN outs[p[1]]
                          /\ indices[p[1]][p[2]] = from + i}
             IN (IF Cardinality(at) # 1 THEN None
                 ELSE LET p == CHOOSE p \in at : TRUE IN outs[p[1]][p[2]]) = chunk[i]
  <2> DEFINE at == {p \in (DOMAIN outs) \X (1 .. n) :
                      /\ p[2] \in DOMAIN indices[p[1]] /\ p[2] \in DOMAIN outs[p[1]]
                      /\ indices[p[1]][p[2]] = from + i}
             r == (i - 1 + offset) % d
  <2>1. r \in 0 .. d - 1
    <3>1. i - 1 + offset \in Nat BY <1>1
    <3> QED BY <3>1, Divided
  <2>a. Once(A(r), n, d, offset, r) /\ (i - 1 + offset) % d = r BY <1>5
  <2> HIDE DEF r
  <2>2. PICK k \in 1 .. Len(A(r)) : A(r)[k] = i BY <2>a DEF Once
  <2>3. /\ k \in 1 .. n
        /\ k \in DOMAIN indices[r] /\ k \in DOMAIN outs[r] /\ indices[r][k] = from + i /\ outs[r][k] = chunk[i]
    <3>1. Len(A(r)) \in Nat /\ Len(A(r)) <= n BY <2>a DEF Once
    <3>2. k \in 1 .. n BY <1>1, <3>1
    <3>3. k \in DOMAIN indices[r] /\ k \in DOMAIN outs[r] /\ indices[r][k] = ids[i] /\ outs[r][k] = chunk[i]
      BY <1>3, <2>1, <2>2
    <3> QED BY <1>2, <3>2, <3>3
  <2>4. <<r, k>> \in at BY <1>3, <2>1, <2>3
  <2>5. ASSUME NEW p \in at PROVE p = <<r, k>>
    <3>1. /\ p \in (0 .. d - 1) \X (1 .. n) /\ p[2] \in DOMAIN indices[p[1]] /\ indices[p[1]][p[2]] = from + i
      BY <1>3
    <3>2. PICK r1 \in 0 .. d - 1, k1 \in 1 .. n : p = <<r1, k1>> BY <3>1
    <3>3. k1 \in DOMAIN indices[r1] /\ indices[r1][k1] = from + i BY <3>1, <3>2
    <3>4. k1 \in 1 .. Len(A(r1)) /\ indices[r1][k1] = ids[A(r1)[k1]] BY <1>3, <3>2, <3>3
    <3>a. Once(A(r1), n, d, offset, r1) BY <1>5
    <3>5. A(r1)[k1] \in 1 .. n /\ (A(r1)[k1] - 1 + offset) % d = r1 BY <3>a, <3>4 DEF Once
    <3>6. A(r1)[k1] = i
      <4> DEFINE a == A(r1)[k1]
      <4>1. a \in 1 .. n /\ indices[r1][k1] = ids[a] /\ indices[r1][k1] = from + i BY <3>3, <3>4, <3>5
      <4> HIDE DEF a
      <4>2. from + a = from + i BY <1>2, <4>1
      <4>3. a = i BY <1>1, <4>1, <4>2
      <4> QED BY <4>3 DEF a
    <3>7. r1 = r BY <2>a, <3>5, <3>6
    <3>8. k1 = k
      <4>1. k1 \in 1 .. Len(A(r)) /\ A(r)[k1] = A(r)[k] BY <2>2, <3>4, <3>6, <3>7
      <4> QED BY <2>a, <2>2, <4>1 DEF Once
    <3> QED BY <3>2, <3>7, <3>8
  <2> HIDE DEF at
  <2>6. at = {<<r, k>>} BY <2>4, <2>5
  <2>7. Cardinality(at) = 1 BY <2>6, FS_Singleton
  <2> DEFINE c == CHOOSE p \in at : TRUE
  <2>9. c = <<r, k>>
    <3>1. c \in at BY <2>4
    <3> QED BY <2>6, <3>1
  <2> HIDE DEF c
  <2>b. outs[c[1]][c[2]] = chunk[i] BY <2>3, <2>9
  <2>8. (IF Cardinality(at) # 1 THEN None
         ELSE LET p == CHOOSE p \in at : TRUE IN outs[p[1]][p[2]]) = chunk[i]
    BY <2>7, <2>b DEF c
  <2> QED BY <2>8 DEF at
<1> DEFINE V(i) == LET at == {p \in (DOMAIN outs) \X (1 .. n) :
                          /\ p[2] \in DOMAIN indices[p[1]] /\ p[2] \in DOMAIN outs[p[1]]
                          /\ indices[p[1]][p[2]] = from + i}
                   IN IF Cardinality(at) # 1 THEN None
                      ELSE LET p == CHOOSE p \in at : TRUE IN outs[p[1]][p[2]]
<1>7. MergeByIndices(outs, indices, from, n) = [i \in 1 .. n |-> V(i)] BY DEF MergeByIndices
<1>8. \A i \in 1 .. n : V(i) = chunk[i] BY <1>6
<1> HIDE DEF V
<1>9. MergeByIndices(outs, indices, from, n) = chunk BY <1>1, <1>7, <1>8
<1> QED BY <1>9 DEF n, ids, outs, indices

-----------------------------------------------------------------------------
(* One sequence of many                                                    *)

\* The function by which the sequences of ss are put behind each other.
JoinedUpTo(f, ss, n) ==
  f = [i \in 1 .. n |-> IF i = 1 THEN ss[i] ELSE f[i - 1] \o ss[i]]

\* There is such a function for any sequence that is not empty.
LEMMA JoinedExists ==
  ASSUME NEW ss, NEW m \in Nat, Len(ss) = m + 1
  PROVE  \E f : JoinedUpTo(f, ss, m + 1) /\ FlattenSeq(ss) = f[m + 1]
<1> DEFINE T == {n \in Nat : \E f : JoinedUpTo(f, ss, n + 1)}
<1>1. 0 \in T
  <2> DEFINE g == [i \in 1 .. 0 + 1 |-> ss[i]]
  <2>1. g = [i \in 1 .. 0 + 1 |-> IF i = 1 THEN ss[i] ELSE g[i - 1] \o ss[i]]
    <3>1. \A i \in 1 .. 0 + 1 : i = 1 OBVIOUS
    <3> QED BY <3>1
  <2> HIDE DEF g
  <2>2. JoinedUpTo(g, ss, 0 + 1) BY <2>1 DEF JoinedUpTo
  <2> QED BY <2>2
<1>2. ASSUME NEW n \in Nat, n \in T PROVE n + 1 \in T
  <2>1. PICK f : JoinedUpTo(f, ss, n + 1) BY <1>2
  <2> DEFINE g == [i \in 1 .. (n + 1) + 1 |-> IF i = (n + 1) + 1 THEN f[n + 1] \o ss[(n + 1) + 1] ELSE f[i]]
  <2>2. \A i \in 1 .. n + 1 : f[i] = IF i = 1 THEN ss[i] ELSE f[i - 1] \o ss[i] BY <2>1 DEF JoinedUpTo
  <2>3. \A i \in 1 .. n + 1 : g[i] = f[i] OBVIOUS
  <2>4. g[(n + 1) + 1] = f[n + 1] \o ss[(n + 1) + 1]
    <3> DEFINE last == (n + 1) + 1  v == f[n + 1] \o ss[(n + 1) + 1]
    <3>1. g = [i \in 1 .. last |-> IF i = last THEN v ELSE f[i]] OBVIOUS
    <3>2. last \in 1 .. last OBVIOUS
    <3> HIDE DEF g, last, v
    <3>3. g[last] = v BY <3>1, <3>2
    <3> QED BY <3>3 DEF last, v
  <2>6. g = [i \in 1 .. (n + 1) + 1 |-> g[i]] OBVIOUS
  <2> HIDE DEF g
  <2>5. ASSUME NEW i \in 1 .. (n + 1) + 1
        PROVE  g[i] = IF i = 1 THEN ss[i] ELSE g[i - 1] \o ss[i]
    <3>1. CASE i = 1 BY <2>2, <2>3, <3>1
    <3>2. CASE i \in 2 .. n + 1
      <4>1. i \in 1 .. n + 1 /\ i - 1 \in 1 .. n + 1 /\ i # 1 BY <3>2
      <4> QED BY <2>2, <2>3, <4>1
    <3>3. CASE i = (n + 1) + 1
      <4>1. i - 1 = n + 1 /\ i # 1 /\ n + 1 \in 1 .. n + 1 BY <3>3
      <4>2. g[n + 1] = f[n + 1] BY <2>3, <4>1
      <4>3. g[i] = g[i - 1] \o ss[i] BY <2>4, <3>3, <4>1, <4>2
      <4> QED BY <4>1, <4>3
    <3>4. i = 1 \/ i \in 2 .. n + 1 \/ i = (n + 1) + 1 OBVIOUS
    <3> QED BY <3>1, <3>2, <3>3, <3>4
  <2>7. JoinedUpTo(g, ss, (n + 1) + 1) BY <2>5, <2>6 DEF JoinedUpTo
  <2> QED BY <2>7
<1> HIDE DEF T
<1>3. T = Nat
  <2>1. \A n \in Nat : n \in T => n + 1 \in T BY <1>2
  <2> QED BY <1>1, <2>1, NatSetInduction DEF T
<1>4. \E f : JoinedUpTo(f, ss, m + 1) BY <1>3 DEF T
<1> DEFINE k == CHOOSE f : JoinedUpTo(f, ss, m + 1)
<1>5. JoinedUpTo(k, ss, m + 1) BY <1>4
<1>6. FlattenSeq(ss) = k[m + 1]
  <2>1. Len(ss) # 0 BY SMT
  <2>2. FlattenSeq(ss) = (CHOOSE f : JoinedUpTo(f, ss, Len(ss)))[Len(ss)] BY <2>1 DEF FlattenSeq, JoinedUpTo
  <2> QED BY <2>2
<1> QED BY <1>5, <1>6

\* Flattening adds one sequence at a time.
LEMMA FlattenSteps ==
  ASSUME NEW X, NEW ss \in Seq(Seq(X)), Len(ss) # 0
  PROVE  \E f : /\ FlattenSeq(ss) = f[Len(ss)] /\ f[1] = ss[1]
                /\ \A i \in 2 .. Len(ss) : f[i] = f[i - 1] \o ss[i]
                /\ \A i \in 1 .. Len(ss) : f[i] \in Seq(X)
<1>1. PICK m \in Nat : Len(ss) = m + 1
  <2>1. Len(ss) - 1 \in Nat /\ Len(ss) = (Len(ss) - 1) + 1 OBVIOUS
  <2> QED BY <2>1
<1>2. PICK f : JoinedUpTo(f, ss, m + 1) /\ FlattenSeq(ss) = f[m + 1] BY <1>1, JoinedExists
<1>3. \A i \in 1 .. m + 1 : f[i] = IF i = 1 THEN ss[i] ELSE f[i - 1] \o ss[i] BY <1>2 DEF JoinedUpTo
<1>4. f[1] = ss[1] /\ \A i \in 2 .. m + 1 : f[i] = f[i - 1] \o ss[i]
  <2>1. 1 \in 1 .. m + 1 OBVIOUS
  <2>2. f[1] = ss[1] BY <1>3, <2>1, Zenon
  <2>3. ASSUME NEW i \in 2 .. m + 1 PROVE f[i] = f[i - 1] \o ss[i]
    <3>1. i \in 1 .. m + 1 /\ i # 1 OBVIOUS
    <3> QED BY <1>3, <3>1, Zenon
  <2> QED BY <2>2, <2>3
<1>5. \A i \in 1 .. m + 1 : ss[i] \in Seq(X) BY <1>1
<1> DEFINE T == {n \in 0 .. m : f[n + 1] \in Seq(X)}
<1>6. 0 \in T BY <1>4, <1>5
<1>7. ASSUME NEW n \in 0 .. m - 1, n \in T PROVE n + 1 \in T
  <2>1. n + 1 \in 0 .. m /\ (n + 1) + 1 \in 2 .. m + 1 /\ ((n + 1) + 1) - 1 = n + 1 /\ (n + 1) + 1 \in 1 .. m + 1
    OBVIOUS
  <2>2. f[(n + 1) + 1] = f[n + 1] \o ss[(n + 1) + 1] BY <1>4, <2>1
  <2>3. f[n + 1] \in Seq(X) /\ ss[(n + 1) + 1] \in Seq(X) BY <1>5, <1>7, <2>1
  <2> DEFINE a == f[n + 1]  b == ss[(n + 1) + 1]  c == f[(n + 1) + 1]
  <2>4. a \in Seq(X) /\ b \in Seq(X) /\ c = a \o b BY <2>2, <2>3
  <2> HIDE DEF a, b, c
  <2>5. c \in Seq(X) BY <2>4
  <2> QED BY <2>1, <2>5 DEF c
<1> HIDE DEF T
<1>8. 0 .. m \subseteq T BY <1>6, <1>7, IntervalInduction
<1>9. ASSUME NEW i \in 1 .. m + 1 PROVE f[i] \in Seq(X)
  <2>1. i - 1 \in 0 .. m /\ (i - 1) + 1 = i OBVIOUS
  <2> QED BY <1>8, <2>1 DEF T
<1> QED BY <1>1, <1>2, <1>4, <1>9

\* A sequence put at the end is flattened behind the others.
LEMMA FlattenAppend ==
  ASSUME NEW X, NEW ss \in Seq(Seq(X)), NEW x \in Seq(X)
  PROVE  FlattenSeq(ss) \in Seq(X) /\ FlattenSeq(Append(ss, x)) = FlattenSeq(ss) \o x
<1> DEFINE tt == Append(ss, x)  n == Len(ss)
<1>1. /\ n \in Nat /\ tt \in Seq(Seq(X)) /\ Len(tt) = n + 1 /\ tt[n + 1] = x /\ \A i \in 1 .. n : tt[i] = ss[i]
  OBVIOUS
<1> HIDE DEF tt, n
<1>2. PICK g : /\ FlattenSeq(tt) = g[n + 1] /\ g[1] = tt[1]
               /\ \A i \in 2 .. n + 1 : g[i] = g[i - 1] \o tt[i]
  <2>1. tt \in Seq(Seq(X)) /\ Len(tt) # 0 BY <1>1
  <2>2. \E g : /\ FlattenSeq(tt) = g[Len(tt)] /\ g[1] = tt[1]
               /\ \A i \in 2 .. Len(tt) : g[i] = g[i - 1] \o tt[i]
               /\ \A i \in 1 .. Len(tt) : g[i] \in Seq(X)
    BY <2>1, FlattenSteps, Zenon
  <2>3. Len(tt) = n + 1 BY <1>1
  <2> QED BY <2>2, <2>3, Zenon
<1>3. CASE n = 0
  <2>1. ss = << >> BY <1>3 DEF n
  <2>2. FlattenSeq(ss) = << >> BY <2>1 DEF FlattenSeq
  <2>3. FlattenSeq(tt) = x BY <1>1, <1>2, <1>3
  <2> DEFINE e == << >>
  <2>4. e \in Seq(X) /\ e \o x = x OBVIOUS
  <2>5. FlattenSeq(ss) = e BY <2>2
  <2> HIDE DEF e
  <2> QED BY <2>3, <2>4, <2>5 DEF tt
<1>4. CASE n # 0
  <2>1. PICK f : /\ FlattenSeq(ss) = f[n] /\ f[1] = ss[1]
                 /\ \A i \in 2 .. n : f[i] = f[i - 1] \o ss[i]
                 /\ \A i \in 1 .. n : f[i] \in Seq(X)
    BY <1>4, FlattenSteps DEF n
  <2>2. PICK m \in Nat : n = m + 1
    <3>1. n - 1 \in Nat /\ n = (n - 1) + 1 BY <1>1, <1>4
    <3> QED BY <3>1
  <2> DEFINE T == {k \in 0 .. m : g[k + 1] = f[k + 1]}
  <2>3. 0 \in T BY <1>1, <1>2, <2>1, <2>2
  <2>4. ASSUME NEW k \in 0 .. m - 1, k \in T PROVE k + 1 \in T
    <3>1. k + 1 \in 0 .. m /\ (k + 1) + 1 \in 2 .. n /\ (k + 1) + 1 \in 2 .. n + 1
          /\ ((k + 1) + 1) - 1 = k + 1 /\ (k + 1) + 1 \in 1 .. n
      BY <2>2
    <3>2. g[(k + 1) + 1] = g[k + 1] \o tt[(k + 1) + 1] BY <1>2, <3>1
    <3>3. f[(k + 1) + 1] = f[k + 1] \o ss[(k + 1) + 1] BY <2>1, <3>1
    <3>4. tt[(k + 1) + 1] = ss[(k + 1) + 1] BY <1>1, <3>1
    <3> QED BY <2>4, <3>1, <3>2, <3>3, <3>4
  <2> HIDE DEF T
  <2>5. 0 .. m \subseteq T BY <2>3, <2>4, IntervalInduction
  <2>6. g[n] = f[n] BY <2>2, <2>5 DEF T
  <2>7. n + 1 \in 2 .. n + 1 /\ (n + 1) - 1 = n /\ n \in 1 .. n BY <1>1, <1>4
  <2>8. FlattenSeq(tt) = f[n] \o x BY <1>1, <1>2, <2>6, <2>7
  <2>9. FlattenSeq(ss) \in Seq(X) /\ FlattenSeq(tt) = FlattenSeq(ss) \o x BY <2>1, <2>7, <2>8
  <2> QED BY <2>9 DEF tt
<1> QED BY <1>3, <1>4

\* The first m of the numbers up to n.
LEMMA KeptPrefix ==
  ASSUME NEW n \in Nat, NEW m \in 0 .. n
  PROVE  Kept(Ids(n), 1 .. m) = Ids(m)
<1> DEFINE s == Ids(n)
<1>0. s \in Seq(Nat) /\ Len(s) = n /\ \A i \in 1 .. n : s[i] = i BY IdsAre
<1> HIDE DEF s
<1>1. PICK f : KeptUpTo(f, s, 1 .. m, n) /\ Kept(s, 1 .. m) = f[n] BY <1>0, KeptExists
<1>2. \A i \in 0 .. n : f[i] = IF i = 0 THEN << >> ELSE IF s[i] \in 1 .. m THEN Append(f[i - 1], s[i]) ELSE f[i - 1]
  BY <1>1 DEF KeptUpTo
<1> DEFINE upto(i) == IF i <= m THEN i ELSE m
           T == {i \in 0 .. n : f[i] = Ids(upto(i))}
<1>3. 0 \in T
  <2>1. f[0] = << >> BY <1>2
  <2>2. Ids(0) = << >>
    <3>1. Ids(0) \in Seq(Nat) /\ Len(Ids(0)) = 0 BY IdsAre
    <3> QED BY <3>1
  <2> QED BY <2>1, <2>2
<1>4. ASSUME NEW i \in 0 .. n - 1, i \in T PROVE i + 1 \in T
  <2>1. i \in Nat /\ i + 1 \in 0 .. n /\ i + 1 \in 1 .. n /\ i + 1 # 0 /\ (i + 1) - 1 = i OBVIOUS
  <2>2. f[i + 1] = IF i + 1 \in 1 .. m THEN Append(f[i], i + 1) ELSE f[i] BY <1>0, <1>2, <2>1
  <2>3. CASE i + 1 <= m
    <3>1. f[i + 1] = Append(Ids(i), i + 1) BY <1>4, <2>1, <2>2, <2>3
    <3>2. Append(Ids(i), i + 1) = Ids(i + 1)
      <4>1. Ids(i) \in Seq(Nat) /\ Len(Ids(i)) = i /\ \A j \in 1 .. i : Ids(i)[j] = j BY <2>1, IdsAre
      <4>2. Ids(i + 1) \in Seq(Nat) /\ Len(Ids(i + 1)) = i + 1 /\ \A j \in 1 .. i + 1 : Ids(i + 1)[j] = j
        BY <2>1, IdsAre
      <4> DEFINE a == Ids(i)  b == Ids(i + 1)  c == Append(a, i + 1)
      <4>3. c \in Seq(Nat) /\ Len(c) = i + 1 /\ \A j \in 1 .. i + 1 : c[j] = j BY <2>1, <4>1
      <4> HIDE DEF a, b, c
      <4>4. b \in Seq(Nat) /\ Len(b) = i + 1 /\ \A j \in 1 .. i + 1 : b[j] = j BY <4>2 DEF b
      <4>5. c = b BY <4>3, <4>4, SameSequence
      <4> QED BY <4>5 DEF a, b, c
    <3> QED BY <2>1, <2>3, <3>1, <3>2
  <2>4. CASE ~(i + 1 <= m)
    <3>1. f[i + 1] = f[i] /\ upto(i + 1) = m BY <2>1, <2>2, <2>4
    <3>2. upto(i) = m BY <2>1, <2>4
    <3> QED BY <1>4, <2>1, <3>1, <3>2
  <2> QED BY <2>3, <2>4
<1> HIDE DEF T
<1>5. 0 .. n \subseteq T BY <1>3, <1>4, IntervalInduction
<1>6. f[n] = Ids(upto(n)) BY <1>5 DEF T
<1>7. upto(n) = m OBVIOUS
<1> QED BY <1>1, <1>6, <1>7 DEF s

\* Among the elements of a sequence of numbers at some of its places one is the greatest.
LEMMA Greatest ==
  ASSUME NEW n \in Nat, NEW f, \A i \in 1 .. n : f[i] \in Nat, NEW B \in SUBSET (1 .. n), B # {}
  PROVE  Max({f[j] : j \in B}) \in Nat /\ \A j \in B : f[j] <= Max({f[j2] : j2 \in B})
<1> DEFINE T == {m \in 0 .. n : \A S \in SUBSET (1 .. m) : S # {} => \E x \in S : \A y \in S : f[x] >= f[y]}
<1>1. 0 \in T
  <2>1. 1 .. 0 = {} OBVIOUS
  <2>2. \A S \in SUBSET (1 .. 0) : S = {} BY <2>1
  <2>3. 0 \in 0 .. n OBVIOUS
  <2> QED BY <2>2, <2>3, Zenon
<1>2. ASSUME NEW m \in 0 .. n - 1, m \in T PROVE m + 1 \in T
  <2>1. m + 1 \in 0 .. n /\ m + 1 \in 1 .. n /\ 1 .. m + 1 = 1 .. m \cup {m + 1} /\ 1 .. m \subseteq 1 .. n OBVIOUS
  <2>2. ASSUME NEW S \in SUBSET (1 .. m + 1), S # {} PROVE \E x \in S : \A y \in S : f[x] >= f[y]
    <3> DEFINE R == S \ {m + 1}
    <3>1. R \in SUBSET (1 .. m) BY <2>1
    <3>2. \A y \in S : y \in R \/ y = m + 1 OBVIOUS
    <3>3. \A y \in S : f[y] \in Nat BY <2>1
    <3>4. CASE R = {}
      <4>1. PICK x \in S : TRUE BY <2>2
      <4>2. \A y \in S : f[x] >= f[y] BY <3>2, <3>3, <3>4
      <4> QED BY <4>2
    <3>5. CASE R # {}
      <4>1. PICK x \in R : \A y \in R : f[x] >= f[y] BY <1>2, <3>1, <3>5
      <4>2. CASE m + 1 \in S /\ f[m + 1] >= f[x]
        <5>1. ASSUME NEW y \in S PROVE f[m + 1] >= f[y]
          <6>1. f[m + 1] \in Nat /\ f[x] \in Nat /\ f[y] \in Nat BY <3>3, <4>2
          <6> QED BY <3>2, <4>1, <4>2, <6>1
        <5> QED BY <4>2, <5>1
      <4>3. CASE ~(m + 1 \in S /\ f[m + 1] >= f[x])
        <5>1. ASSUME NEW y \in S PROVE f[x] >= f[y]
          <6>1. f[x] \in Nat /\ f[y] \in Nat BY <3>3
          <6> QED BY <3>2, <4>1, <4>3, <6>1
        <5> QED BY <5>1
      <4> QED BY <4>2, <4>3
    <3> QED BY <3>4, <3>5
  <2> QED BY <2>1, <2>2
<1> HIDE DEF T
<1>3. 0 .. n \subseteq T BY <1>1, <1>2, IntervalInduction
<1>4. PICK x \in B : \A y \in B : f[x] >= f[y]
  <2>1. n \in T BY <1>3
  <2> QED BY <2>1 DEF T
<1> DEFINE S == {f[j] : j \in B}
<1>5. \A y \in S : f[x] >= y BY <1>4
<1>6. f[x] \in S BY <1>4
<1>7. Max(S) \in S /\ \A y \in S : Max(S) >= y BY <1>5, <1>6 DEF Max
<1>8. S \subseteq Nat OBVIOUS
<1>9. ASSUME NEW j \in B PROVE f[j] <= Max(S)
  <2>1. f[j] \in S OBVIOUS
  <2> QED BY <1>7, <1>8, <2>1
<1> QED BY <1>7, <1>8, <1>9

-----------------------------------------------------------------------------
(* The chunks                                                              *)

\* The function by which rows are placed one after the other.
PlacedUpTo(f, lens, running, d, budget, n) ==
  f = [i \in 0 .. n |->
        IF i = 0 THEN [done |-> << >>, chunk |-> << >>, sums |-> [q \in 0 .. d - 1 |-> 0]]
        ELSE Place(f[i - 1], i, lens, running, d, budget)]

\* There is such a function, and the chunks are read off it.
LEMMA PlacedExists ==
  ASSUME NEW lens, Len(lens) \in Nat, NEW running, NEW d, NEW budget
  PROVE  \E f : /\ PlacedUpTo(f, lens, running, d, budget, Len(lens))
                /\ Chunks(lens, running, d, budget) =
                     IF f[Len(lens)].chunk = << >> THEN f[Len(lens)].done
                     ELSE Append(f[Len(lens)].done, f[Len(lens)].chunk)
<1> DEFINE P(f, n) == PlacedUpTo(f, lens, running, d, budget, n)
           first == [done |-> << >>, chunk |-> << >>, sums |-> [q \in 0 .. d - 1 |-> 0]]
           T == {n \in Nat : \E f : P(f, n)}
<1>1. 0 \in T
  <2>1. P([i \in 0 .. 0 |-> first], 0)
    <3> DEFINE g == [i \in 0 .. 0 |-> first]
    <3>1. g = [i \in 0 .. 0 |-> IF i = 0 THEN first ELSE Place(g[i - 1], i, lens, running, d, budget)]
      <4>1. \A i \in 0 .. 0 : i = 0 OBVIOUS
      <4> HIDE DEF first
      <4> QED BY <4>1
    <3> HIDE DEF g
    <3> QED BY <3>1 DEF PlacedUpTo, g
  <2> QED BY <2>1
<1>2. ASSUME NEW n \in Nat, n \in T PROVE n + 1 \in T
  <2>1. PICK f : P(f, n) BY <1>2
  <2> DEFINE last == Place(f[n], n + 1, lens, running, d, budget)
             g == [i \in 0 .. n + 1 |-> IF i = n + 1 THEN last ELSE f[i]]
  <2>2. \A i \in 0 .. n : f[i] = IF i = 0 THEN first ELSE Place(f[i - 1], i, lens, running, d, budget)
    BY <2>1 DEF PlacedUpTo
  <2> HIDE DEF first, last
  <2>3. \A i \in 0 .. n : g[i] = f[i] OBVIOUS
  <2>4. g[n + 1] = last OBVIOUS
  <2>5. g = [i \in 0 .. n + 1 |-> g[i]] OBVIOUS
  <2> HIDE DEF g
  <2>6. ASSUME NEW i \in 0 .. n + 1
        PROVE  g[i] = IF i = 0 THEN first ELSE Place(g[i - 1], i, lens, running, d, budget)
    <3>1. CASE i = 0
      <4>1. i \in 0 .. n BY <3>1
      <4> QED BY <2>2, <2>3, <3>1, <4>1, Zenon
    <3>2. CASE i \in 1 .. n
      <4>1. i \in 0 .. n /\ i - 1 \in 0 .. n /\ i # 0 BY <3>2
      <4>2. g[i] = f[i] /\ g[i - 1] = f[i - 1] BY <2>3, <4>1
      <4> QED BY <2>2, <4>1, <4>2, Zenon
    <3>3. CASE i = n + 1
      <4>1. i - 1 = n /\ i # 0 /\ n \in 0 .. n BY <3>3
      <4>2. g[i - 1] = f[n] BY <2>3, <4>1
      <4>3. g[i] = Place(g[i - 1], i, lens, running, d, budget) BY <2>4, <3>3, <4>2, Zenon DEF last
      <4> QED BY <4>1, <4>3, Zenon
    <3>4. i = 0 \/ i \in 1 .. n \/ i = n + 1 OBVIOUS
    <3> QED BY <3>1, <3>2, <3>3, <3>4
  <2>7. g = [i \in 0 .. n + 1 |-> IF i = 0 THEN first ELSE Place(g[i - 1], i, lens, running, d, budget)]
    BY <2>5, <2>6, Zenon
  <2>8. P(g, n + 1) BY <2>7 DEF PlacedUpTo, first
  <2> QED BY <2>8
<1> HIDE DEF T
<1>3. T = Nat
  <2>1. \A n \in Nat : n \in T => n + 1 \in T BY <1>2
  <2> QED BY <1>1, <2>1, NatSetInduction DEF T
<1>4. \E f : P(f, Len(lens)) BY <1>3 DEF T
<1> DEFINE k == CHOOSE f : P(f, Len(lens))
<1>5. P(k, Len(lens)) BY <1>4
<1>6. Chunks(lens, running, d, budget) =
        IF k[Len(lens)].chunk = << >> THEN k[Len(lens)].done
        ELSE Append(k[Len(lens)].done, k[Len(lens)].chunk)
  BY DEF Chunks, PlacedUpTo
<1> HIDE DEF k
<1> QED BY <1>5, <1>6

\* Chunks so far, with the rows up to i in their order.
HasRows(acc, i) ==
  /\ DOMAIN acc = {"done", "chunk", "sums"}
  /\ acc.done \in Seq(Seq(Nat)) /\ acc.chunk \in Seq(Nat)
  /\ FlattenSeq(acc.done) \o acc.chunk = Ids(i)

\* The numbers up to the next one.
LEMMA IdsAppend ==
  ASSUME NEW i \in Nat
  PROVE  Ids(i + 1) = Append(Ids(i), i + 1)
<1> DEFINE a == Ids(i)  b == Ids(i + 1)  c == Append(a, i + 1)
<1>1. a \in Seq(Nat) /\ Len(a) = i /\ \A j \in 1 .. i : a[j] = j BY IdsAre
<1>2. b \in Seq(Nat) /\ Len(b) = i + 1 /\ \A j \in 1 .. i + 1 : b[j] = j BY IdsAre
<1>3. c \in Seq(Nat) /\ Len(c) = i + 1 /\ \A j \in 1 .. i + 1 : c[j] = j BY <1>1
<1> HIDE DEF a, b, c
<1>4. c = b BY <1>2, <1>3, SameSequence
<1> QED BY <1>4 DEF a, b, c

\* One more element behind two sequences.
LEMMA JoinAppend ==
  ASSUME NEW X, NEW s \in Seq(X), NEW t \in Seq(X), NEW x \in X
  PROVE  (s \o t) \o <<x>> = Append(s \o t, x) /\ s \o Append(t, x) = Append(s \o t, x)
<1> DEFINE a == s \o t  b == Append(t, x)  u == a \o <<x>>  v == Append(a, x)  w == s \o b
<1>1. a \in Seq(X) /\ b \in Seq(X) BY ConcatElements
<1>2. /\ Len(a) = Len(s) + Len(t) /\ \A i \in 1 .. Len(s) : a[i] = s[i]
      /\ \A i \in Len(s) + 1 .. Len(s) + Len(t) : a[i] = t[i - Len(s)]
      /\ Len(s) \in Nat /\ Len(t) \in Nat
  BY ConcatElements
<1>3. Len(b) = Len(t) + 1 /\ b[Len(t) + 1] = x /\ \A i \in 1 .. Len(t) : b[i] = t[i] OBVIOUS
<1> HIDE DEF a, b
<1>4. u = v BY <1>1
<1>5. v \in Seq(X) /\ Len(v) = Len(a) + 1 /\ v[Len(a) + 1] = x /\ \A i \in 1 .. Len(a) : v[i] = a[i] BY <1>1
<1>6. /\ w \in Seq(X) /\ Len(w) = Len(s) + Len(b) /\ \A i \in 1 .. Len(s) : w[i] = s[i]
      /\ \A i \in Len(s) + 1 .. Len(s) + Len(b) : w[i] = b[i - Len(s)]
  BY <1>1, ConcatElements
<1> HIDE DEF v, w
<1>7. Len(w) = Len(v) BY <1>2, <1>3, <1>5, <1>6
<1>8. ASSUME NEW i \in 1 .. Len(w) PROVE w[i] = v[i]
  <2>1. CASE i \in 1 .. Len(s) BY <1>2, <1>5, <1>6, <2>1
  <2>2. CASE i \in Len(s) + 1 .. Len(s) + Len(t)
    <3>1. i - Len(s) \in 1 .. Len(t) /\ i \in 1 .. Len(a) /\ i \in Len(s) + 1 .. Len(s) + Len(b)
      BY <1>2, <1>3, <2>2
    <3> QED BY <1>2, <1>3, <1>5, <1>6, <2>2, <3>1
  <2>3. CASE i = Len(s) + Len(t) + 1
    <3>1. i - Len(s) = Len(t) + 1 /\ i = Len(a) + 1 /\ i \in Len(s) + 1 .. Len(s) + Len(b)
      BY <1>2, <1>3, <2>3
    <3> QED BY <1>3, <1>5, <1>6, <3>1
  <2>4. i \in 1 .. Len(s) + Len(t) + 1 BY <1>2, <1>3, <1>6
  <2> QED BY <1>2, <2>1, <2>2, <2>3, <2>4
<1>9. w = v BY <1>5, <1>6, <1>7, <1>8, SameSequence
<1> QED BY <1>4, <1>9 DEF a, b, v, w

\* Placing the next row keeps them.
LEMMA PlaceKeepsRows ==
  ASSUME NEW i \in Nat, NEW acc, HasRows(acc, i), NEW lens, NEW running, NEW d, NEW budget
  PROVE  HasRows(Place(acc, i + 1, lens, running, d, budget), i + 1)
<1> DEFINE done == acc.done  chunk == acc.chunk  new == Place(acc, i + 1, lens, running, d, budget)
           flat == FlattenSeq(done)
<1>1. done \in Seq(Seq(Nat)) /\ chunk \in Seq(Nat) /\ flat \o chunk = Ids(i) BY DEF HasRows
<1>2. flat \in Seq(Nat)
  <2> HIDE DEF done, chunk
  <2>1. << >> \in Seq(Nat) OBVIOUS
  <2> QED BY <1>1, <2>1, FlattenAppend
<1>3. \/ /\ DOMAIN new = {"done", "chunk", "sums"}
         /\ new.done = Append(done, chunk) /\ new.chunk = <<i + 1>>
      \/ /\ DOMAIN new = {"done", "chunk", "sums"}
         /\ new.done = done /\ new.chunk = Append(chunk, i + 1)
  BY DEF Place, HasRows
<1>4. i + 1 \in Nat /\ Ids(i + 1) = Append(Ids(i), i + 1) BY IdsAppend
<1> HIDE DEF new, done, chunk
<1>5. CASE /\ DOMAIN new = {"done", "chunk", "sums"}
           /\ new.done = Append(done, chunk) /\ new.chunk = <<i + 1>>
  <2>1. FlattenSeq(new.done) = flat \o chunk BY <1>1, <1>5, FlattenAppend
  <2>2. Append(done, chunk) \in Seq(Seq(Nat)) /\ <<i + 1>> \in Seq(Nat) BY <1>1, <1>4
  <2>3. (flat \o chunk) \o <<i + 1>> = Append(flat \o chunk, i + 1) BY <1>1, <1>2, <1>4, JoinAppend
  <2>4. FlattenSeq(new.done) \o new.chunk = Ids(i + 1) BY <1>1, <1>4, <1>5, <2>1, <2>3, Zenon
  <2> QED BY <1>5, <2>2, <2>4 DEF HasRows, new
<1>6. CASE /\ DOMAIN new = {"done", "chunk", "sums"}
           /\ new.done = done /\ new.chunk = Append(chunk, i + 1)
  <2>1. FlattenSeq(new.done) = flat BY <1>6
  <2>2. Append(chunk, i + 1) \in Seq(Nat) BY <1>1, <1>4
  <2>3. flat \o Append(chunk, i + 1) = Append(flat \o chunk, i + 1) BY <1>1, <1>2, <1>4, JoinAppend
  <2>4. FlattenSeq(new.done) \o new.chunk = Ids(i + 1) BY <1>1, <1>4, <1>6, <2>1, <2>3, Zenon
  <2> QED BY <1>1, <1>6, <2>2, <2>4 DEF HasRows, new
<1> QED BY <1>3, <1>5, <1>6

\* The chunks of a request, one behind the other, are its rows in order.
LEMMA ChunksAreRows ==
  ASSUME NEW lens, Len(lens) \in Nat, NEW running, NEW d, NEW budget
  PROVE  /\ Chunks(lens, running, d, budget) \in Seq(Seq(Nat))
         /\ FlattenSeq(Chunks(lens, running, d, budget)) = Ids(Len(lens))
<1> DEFINE n == Len(lens)  C == Chunks(lens, running, d, budget)
           first == [done |-> << >>, chunk |-> << >>, sums |-> [q \in 0 .. d - 1 |-> 0]]
<1>1. PICK f : /\ PlacedUpTo(f, lens, running, d, budget, n)
               /\ C = IF f[n].chunk = << >> THEN f[n].done ELSE Append(f[n].done, f[n].chunk)
  BY PlacedExists
<1>2. \A i \in 0 .. n : f[i] = IF i = 0 THEN first ELSE Place(f[i - 1], i, lens, running, d, budget)
  BY <1>1 DEF PlacedUpTo
<1>3. HasRows(first, 0)
  <2>1. Ids(0) \in Seq(Nat) /\ Len(Ids(0)) = 0 BY IdsAre
  <2>2. FlattenSeq(<< >>) = << >> BY DEF FlattenSeq
  <2>3. << >> \o << >> = Ids(0) BY <2>1
  <2> QED BY <2>2, <2>3 DEF HasRows
<1> HIDE DEF first
<1> DEFINE T == {i \in 0 .. n : HasRows(f[i], i)}
<1>4. 0 \in T BY <1>2, <1>3
<1>5. ASSUME NEW i \in 0 .. n - 1, i \in T PROVE i + 1 \in T
  <2>1. i \in Nat /\ i + 1 \in 0 .. n /\ i + 1 # 0 /\ (i + 1) - 1 = i OBVIOUS
  <2>2. f[i + 1] = Place(f[i], i + 1, lens, running, d, budget) BY <1>2, <2>1, Zenon
  <2> QED BY <1>5, <2>1, <2>2, PlaceKeepsRows
<1> HIDE DEF T
<1>6. 0 .. n \subseteq T BY <1>4, <1>5, IntervalInduction
<1>7. HasRows(f[n], n) BY <1>6 DEF T
<1> DEFINE done == f[n].done  chunk == f[n].chunk
<1>8. done \in Seq(Seq(Nat)) /\ chunk \in Seq(Nat) /\ FlattenSeq(done) \o chunk = Ids(n) BY <1>7 DEF HasRows
<1>9. C = IF chunk = << >> THEN done ELSE Append(done, chunk) BY <1>1
<1> HIDE DEF done, chunk, C, n
<1>10. FlattenSeq(done) \in Seq(Nat) /\ FlattenSeq(Append(done, chunk)) = FlattenSeq(done) \o chunk
  BY <1>8, FlattenAppend
<1>11. CASE chunk = << >>
  <2> DEFINE fl == FlattenSeq(done)
  <2>1. fl \in Seq(Nat) /\ fl \o << >> = Ids(n) BY <1>8, <1>10, <1>11
  <2> HIDE DEF fl
  <2>2. fl = Ids(n) BY <2>1
  <2> QED BY <1>8, <1>9, <1>11, <2>2 DEF fl, C, n
<1>12. CASE chunk # << >>
  <2>1. C = Append(done, chunk) BY <1>9, <1>12
  <2> QED BY <1>8, <1>10, <2>1 DEF C, n
<1> QED BY <1>11, <1>12

-----------------------------------------------------------------------------
(* Scored rows                                                             *)

\* The scores row i has to get.
Scores(req, i) ==
  LET n == req.lens[i] IN
  CASE req.op = "logprobs" -> [t \in 1 .. n |-> IF t = 1 THEN <<0, 0>> ELSE <<i, t>>]
    [] req.op = "values"   -> [t \in 1 .. n |-> <<i, t>>]
    [] req.op = "rewards"  -> <<<<i, n>>>>

\* A row to be rewarded has a last token.
HasLastTokens(req) == req.op = "rewards" => \A i \in DOMAIN req.lens : req.lens[i] # 0

\* A row that is scored once is flat as it is.
LEMMA FlatOnce ==
  ASSUME NEW req, req.lens \in Seq(Nat), req.samples = 1
  PROVE  Flat(req) = req.lens
<1> DEFINE s == req.lens  n == Len(s)
<1>1. s \in Seq(Nat) /\ n \in Nat OBVIOUS
<1>2. Flat(req) = [i \in 1 .. n * 1 |-> s[(i - 1) \div 1 + 1]] BY DEF Flat
<1>3. s = [i \in 1 .. n |-> s[i]] BY <1>1
<1> HIDE DEF s, n
<1>4. n * 1 = n BY <1>1
<1>5. \A i \in 1 .. n : (i - 1) \div 1 + 1 = i BY <1>1
<1>6. Flat(req) = [i \in 1 .. n |-> s[i]] BY <1>2, <1>4, <1>5
<1> QED BY <1>3, <1>6 DEF s

ScoredRows(req, share, L) == [k \in 1 .. L |-> Scores(req, share[k])]

\* A share is scored row by row, however it is cut into microbatches.
LEMMA ShareIsScored ==
  ASSUME NEW req, req.op \in {"logprobs", "values", "rewards"}, req.lens \in Seq(Nat), req.samples = 1,
         HasLastTokens(req),
         NEW share, NEW L \in Nat, DOMAIN share = 1 .. L, \A k \in 1 .. L : share[k] \in 1 .. Len(req.lens)
  PROVE  ScoreShare(req, share) = ScoredRows(req, share, L)
<1> DEFINE lens == req.lens  n == Len(lens)
           B(b) == {share[k] : k \in {j \in DOMAIN share : (j - 1) \div req.microbatch = b}}
           W(k) == Max({lens[j] : j \in B((k - 1) \div req.microbatch)})
           Row(k) == LET i == share[k]
                     IN CASE req.op = "logprobs" -> LogprobsOf(i, lens[i])
                          [] req.op = "values"   -> SubSeq(Cells(i, lens[i], W(k)), 1, lens[i])
                          [] req.op = "rewards"  -> <<Cells(i, lens[i], W(k))[Max({lens[i], 1})]>>
<1>1. ScoreShare(req, share) = [k \in 1 .. L |-> Row(k)] BY FlatOnce DEF ScoreShare
<1>2. /\ n \in Nat /\ \A i \in 1 .. n : lens[i] \in Nat
      /\ req.op = "rewards" => \A i \in 1 .. n : lens[i] # 0
  BY DEF HasLastTokens
<1> HIDE DEF lens, n
<1>3. ASSUME NEW k \in 1 .. L PROVE Row(k) = Scores(req, share[k])
  <2> DEFINE i == share[k]  m == lens[i]  w == W(k)  S == B((k - 1) \div req.microbatch)
  <2>1. i \in 1 .. n BY DEF n, lens
  <2>2. m \in Nat /\ (req.op = "rewards" => m # 0) BY <1>2, <2>1
  <2>3. i \in S /\ S \in SUBSET (1 .. n) BY DEF n, lens
  <2> HIDE DEF S
  <2>4. w \in Nat /\ m <= w
    <3>1. \A j \in 1 .. n : lens[j] \in Nat BY <1>2
    <3>2. S # {} BY <2>3
    <3>3. Max({lens[j] : j \in S}) \in Nat /\ \A j \in S : lens[j] <= Max({lens[j2] : j2 \in S})
      BY <1>2, <2>3, <3>1, <3>2, Greatest
    <3>4. w = Max({lens[j] : j \in S}) BY DEF S
    <3> QED BY <2>3, <3>3, <3>4
  <2> HIDE DEF W
  <2>5. Row(k) = CASE req.op = "logprobs" -> LogprobsOf(i, m)
                   [] req.op = "values"   -> SubSeq(Cells(i, m, w), 1, m)
                   [] req.op = "rewards"  -> <<Cells(i, m, w)[Max({m, 1})]>>
    OBVIOUS
  <2>6. Scores(req, i) = CASE req.op = "logprobs" -> [t \in 1 .. m |-> IF t = 1 THEN <<0, 0>> ELSE <<i, t>>]
                           [] req.op = "values"   -> [t \in 1 .. m |-> <<i, t>>]
                           [] req.op = "rewards"  -> <<<<i, m>>>>
    BY DEF Scores, lens
  <2> HIDE DEF m, w, i, Row
  <2>7. SubSeq(Cells(i, m, w), 1, m) = [t \in 1 .. m |-> <<i, t>>]
    <3> DEFINE X == {<<i, t>> : t \in 1 .. w} \cup {<<0, 0>>}  c == Cells(i, m, w)
               l == SubSeq(c, 1, m)  r == [t \in 1 .. m |-> <<i, t>>]
    <3>1. c \in [1 .. w -> X] /\ \A t \in 1 .. m : c[t] = <<i, t>> BY <2>2, <2>4 DEF Cells
    <3>2. r \in [1 .. m -> X] /\ \A t \in 1 .. m : r[t] = <<i, t>> BY <2>2, <2>4
    <3> HIDE DEF X, c, r
    <3>3. c \in Seq(X) /\ Len(c) = w BY <2>4, <3>1, SeqOfFunction
    <3>4. r \in Seq(X) /\ Len(r) = m BY <2>2, <3>2, SeqOfFunction
    <3>5. l \in Seq(X) /\ Len(l) = m /\ \A t \in 1 .. m : l[t] = c[t] BY <2>2, <2>4, <3>3
    <3> HIDE DEF l
    <3>6. Len(l) = Len(r) /\ \A t \in 1 .. Len(l) : l[t] = r[t] BY <3>1, <3>2, <3>4, <3>5
    <3>7. l = r BY <3>4, <3>5, <3>6, SameSequence
    <3> QED BY <3>7 DEF l, r, c
  <2>8. ASSUME m # 0 PROVE Cells(i, m, w)[Max({m, 1})] = <<i, m>>
    <3>1. Max({m, 1}) = m BY <2>2, <2>8 DEF Max
    <3>2. m \in 1 .. w BY <2>2, <2>4, <2>8
    <3>3. Cells(i, m, w)[m] = <<i, m>> BY <2>2, <3>2 DEF Cells
    <3> QED BY <3>1, <3>3
  <2>9. LogprobsOf(i, m) = [t \in 1 .. m |-> IF t = 1 THEN <<0, 0>> ELSE <<i, t>>] BY DEF LogprobsOf
  <2>10. Row(k) = Scores(req, i)
    <3>1. CASE req.op = "logprobs" BY <2>5, <2>6, <2>9, <3>1
    <3>2. CASE req.op = "values" BY <2>5, <2>6, <2>7, <3>2
    <3>3. CASE req.op = "rewards" BY <2>2, <2>5, <2>6, <2>8, <3>3
    <3> QED BY <3>1, <3>2, <3>3
  <2> QED BY <2>10 DEF i
<1> HIDE DEF Row
<1> QED BY <1>1, <1>3 DEF ScoredRows

-----------------------------------------------------------------------------
(* The merge of scored rows                                                *)

\* How far the first k rounds of d ranks go into n rows.
Reached(n, d, k) == IF k * d <= n THEN k * d ELSE n

\* Each rank answers the rows it was dealt, and every round has one answer of each.
ScoredBy(outs, n, d, W) ==
  \A r \in 0 .. d - 1 : outs[r] = [k \in 1 .. Len(At(n, d, 0, r)) |-> W[At(n, d, 0, r)[k]]]

RoundOf(outs, d, k) ==
  Pick([e \in 1 .. d |-> IF k \in DOMAIN outs[e - 1] THEN outs[e - 1][k] ELSE None],
       {e \in 1 .. d : k \in DOMAIN outs[e - 1]})

\* Round k: the ranks that have a row left are the first ones, and they give the next rows.
LEMMA RoundIs ==
  ASSUME NEW n \in Nat, NEW d \in Nat \ {0}, NEW W, NEW outs, ScoredBy(outs, n, d, W),
         NEW k \in Nat, k * d < n
  PROVE  /\ Reached(n, d, k) = k * d
         /\ Reached(n, d, k + 1) - k * d \in 0 .. d
         /\ RoundOf(outs, d, k + 1) = [e \in 1 .. Reached(n, d, k + 1) - k * d |-> W[k * d + e]]
<1> DEFINE A == k * d  m == Reached(n, d, k + 1) - A
           items == [e \in 1 .. d |-> IF k + 1 \in DOMAIN outs[e - 1] THEN outs[e - 1][k + 1] ELSE None]
           I == {e \in 1 .. d : k + 1 \in DOMAIN outs[e - 1]}
<1>1. A \in Nat /\ (k + 1) * d = A + d BY RoundsFollow
<1>2. Reached(n, d, k) = A BY DEF Reached
<1>3. Reached(n, d, k + 1) = IF A + d <= n THEN A + d ELSE n BY <1>1 DEF Reached
<1>4. A < n OBVIOUS
<1>5. m = IF A + d <= n THEN d ELSE n - A
  <2> HIDE DEF A
  <2> QED BY <1>1, <1>3, <1>4
<1>6. m \in 0 .. d
  <2> HIDE DEF A, m
  <2> QED BY <1>1, <1>4, <1>5
<1>7. ASSUME NEW e \in 1 .. d
      PROVE  /\ e \in I <=> e \in 1 .. m
             /\ e \in I => items[e] = W[A + e]
  <2> DEFINE r == e - 1  at == At(n, d, 0, r)  L == Len(at)
  <2>1. r \in 0 .. d - 1 /\ r + 1 = e OBVIOUS
  <2>2. Dealt(at, n, d, r)
    <3> HIDE DEF r
    <3> QED BY <2>1, AtDealt
  <2>3. outs[r] = [j \in 1 .. L |-> W[at[j]]]
    <3> HIDE DEF r
    <3> QED BY <2>1 DEF ScoredBy
  <2>4. items[e] = (IF k + 1 \in DOMAIN outs[r] THEN outs[r][k + 1] ELSE None) /\ (e \in I <=> k + 1 \in DOMAIN outs[r])
    OBVIOUS
  <2> HIDE DEF r, at, items, I, m, A
  <2>5. /\ L \in Nat /\ n <= L * d + r /\ L * d \in Nat
        /\ \A j \in 1 .. L : at[j] = (j - 1) * d + r + 1 /\ at[j] <= n
    <3>1. at \in Seq(Nat) /\ n <= L * d + r /\ \A j \in 1 .. L : at[j] = (j - 1) * d + r + 1 /\ at[j] <= n
      BY <2>2 DEF Dealt
    <3>2. L \in Nat BY <3>1
    <3> HIDE DEF L
    <3>3. L * d \in Nat BY <3>2, RoundsFollow
    <3> QED BY <3>1, <3>2, <3>3
  <2> HIDE DEF L
  <2>6. CASE k + 1 <= L
    <3>1. k + 1 \in 1 .. L /\ (k + 1) - 1 = k BY <2>5, <2>6
    <3>2. at[k + 1] = A + r + 1 /\ at[k + 1] <= n BY <2>5, <3>1 DEF A
    <3>3. A + e <= n /\ at[k + 1] = A + e BY <1>1, <2>1, <3>2
    <3>4. e \in 1 .. m BY <1>1, <1>5, <3>3
    <3>5. e \in I /\ items[e] = W[A + e] BY <2>3, <2>4, <3>1, <3>3
    <3> QED BY <3>4, <3>5
  <2>7. CASE ~(k + 1 <= L)
    <3>1. L <= k BY <2>5, <2>7
    <3>2. L * d <= A BY <2>5, <3>1, RoundsFollow DEF A
    <3>3. n <= A + r BY <1>1, <2>1, <2>5, <3>2
    <3>4. e \notin 1 .. m BY <1>1, <1>5, <2>1, <3>3
    <3>5. e \notin I BY <2>3, <2>4, <2>5, <3>1
    <3> QED BY <3>4, <3>5
  <2> QED BY <2>6, <2>7
<1>8. I = 1 .. m
  <2>1. I \subseteq 1 .. d OBVIOUS
  <2> HIDE DEF I, m
  <2>2. 1 .. m \subseteq 1 .. d BY <1>6
  <2>3. \A e \in 1 .. d : e \in I <=> e \in 1 .. m BY <1>7, Zenon
  <2> QED BY <2>1, <2>2, <2>3, Zenon
<1>9. DOMAIN items = 1 .. d OBVIOUS
<1>10. Pick(items, I) = [e \in 1 .. m |-> items[e]]
  <2> HIDE DEF items, m, I
  <2>1. Pick(items, 1 .. m) = [j \in 1 .. Len(Kept(Ids(d), 1 .. m)) |-> items[Kept(Ids(d), 1 .. m)[j]]]
    BY <1>9, PickIs
  <2>2. Kept(Ids(d), 1 .. m) = Ids(m) BY <1>6, KeptPrefix
  <2>3. m \in Nat BY <1>6
  <2>4. Len(Ids(m)) = m /\ \A j \in 1 .. m : Ids(m)[j] = j BY <2>3, IdsAre
  <2>5. Pick(items, 1 .. m) = [j \in 1 .. m |-> items[Ids(m)[j]]] BY <2>1, <2>2, <2>4
  <2> QED BY <1>8, <2>4, <2>5
<1>11. \A e \in 1 .. m : items[e] = W[A + e]
  <2> HIDE DEF items, I, m, A
  <2> QED BY <1>6, <1>7, <1>8
<1>12. Pick(items, I) = [e \in 1 .. m |-> W[A + e]]
  <2> HIDE DEF items, I, m, A
  <2> QED BY <1>10, <1>11
<1>13. RoundOf(outs, d, k + 1) = Pick(items, I) BY DEF RoundOf
<1> HIDE DEF items, I
<1> QED BY <1>2, <1>6, <1>12, <1>13

\* Round after round the scores come out in the order of the rows.
LEMMA MergeStridedIs ==
  ASSUME NEW n \in Nat \ {0}, NEW d \in Nat \ {0}, NEW X, NEW W \in [1 .. n -> X], NEW outs, ScoredBy(outs, n, d, W)
  PROVE  MergeStrided(outs, d) = W
<1> DEFINE L(r) == Len(At(n, d, 0, r))  K == L(0)
           RoundAt(k) == RoundOf(outs, d, k)
           ss == [k \in 1 .. K |-> RoundAt(k)]
<1>1. ASSUME NEW r \in 0 .. d - 1
      PROVE  /\ L(r) \in Nat /\ Len(outs[r]) = L(r) /\ n <= L(r) * d + r
             /\ L(r) # 0 => (L(r) - 1) * d + r + 1 <= n
  <2> DEFINE at == At(n, d, 0, r)  l == Len(at)
  <2>1. /\ at \in Seq(Nat) /\ n <= l * d + r
        /\ \A k \in 1 .. l : at[k] = (k - 1) * d + r + 1 /\ at[k] <= n
    BY AtDealt DEF Dealt
  <2>2. outs[r] = [k \in 1 .. l |-> W[at[k]]] BY DEF ScoredBy
  <2>3. l \in Nat BY <2>1
  <2>4. \A k \in 1 .. l : at[k] \in 1 .. n
    <3> HIDE DEF at
    <3>1. ASSUME NEW k \in 1 .. l PROVE at[k] \in 1 .. n
      <4>1. at[k] = (k - 1) * d + r + 1 /\ at[k] <= n BY <2>1
      <4>2. k - 1 \in Nat BY <2>3
      <4>3. (k - 1) * d \in Nat BY <4>2, RoundsFollow
      <4> QED BY <4>1, <4>3
    <3> QED BY <3>1
  <2> HIDE DEF at, l
  <2>5. outs[r] \in [1 .. l -> X] BY <2>2, <2>4
  <2>6. Len(outs[r]) = l BY <2>3, <2>5, SeqOfFunction
  <2>7. l # 0 => (l - 1) * d + r + 1 <= n
    <3> SUFFICES ASSUME l # 0 PROVE (l - 1) * d + r + 1 <= n OBVIOUS
    <3>1. l \in 1 .. l BY <2>3
    <3> QED BY <2>1, <3>1
  <2> QED BY <2>1, <2>3, <2>6, <2>7 DEF l, at
<1> HIDE DEF L
<1>2. K \in Nat /\ n <= K * d /\ K # 0
  <2>1. 0 \in 0 .. d - 1 OBVIOUS
  <2>2. K \in Nat /\ n <= K * d + 0 BY <1>1, <2>1
  <2> HIDE DEF K
  <2>3. K * d \in Nat /\ 0 * d = 0 BY <2>2, RoundsFollow
  <2> QED BY <2>2, <2>3
<1>3. ASSUME NEW r \in 0 .. d - 1 PROVE L(r) <= K
  <2> SUFFICES ASSUME K < L(r) PROVE FALSE BY <1>1, <1>2
  <2> DEFINE l == L(r) - 1
  <2>1. l \in Nat /\ K <= l /\ l * d + r + 1 <= n BY <1>1, <1>2
  <2> HIDE DEF l, K
  <2>2. K * d <= l * d /\ K * d \in Nat /\ l * d \in Nat BY <1>2, <2>1, RoundsFollow
  <2> DEFINE a == K * d  b == l * d
  <2>3. a \in Nat /\ b \in Nat /\ a <= b /\ n <= a /\ b + r + 1 <= n BY <1>2, <2>1, <2>2
  <2> HIDE DEF a, b
  <2> QED BY <2>3
<1>4. Max({Len(outs[e]) : e \in 0 .. d - 1}) = K
  <2> DEFINE S == {Len(outs[e]) : e \in 0 .. d - 1}
  <2>1. K \in S
    <3>1. 0 \in 0 .. d - 1 OBVIOUS
    <3>2. Len(outs[0]) = K BY <1>1, <3>1
    <3> QED BY <3>1, <3>2
  <2>2. \A y \in S : y \in Nat /\ y <= K BY <1>1, <1>3
  <2> HIDE DEF S, K
  <2>3. \A y \in S : K >= y BY <1>2, <2>2
  <2>4. Max(S) \in S /\ \A y \in S : Max(S) >= y BY <2>1, <2>3 DEF Max
  <2> DEFINE M == Max(S)
  <2>5. M \in Nat /\ M <= K /\ M >= K BY <2>1, <2>2, <2>4
  <2> HIDE DEF M
  <2>6. M = K BY <1>2, <2>5
  <2> QED BY <2>6 DEF M, S
<1>5. MergeStrided(outs, d) = FlattenSeq(ss)
  <2> HIDE DEF K
  <2>1. MergeStrided(outs, d) = FlattenSeq([k \in 1 .. Max({Len(outs[e]) : e \in 0 .. d - 1}) |-> RoundAt(k)])
    BY DEF MergeStrided, RoundOf
  <2> QED BY <1>4, <2>1
<1> HIDE DEF K
<1> DEFINE R(k) == Reached(n, d, k)
<1>6. ASSUME NEW k \in 0 .. K - 1
      PROVE  /\ R(k) = k * d /\ k * d \in Nat /\ k * d < n /\ R(k + 1) - k * d \in 0 .. d
             /\ RoundAt(k + 1) = [e \in 1 .. R(k + 1) - k * d |-> W[k * d + e]]
  <2>1. k \in Nat /\ k * d \in Nat BY <1>2, RoundsFollow
  <2>2. k * d < n
    <3>1. K - 1 \in Nat /\ k <= K - 1 BY <1>2
    <3>2. k * d <= (K - 1) * d BY <2>1, <3>1, RoundsFollow
    <3>3. 0 \in 0 .. d - 1 OBVIOUS
    <3>4. (K - 1) * d + 0 + 1 <= n BY <1>1, <1>2, <3>3 DEF K
    <3>5. (K - 1) * d \in Nat BY <3>1, RoundsFollow
    <3> DEFINE a == k * d  b == (K - 1) * d
    <3>6. a \in Nat /\ b \in Nat /\ a <= b /\ b + 0 + 1 <= n BY <2>1, <3>2, <3>4, <3>5
    <3> HIDE DEF a, b
    <3>7. a < n BY <3>6
    <3> QED BY <3>7 DEF a
  <2>3. n \in Nat OBVIOUS
  <2> QED BY <2>1, <2>2, <2>3, RoundIs
<1>7. \A k \in 0 .. K : R(k) \in 0 .. n
  <2> SUFFICES ASSUME NEW k \in 0 .. K PROVE R(k) \in 0 .. n OBVIOUS
  <2>1. k \in Nat BY <1>2
  <2>2. k * d \in Nat BY <2>1, RoundsFollow
  <2> QED BY <2>2 DEF Reached
<1>8. ASSUME NEW k \in 0 .. K - 1 PROVE RoundAt(k + 1) \in Seq(X) /\ Len(RoundAt(k + 1)) = R(k + 1) - k * d
  <2> DEFINE a == k * d  m == R(k + 1) - a  u == RoundAt(k + 1)
  <2>1. k + 1 \in 0 .. K BY <1>2
  <2>2. R(k + 1) \in 0 .. n BY <1>7, <2>1
  <2>3. a \in Nat /\ m \in 0 .. d /\ u = [e \in 1 .. m |-> W[a + e]] /\ a + m <= n
    <3>1. a \in Nat /\ m \in 0 .. d /\ u = [e \in 1 .. m |-> W[a + e]] BY <1>6
    <3> HIDE DEF R, a
    <3>2. a + m <= n BY <2>2, <3>1
    <3> QED BY <3>1, <3>2
  <2> HIDE DEF a, m, u
  <2>4. \A e \in 1 .. m : a + e \in 1 .. n BY <2>3
  <2>5. u \in [1 .. m -> X] BY <2>3, <2>4
  <2>6. u \in Seq(X) /\ Len(u) = m BY <2>3, <2>5, SeqOfFunction
  <2> QED BY <2>6 DEF u, m, a
<1> HIDE DEF RoundAt
<1>9. ss \in Seq(Seq(X)) /\ Len(ss) = K /\ \A k \in 0 .. K - 1 : ss[k + 1] = RoundAt(k + 1)
  <2>1. ASSUME NEW k \in 1 .. K PROVE RoundAt(k) \in Seq(X)
    <3>1. k - 1 \in 0 .. K - 1 /\ (k - 1) + 1 = k BY <1>2
    <3> QED BY <1>8, <3>1
  <2>2. ss \in [1 .. K -> Seq(X)] BY <2>1
  <2>3. \A k \in 0 .. K - 1 : k + 1 \in 1 .. K BY <1>2
  <2>4. \A k \in 1 .. K : ss[k] = RoundAt(k) OBVIOUS
  <2> HIDE DEF ss
  <2> QED BY <1>2, <2>2, <2>3, <2>4, SeqOfFunction
<1> HIDE DEF ss
<1>10. PICK f : /\ FlattenSeq(ss) = f[K] /\ f[1] = ss[1]
                /\ \A i \in 2 .. K : f[i] = f[i - 1] \o ss[i]
                /\ \A i \in 1 .. K : f[i] \in Seq(X)
  <2>1. \E f : /\ FlattenSeq(ss) = f[Len(ss)] /\ f[1] = ss[1]
               /\ \A i \in 2 .. Len(ss) : f[i] = f[i - 1] \o ss[i]
               /\ \A i \in 1 .. Len(ss) : f[i] \in Seq(X)
    <3>1. ss \in Seq(Seq(X)) /\ Len(ss) # 0 BY <1>2, <1>9
    <3> QED BY <3>1, FlattenSteps, Zenon
  <2>2. Len(ss) = K BY <1>9
  <2> QED BY <2>1, <2>2, Zenon
<1> DEFINE Good(k) == Len(f[k + 1]) = R(k + 1) /\ \A i \in 1 .. R(k + 1) : f[k + 1][i] = W[i]
           T == {k \in 0 .. K - 1 : Good(k)}
<1>11. 0 \in T
  <2>1. 0 \in 0 .. K - 1 BY <1>2
  <2>2. 0 * d = 0 OBVIOUS
  <2>3. RoundAt(0 + 1) = [e \in 1 .. R(0 + 1) - 0 * d |-> W[0 * d + e]] /\ Len(RoundAt(0 + 1)) = R(0 + 1) - 0 * d
    BY <1>6, <1>8, <2>1
  <2>4. f[0 + 1] = RoundAt(0 + 1)
    <3>1. ss[0 + 1] = RoundAt(0 + 1) BY <1>9, <2>1
    <3>2. 0 + 1 = 1 OBVIOUS
    <3>3. f[1] = ss[1] BY <1>10
    <3> QED BY <3>1, <3>2, <3>3, Zenon
  <2>5. R(0 + 1) \in Nat
    <3>1. 0 + 1 \in 0 .. K BY <1>2
    <3> QED BY <1>7, <3>1
  <2> HIDE DEF R
  <2>6. R(0 + 1) - 0 * d = R(0 + 1) /\ \A e \in 1 .. R(0 + 1) : 0 * d + e = e BY <2>2, <2>5
  <2>7. Good(0) BY <2>3, <2>4, <2>6
  <2> QED BY <2>1, <2>7
<1>12. ASSUME NEW k \in 0 .. K - 1 - 1, k \in T PROVE k + 1 \in T
  <2>1. /\ k + 1 \in 0 .. K - 1 /\ (k + 1) + 1 \in 2 .. K /\ ((k + 1) + 1) - 1 = k + 1 /\ k \in 0 .. K - 1
        /\ (k + 1) + 1 \in 0 .. K /\ k + 1 \in 0 .. K /\ (k + 1) + 1 \in 1 .. K /\ k + 1 \in 1 .. K
    BY <1>2
  <2> DEFINE a == (k + 1) * d  b == R((k + 1) + 1)  m == b - a  u == RoundAt((k + 1) + 1)
             v == f[k + 1]  w == f[(k + 1) + 1]
  <2>2. R(k + 1) = a /\ a \in Nat /\ m \in 0 .. d /\ u = [e \in 1 .. m |-> W[a + e]] BY <1>6, <2>1
  <2>3. u \in Seq(X) /\ Len(u) = m BY <1>8, <2>1
  <2>4. b \in 0 .. n BY <1>7, <2>1
  <2>5. Len(v) = a /\ \A i \in 1 .. a : v[i] = W[i]
    <3>1. Good(k) BY <1>12
    <3> QED BY <2>2, <3>1
  <2>6. v \in Seq(X) /\ w = v \o u
    <3>1. v \in Seq(X) BY <1>10, <2>1
    <3>2. w = f[((k + 1) + 1) - 1] \o ss[(k + 1) + 1] BY <1>10, <2>1
    <3>3. ss[(k + 1) + 1] = u BY <1>9, <2>1
    <3> QED BY <2>1, <3>1, <3>2, <3>3
  <2>7. m = b - a /\ b = a + m /\ m \in Nat
    <3>1. m = b - a OBVIOUS
    <3> HIDE DEF a, b, m
    <3> QED BY <2>2, <2>4, <3>1
  <2> HIDE DEF a, b, m, u, v, w
  <2>8. /\ Len(w) = a + m /\ \A i \in 1 .. a : w[i] = v[i]
        /\ \A i \in a + 1 .. a + m : w[i] = u[i - a]
    <3>1. v \in Seq(X) /\ u \in Seq(X) /\ Len(v) = a /\ Len(u) = m BY <2>3, <2>5, <2>6
    <3>2. /\ Len(v \o u) = Len(v) + Len(u) /\ \A i \in 1 .. Len(v) : (v \o u)[i] = v[i]
          /\ \A i \in Len(v) + 1 .. Len(v) + Len(u) : (v \o u)[i] = u[i - Len(v)]
      BY <3>1, ConcatElements
    <3> QED BY <2>6, <3>1, <3>2, Zenon
  <2>9. ASSUME NEW i \in 1 .. b PROVE w[i] = W[i]
    <3>1. CASE i <= a
      <4>1. i \in 1 .. a BY <2>2, <3>1
      <4> QED BY <2>5, <2>8, <4>1
    <3>2. CASE ~(i <= a)
      <4>1. i \in a + 1 .. a + m /\ i - a \in 1 .. m /\ a + (i - a) = i BY <2>2, <2>4, <2>7, <3>2
      <4>2. u[i - a] = W[a + (i - a)] BY <2>2, <4>1
      <4> QED BY <2>8, <4>1, <4>2
    <3> QED BY <3>1, <3>2
  <2>10. Len(w) = b BY <2>7, <2>8
  <2>11. Good(k + 1) BY <2>9, <2>10 DEF b, w
  <2> HIDE DEF Good
  <2> QED BY <2>1, <2>11
<1> HIDE DEF T
<1>13. K - 1 \in T
  <2>1. K - 1 \in Nat BY <1>2
  <2>2. 0 .. K - 1 \subseteq T BY <1>11, <1>12, <2>1, IntervalInduction
  <2> QED BY <2>1, <2>2
<1>14. Good(K - 1) BY <1>13 DEF T
<1>15. (K - 1) + 1 = K /\ R(K) = n
  <2>1. (K - 1) + 1 = K BY <1>2
  <2>2. K * d \in Nat BY <1>2, RoundsFollow
  <2> QED BY <1>2, <2>1, <2>2 DEF Reached
<1>16. Len(f[K]) = n /\ \A i \in 1 .. n : f[K][i] = W[i] BY <1>14, <1>15
<1>17. W \in Seq(X) /\ Len(W) = n BY SeqOfFunction
<1>18. f[K] \in Seq(X)
  <2>1. K \in 1 .. K BY <1>2
  <2> QED BY <1>10, <2>1
<1> DEFINE z == f[K]
<1>19. z \in Seq(X) /\ Len(z) = Len(W) /\ \A i \in 1 .. Len(z) : z[i] = W[i] BY <1>16, <1>17, <1>18
<1> HIDE DEF z
<1>20. z = W BY <1>17, <1>19, SameSequence
<1> QED BY <1>5, <1>10, <1>20 DEF z

-----------------------------------------------------------------------------
(* The answers of a request                                                *)

Scoring == {"logprobs", "values", "rewards"}

\* The share of a rank in a request that is scored.
LEMMA SomeShareIsScored ==
  ASSUME NEW req, req.op \in Scoring, req.lens \in Seq(Nat), req.samples = 1,
         HasLastTokens(req),
         NEW share, NEW L \in Nat, DOMAIN share = 1 .. L, \A k \in 1 .. L : share[k] \in 1 .. Len(req.lens)
  PROVE  ScoreShare(req, share) = ScoredRows(req, share, L)
<1>1. req.op \in {"logprobs", "values", "rewards"} BY DEF Scoring
<1> QED BY <1>1, ShareIsScored

\* And in one of the requests of the model.
LEMMA RequestShareIsScored ==
  ASSUME NEW req \in Requests, req.op \in Scoring,
         NEW share, NEW L \in Nat, DOMAIN share = 1 .. L, \A k \in 1 .. L : share[k] \in 1 .. Len(req.lens)
  PROVE  ScoreShare(req, share) = ScoredRows(req, share, L)
<1>1. req.lens \in Seq(Nat) /\ req.samples = 1 /\ HasLastTokens(req)
  BY RequestsAssumption DEF Scoring, HasLastTokens
<1> QED BY <1>1, SomeShareIsScored

\* A sampled request: its rows are its prompts, each samples times.
LEMMA FlatIs ==
  ASSUME NEW req \in Requests
  PROVE  /\ Len(req.lens) * req.samples \in Nat
         /\ Len(Flat(req)) = Len(req.lens) * req.samples
<1> DEFINE s == req.samples  n == Len(req.lens)
<1>1. /\ req.lens \in Seq(Nat) /\ s \in Nat \ {0} /\ n \in Nat
      /\ \A i \in 1 .. n : req.lens[i] \in Nat
  BY RequestsAssumption
<1>2. n * s \in Nat BY <1>1, RoundsFollow
<1>3. ASSUME NEW i \in 1 .. n * s PROVE (i - 1) \div s + 1 \in 1 .. n
  <2> DEFINE q == (i - 1) \div s  r == (i - 1) % s
  <2>1. i - 1 \in Nat BY <1>2
  <2>2. q \in Nat /\ r \in 0 .. s - 1 /\ i - 1 = q * s + r BY <1>1, <2>1, Divided
  <2>3. q < n
    <3>1. q \in Nat /\ n \in Nat /\ s \in Nat \ {0} /\ r \in 0 .. s - 1 /\ i - 1 = q * s + r /\ i \in 1 .. n * s
      BY <1>1, <2>2
    <3> HIDE DEF q, r, s, n
    <3>2. ASSUME n <= q PROVE FALSE
      <4>1. n * s <= q * s /\ q * s \in Nat /\ n * s \in Nat BY <3>1, <3>2, RoundsFollow
      <4> DEFINE a == n * s  b == q * s
      <4>2. a \in Nat /\ b \in Nat /\ a <= b /\ i \in 1 .. a /\ i - 1 = b + r BY <3>1, <4>1
      <4> HIDE DEF a, b
      <4> QED BY <3>1, <4>2
    <3> QED BY <3>1, <3>2
  <2>5. q \in Nat /\ n \in Nat BY <1>1, <2>2
  <2> HIDE DEF q, n
  <2>4. q + 1 \in 1 .. n BY <2>3, <2>5
  <2> QED BY <2>4 DEF q, n
<1>4. Flat(req) \in [1 .. n * s -> Nat] BY <1>1, <1>3 DEF Flat
<1> DEFINE N == n * s
<1>5. N \in Nat /\ Flat(req) \in [1 .. N -> Nat] BY <1>2, <1>4
<1> HIDE DEF N
<1>6. Len(Flat(req)) = N BY <1>5, SeqOfFunction
<1> QED BY <1>5, <1>6 DEF N

\* The answers a sampled request must get.
SampledAnswers(req) ==
  [p \in DOMAIN req.lens |-> [j \in 1 .. req.samples |-> (p - 1) * req.samples + j]]

\* They are what regrouping makes of its rows in order.
LEMMA RegroupIs ==
  ASSUME NEW req \in Requests
  PROVE  Regroup(req, Ids(Len(req.lens) * req.samples)) = SampledAnswers(req)
<1> DEFINE s == req.samples  n == Len(req.lens)
<1>1. s \in Nat \ {0} /\ n \in Nat /\ DOMAIN req.lens = 1 .. n BY RequestsAssumption
<1>2. n * s \in Nat BY <1>1, RoundsFollow
<1> HIDE DEF s, n
<1>3. ASSUME NEW p \in 1 .. n
      PROVE  SubSeq(Ids(n * s), (p - 1) * s + 1, p * s) = [j \in 1 .. s |-> (p - 1) * s + j]
  <2> DEFINE N == n * s  a == (p - 1) * s  b == p * s
             l == SubSeq(Ids(N), a + 1, b)  r == [j \in 1 .. s |-> a + j]
  <2>1. N \in Nat /\ a \in Nat /\ b = a + s /\ b <= N
    <3>1. p - 1 \in Nat /\ (p - 1) + 1 = p /\ p - 1 < n /\ p \in Nat /\ p <= n BY <1>1
    <3>2. a \in Nat /\ ((p - 1) + 1) * s = a + s BY <1>1, <3>1, RoundsFollow
    <3>3. p * s <= n * s BY <1>1, <3>1, RoundsFollow
    <3> QED BY <1>2, <3>1, <3>2, <3>3
  <2> HIDE DEF N, a, b
  <2> DEFINE x == Ids(N)
  <2>2. x \in Seq(Nat) /\ Len(x) = N /\ \A i \in 1 .. N : x[i] = i BY <2>1, IdsAre
  <2> HIDE DEF x
  <2>3. /\ SubSeq(x, a + 1, b) \in Seq(Nat) /\ Len(SubSeq(x, a + 1, b)) = s
        /\ \A j \in 1 .. s : SubSeq(x, a + 1, b)[j] = x[a + j]
    BY <1>1, <2>1, <2>2
  <2>4. \A j \in 1 .. s : a + j \in 1 .. N BY <1>1, <2>1
  <2>5. l \in Seq(Nat) /\ Len(l) = s /\ \A j \in 1 .. s : l[j] = a + j BY <2>2, <2>3, <2>4 DEF x
  <2>6. r \in [1 .. s -> Nat] /\ \A j \in 1 .. s : r[j] = a + j BY <1>1, <2>1
  <2> HIDE DEF l, r
  <2>7. r \in Seq(Nat) /\ Len(r) = s BY <1>1, <2>6, SeqOfFunction
  <2>8. l = r BY <2>5, <2>6, <2>7, SameSequence
  <2> QED BY <2>8 DEF l, r, N, a, b
<1>4. Regroup(req, Ids(n * s)) = [p \in 1 .. n |-> [j \in 1 .. s |-> (p - 1) * s + j]]
  <2>1. Regroup(req, Ids(n * s)) = [p \in 1 .. n |-> SubSeq(Ids(n * s), (p - 1) * s + 1, p * s)]
    BY <1>1 DEF Regroup, s
  <2> QED BY <1>3, <2>1
<1>5. SampledAnswers(req) = [p \in 1 .. n |-> [j \in 1 .. s |-> (p - 1) * s + j]]
  BY <1>1 DEF SampledAnswers, s
<1> QED BY <1>4, <1>5 DEF n, s

\* A scored request: the ranks' answers, merged, are each row's own scores.
LEMMA ScoresComeInOrder ==
  ASSUME NEW req \in Requests, req.op \in Scoring
  PROVE  MergeStrided(Rank0(req, Results(req,
           [e \in 0 .. req.dp - 1 |-> ScoreShare(req, Split(Indices(0, Len(req.lens)), req.dp, 0)[e])])), req.dp)
           = [i \in DOMAIN req.lens |-> Scores(req, i)]
<1> DEFINE d == req.dp  n == Len(req.lens)  rows == Indices(0, n)  shares == Split(rows, d, 0)
           outs == [e \in 0 .. d - 1 |-> ScoreShare(req, shares[e])]
           W == [i \in 1 .. n |-> Scores(req, i)]  X == {Scores(req, i) : i \in 1 .. n}
<1>1. /\ d \in Nat \ {0} /\ req.tp \in Nat \ {0} /\ req.samples = 1 /\ n \in Nat \ {0}
      /\ req.lens \in Seq(Nat) /\ DOMAIN req.lens = 1 .. n
  <2>1. /\ d \in Nat \ {0} /\ req.tp \in Nat \ {0} /\ req.samples = 1
        /\ req.lens \in Seq(Nat) /\ req.lens # << >>
    BY RequestsAssumption DEF Scoring
  <2>2. n \in Nat \ {0} /\ DOMAIN req.lens = 1 .. n BY <2>1
  <2> QED BY <2>1, <2>2
<1>2. DOMAIN rows = 1 .. n /\ \A i \in 1 .. n : rows[i] = i BY <1>1 DEF Indices
<1>3. W \in [1 .. n -> X] OBVIOUS
<1>4. HasShares(shares, rows, n, d, 0)
  <2> HIDE DEF rows, d, n
  <2>1. n \in Nat BY <1>1
  <2> QED BY <1>2, <2>1, SplitIs
<1> HIDE DEF rows, shares
<1>5. ASSUME NEW r \in 0 .. d - 1
      PROVE  outs[r] = [k \in 1 .. Len(At(n, d, 0, r)) |-> W[At(n, d, 0, r)[k]]]
  <2> DEFINE at == At(n, d, 0, r)  L == Len(at)  share == shares[r]
  <2>1. Once(at, n, d, 0, r)
    <3> HIDE DEF d, n
    <3>1. n \in Nat /\ 0 \in Nat BY <1>1
    <3> QED BY <1>1, <3>1, AtOnce
  <2>2. L \in Nat /\ \A k \in 1 .. L : at[k] \in 1 .. n BY <2>1 DEF Once
  <2>3. DOMAIN share = 1 .. L /\ \A k \in 1 .. L : share[k] = rows[at[k]]
    BY <1>4 DEF HasShares
  <2> HIDE DEF at, L, share
  <2>4. \A k \in 1 .. L : share[k] = at[k] /\ share[k] \in 1 .. Len(req.lens) BY <1>2, <2>2, <2>3 DEF n
  <2>5. ScoreShare(req, share) = ScoredRows(req, share, L)
    <3> HIDE DEF n, d, outs, W, X
    <3>1. L \in Nat /\ DOMAIN share = 1 .. L BY <2>2, <2>3
    <3> QED BY <2>4, <3>1, RequestShareIsScored
  <2>6. ScoreShare(req, share) = [k \in 1 .. L |-> W[at[k]]] BY <2>2, <2>4, <2>5 DEF ScoredRows
  <2>7. outs[r] = ScoreShare(req, share) BY DEF share
  <2> QED BY <2>6, <2>7 DEF L, at
<1>6. ScoredBy(outs, n, d, W)
  <2> HIDE DEF outs, W, n, d
  <2> QED BY <1>5 DEF ScoredBy
<1>7. DOMAIN outs = 0 .. req.dp - 1 /\ outs = [e \in DOMAIN outs |-> outs[e]] OBVIOUS
<1>8. Rank0(req, Results(req, outs)) = outs
  <2> HIDE DEF outs
  <2> QED BY <1>1, <1>7, Rank0Is
<1>9. MergeStrided(outs, d) = W
  <2> HIDE DEF outs, W, X, n, d
  <2> QED BY <1>1, <1>3, <1>6, MergeStridedIs
<1>10. W = [i \in DOMAIN req.lens |-> Scores(req, i)] BY <1>1
<1> HIDE DEF W
<1> QED BY <1>8, <1>9, <1>10 DEF rows, shares

\* A sampled chunk: the ranks' answers, merged, are the chunk.
LEMMA ChunkComesInOrder ==
  ASSUME NEW req \in Requests, NEW chunk \in Seq(Nat), NEW offset \in Nat, NEW from \in Nat
  PROVE  /\ MergeInOrder(Rank0(req, Results(req, Split(chunk, req.dp, 0))), req.dp, Len(chunk)) = chunk
         /\ MergeByIndices(Rank0(req, Results(req, Split(chunk, req.dp, offset))),
                           Split(Indices(from, Len(chunk)), req.dp, offset), from, Len(chunk)) = chunk
<1>1. req.dp \in Nat \ {0} /\ req.tp \in Nat \ {0} BY RequestsAssumption
<1>2. ASSUME NEW o \in Nat PROVE Rank0(req, Results(req, Split(chunk, req.dp, o))) = Split(chunk, req.dp, o)
  <2> DEFINE outs == Split(chunk, req.dp, o)
  <2>1. DOMAIN outs = 0 .. req.dp - 1 /\ outs = [e \in DOMAIN outs |-> outs[e]] BY DEF Split
  <2> HIDE DEF outs
  <2>2. Rank0(req, Results(req, outs)) = outs BY <1>1, <2>1, Rank0Is
  <2> QED BY <2>2 DEF outs
<1>3. 0 \in Nat OBVIOUS
<1>4. MergeInOrder(Split(chunk, req.dp, 0), req.dp, Len(chunk)) = chunk BY <1>1, MergeInOrderIs
<1>5. MergeByIndices(Split(chunk, req.dp, offset), Split(Indices(from, Len(chunk)), req.dp, offset), from, Len(chunk))
        = chunk
  BY <1>1, MergeByIndicesIs
<1> QED BY <1>2, <1>3, <1>4, <1>5

-----------------------------------------------------------------------------
(* The invariant                                                           *)

\* What has been answered are the chunks so far, as they were cut.
DInv ==
  /\ request \in Requests /\ start \in 0 .. request.dp - 1
  /\ Sampling => /\ outputs \in Seq(Seq(Nat)) /\ Len(outputs) <= Len(RequestChunks(request))
                 /\ \A k \in 1 .. Len(outputs) : outputs[k] = RequestChunks(request)[k]
  /\ AnswersInInputOrder

\* The property, in the terms of the lemmas.
LEMMA InOrderIs ==
  AnswersInInputOrder <=>
    (result # << >> => IF Sampling THEN result = SampledAnswers(request)
                       ELSE result = [i \in DOMAIN request.lens |-> Scores(request, i)])
BY DEF AnswersInInputOrder, SampledAnswers, Scores

\* The chunks of a request are its rows in order.
LEMMA RequestChunksAre ==
  ASSUME NEW req \in Requests
  PROVE  /\ RequestChunks(req) \in Seq(Seq(Nat))
         /\ FlattenSeq(RequestChunks(req)) = Ids(Len(req.lens) * req.samples)
<1>1. Len(Flat(req)) \in Nat /\ Len(Flat(req)) = Len(req.lens) * req.samples BY FlatIs
<1> QED BY <1>1, ChunksAreRows DEF RequestChunks

\* A call begins without answers.
LEMMA DInitInv == DInit => DInv
<1> SUFFICES ASSUME DInit PROVE DInv OBVIOUS
<1>1. request \in Requests /\ start \in 0 .. request.dp - 1 /\ outputs = << >> /\ result = << >> BY DEF DInit
<1>2. AnswersInInputOrder BY <1>1, InOrderIs
<1>3. outputs \in Seq(Seq(Nat)) /\ Len(outputs) = 0 BY <1>1
<1>4. Len(RequestChunks(request)) \in Nat
  <2>1. RequestChunks(request) \in Seq(Seq(Nat)) BY <1>1, RequestChunksAre
  <2> QED BY <2>1
<1>5. Len(outputs) <= Len(RequestChunks(request)) /\ \A k \in 1 .. Len(outputs) : FALSE BY <1>3, <1>4
<1> QED BY <1>1, <1>2, <1>3, <1>5 DEF DInv

\* One chunk more.
LEMMA RolloutChunkKeeps == DInv /\ RolloutChunk => DInv'
<1> SUFFICES ASSUME DInv, RolloutChunk PROVE DInv' OBVIOUS
<1> DEFINE C == RequestChunks(request)  n == Len(outputs)  chunk == C[n + 1]  merged == outputs'[n + 1]
<1>1. /\ request \in Requests /\ start \in 0 .. request.dp - 1 /\ Sampling
      /\ outputs \in Seq(Seq(Nat)) /\ n <= Len(C) /\ \A k \in 1 .. n : outputs[k] = C[k]
      /\ result = << >> /\ n < Len(C) /\ UNCHANGED <<request, start, result>>
  BY DEF DInv, RolloutChunk
<1>2. C \in Seq(Seq(Nat)) BY <1>1, RequestChunksAre
<1>3. n \in Nat /\ chunk \in Seq(Nat) BY <1>1, <1>2
<1>4. Served \in Nat
  <2>1. << >> \in Seq(Nat) OBVIOUS
  <2>2. FlattenSeq(outputs) \in Seq(Nat) BY <1>1, <2>1, FlattenAppend
  <2> QED BY <2>2 DEF Served
<1>5. outputs' = Append(outputs, chunk)
  <2> DEFINE offset == IF request.op = "rollout_async" THEN start ELSE 0
             outs == Rank0(request, Results(request, Split(chunk, request.dp, offset)))
             indices == Split(Indices(Served, Len(chunk)), request.dp, offset)
             m == IF request.op = "rollout_async"
                  THEN MergeByIndices(outs, indices, Served, Len(chunk))
                  ELSE MergeInOrder(outs, request.dp, Len(chunk))
  <2>1. outputs' = Append(outputs, m) BY DEF RolloutChunk
  <2>2. request.dp \in Nat \ {0} BY <1>1, RequestsAssumption
  <2>3. offset \in Nat BY <1>1, <2>2
  <2> HIDE DEF chunk
  <2>4. MergeByIndices(outs, indices, Served, Len(chunk)) = chunk
    <3> HIDE DEF offset
    <3> QED BY <1>1, <1>3, <1>4, <2>3, ChunkComesInOrder
  <2>5. request.op # "rollout_async" => MergeInOrder(outs, request.dp, Len(chunk)) = chunk
    <3> SUFFICES ASSUME request.op # "rollout_async" PROVE MergeInOrder(outs, request.dp, Len(chunk)) = chunk
      OBVIOUS
    <3>1. offset = 0 OBVIOUS
    <3>2. MergeInOrder(Rank0(request, Results(request, Split(chunk, request.dp, 0))), request.dp, Len(chunk)) = chunk
      BY <1>1, <1>3, <1>4, <2>3, ChunkComesInOrder
    <3> HIDE DEF offset
    <3> QED BY <3>1, <3>2
  <2> HIDE DEF offset, outs, indices
  <2>6. m = chunk BY <2>4, <2>5
  <2> HIDE DEF m
  <2> QED BY <2>1, <2>6
<1> HIDE DEF C, n, chunk
<1>6. /\ outputs' \in Seq(Seq(Nat)) /\ Len(outputs') = n + 1 /\ outputs'[n + 1] = chunk
      /\ \A k \in 1 .. n : outputs'[k] = outputs[k]
  BY <1>1, <1>3, <1>5 DEF n
<1>7. Len(outputs') <= Len(C) BY <1>1, <1>2, <1>3, <1>6
<1>8. \A k \in 1 .. Len(outputs') : outputs'[k] = C[k]
  <2> SUFFICES ASSUME NEW k \in 1 .. n + 1 PROVE outputs'[k] = C[k] BY <1>6
  <2>1. CASE k \in 1 .. n BY <1>1, <1>6, <2>1
  <2>2. CASE k = n + 1 BY <1>6, <2>2 DEF chunk
  <2> QED BY <1>3, <2>1, <2>2
<1>9. C = RequestChunks(request') /\ Sampling' BY <1>1 DEF C, Sampling
<1>10. AnswersInInputOrder' BY <1>1 DEF AnswersInInputOrder
<1> QED BY <1>1, <1>6, <1>7, <1>8, <1>9, <1>10 DEF DInv

\* All chunks: the rows are regrouped by prompt.
LEMMA RolloutDoneKeeps == DInv /\ RolloutDone => DInv'
<1> SUFFICES ASSUME DInv, RolloutDone PROVE DInv' OBVIOUS
<1> DEFINE C == RequestChunks(request)
<1>1. /\ request \in Requests /\ start \in 0 .. request.dp - 1 /\ Sampling
      /\ outputs \in Seq(Seq(Nat)) /\ Len(outputs) = Len(C) /\ \A k \in 1 .. Len(outputs) : outputs[k] = C[k]
      /\ UNCHANGED <<request, start, outputs>> /\ result' = Regroup(request, FlattenSeq(outputs))
  BY DEF DInv, RolloutDone
<1>2. C \in Seq(Seq(Nat)) /\ FlattenSeq(C) = Ids(Len(request.lens) * request.samples)
  BY <1>1, RequestChunksAre
<1> HIDE DEF C
<1>3. outputs = C BY <1>1, <1>2, SameSequence
<1>4. result' = SampledAnswers(request) BY <1>1, <1>2, <1>3, RegroupIs
<1>5. result' = SampledAnswers(request') /\ Sampling' BY <1>1, <1>4 DEF Sampling
<1>6. AnswersInInputOrder' BY <1>5 DEF AnswersInInputOrder, SampledAnswers
<1>7. C = RequestChunks(request') BY <1>1 DEF C
<1>8. Len(outputs') <= Len(RequestChunks(request'))
  <2>1. Len(C) \in Nat BY <1>2
  <2> QED BY <1>1, <1>7, <2>1
<1> QED BY <1>1, <1>5, <1>6, <1>7, <1>8 DEF DInv

\* A role's scores.
LEMMA ScoreKeeps == DInv /\ Score => DInv'
<1> SUFFICES ASSUME DInv, Score PROVE DInv' OBVIOUS
<1>1. request \in Requests /\ start \in 0 .. request.dp - 1 /\ ~Sampling /\ UNCHANGED <<request, start, outputs>>
  BY DEF DInv, Score
<1>2. request.op \in Scoring BY <1>1, RequestsAssumption DEF Scoring, Sampling
<1>3. result' = MergeStrided(Rank0(request, Results(request,
                 [e \in 0 .. request.dp - 1 |->
                    ScoreShare(request, Split(Indices(0, Len(request.lens)), request.dp, 0)[e])])), request.dp)
  BY DEF Score
<1>4. result' = [i \in DOMAIN request.lens |-> Scores(request, i)] BY <1>1, <1>2, <1>3, ScoresComeInOrder
<1>5. ~Sampling' /\ request' = request BY <1>1 DEF Sampling
<1>6. AnswersInInputOrder' BY <1>4, <1>5 DEF AnswersInInputOrder, Scores
<1> QED BY <1>1, <1>5, <1>6 DEF DInv

\* Every request is answered row by row in the order it was asked, whatever the sizes of its
\* chunks, its data-parallel and tensor-parallel groups and its microbatches
\* (generate_rollout, _generate_rollout_async_once, score_logprobs, score_values, score_rewards).
THEOREM AnswersComeInOrder == DSpec => []AnswersInInputOrder
<1>1. DInit => DInv BY DInitInv
<1>2. DInv /\ [DNext]_dvars => DInv'
  <2> SUFFICES ASSUME DInv, [DNext]_dvars PROVE DInv' OBVIOUS
  <2>1. CASE UNCHANGED dvars
    <3>1. request' = request /\ start' = start /\ outputs' = outputs /\ result' = result BY <2>1 DEF dvars
    <3>2. Sampling' <=> Sampling BY <3>1 DEF Sampling
    <3>3. AnswersInInputOrder' BY <3>1, <3>2 DEF DInv, AnswersInInputOrder
    <3> QED BY <3>1, <3>2, <3>3 DEF DInv
  <2>2. CASE RolloutChunk BY <2>2, RolloutChunkKeeps
  <2>3. CASE RolloutDone BY <2>3, RolloutDoneKeeps
  <2>4. CASE Score BY <2>4, ScoreKeeps
  <2> QED BY <2>1, <2>2, <2>3, <2>4 DEF DNext
<1>3. DInv => AnswersInInputOrder BY DEF DInv
<1> QED BY <1>1, <1>2, <1>3, PTL DEF DSpec

-----------------------------------------------------------------------------
(* Shards of a bucket                                                      *)

\* What a layout and the parameters are.
IsLayout(l) == {l.dp, l.bucket, l.chunk} \subseteq Nat \ {0}
IsShape(sh) == Len(sh) \in Nat /\ DOMAIN sh = 1 .. Len(sh) /\ \A p \in DOMAIN sh : sh[p].numel \in Nat
RanksOf(l) == 0 .. l.dp - 1
\* The offset a of a bucket of n elements is kept by rank r.
Keeps(l, n, r, a) == a - ShardRangeOf(l, n, r).start \in 0 .. ShardRangeOf(l, n, r).numel - 1

\* The largest shard is large enough for all to be kept, and no larger than the bucket.
LEMMA LargestShard ==
  ASSUME NEW l, IsLayout(l), NEW n \in Nat
  PROVE  /\ MaxShard(l, n) \in Nat /\ n <= MaxShard(l, n) * l.dp
         /\ (n # 0 => MaxShard(l, n) # 0) /\ (l.dp = 1 => MaxShard(l, n) = n)
<1> DEFINE d == l.dp  m == MaxShard(l, n)
<1>1. d \in Nat \ {0} BY DEF IsLayout
<1>2. m = (n + d - 1) \div d BY DEF MaxShard
<1> HIDE DEF d, m
<1>3. n + d - 1 \in Nat BY <1>1
<1>4. PICK x \in Nat : x = n + d - 1 BY <1>3
<1>5. m \in Nat /\ x % d \in 0 .. d - 1 /\ x = m * d + (x % d) BY <1>1, <1>2, <1>4, Divided
<1>6. m * d \in Nat BY <1>1, <1>5, RoundsFollow
<1>7. n <= m * d
  <2> DEFINE y == m * d  z == x % d
  <2>1. y \in Nat /\ z \in 0 .. d - 1 /\ x = y + z BY <1>5, <1>6
  <2> HIDE DEF y, z
  <2>2. n <= y BY <1>1, <1>4, <2>1
  <2> QED BY <2>2 DEF y
<1>8. n # 0 => m # 0
  <2> SUFFICES ASSUME m = 0 PROVE n = 0 OBVIOUS
  <2>1. m * d = 0 BY <1>1
  <2> QED BY <1>7, <2>1
<1>9. d = 1 => m = n
  <2> SUFFICES ASSUME d = 1 PROVE m = n OBVIOUS
  <2>1. m = (n + 1 - 1) \div 1 BY <1>2
  <2> QED BY <2>1
<1> QED BY <1>5, <1>7, <1>8, <1>9 DEF d, m

\* A rank's shard lies in the bucket.
LEMMA ShardWithin ==
  ASSUME NEW l, IsLayout(l), NEW n \in Nat, NEW r \in RanksOf(l)
  PROVE  LET s == ShardRangeOf(l, n, r)
         IN  /\ s.start \in Nat /\ s.numel \in Nat /\ s.start + s.numel <= n /\ s.numel <= MaxShard(l, n)
             /\ \A a \in 0 .. n - 1 : Keeps(l, n, r, a) <=> r * MaxShard(l, n) <= a /\ a < r * MaxShard(l, n) + MaxShard(l, n)
             /\ \A a \in Int : Keeps(l, n, r, a) => a \in 0 .. n - 1
<1> DEFINE m == MaxShard(l, n)  f == r * m  s == ShardRangeOf(l, n, r)
<1>1. m \in Nat BY LargestShard
<1>2. r \in Nat BY DEF RanksOf, IsLayout
<1>3. f \in Nat BY <1>1, <1>2
<1>4. s.start = (IF f < n THEN f ELSE n)
      /\ s.numel = (IF s.start + m < n THEN s.start + m ELSE n) - s.start
  BY DEF ShardRangeOf, Low
<1>5. \A a : Keeps(l, n, r, a) <=> a - s.start \in 0 .. s.numel - 1 BY DEF Keeps
<1> HIDE DEF m, f, s
<1>6. s.start \in Nat /\ s.numel \in Nat /\ s.start + s.numel <= n /\ s.numel <= m BY <1>1, <1>3, <1>4
<1>7. \A a \in 0 .. n - 1 : Keeps(l, n, r, a) <=> f <= a /\ a < f + m BY <1>1, <1>3, <1>4, <1>5
<1>8. \A a \in Int : Keeps(l, n, r, a) => a \in 0 .. n - 1 BY <1>5, <1>6
<1> QED BY <1>6, <1>7, <1>8 DEF m, f, s

\* Every element of a bucket is kept by one rank.
LEMMA OneKeeper ==
  ASSUME NEW l, IsLayout(l), NEW n \in Nat, NEW a \in 0 .. n - 1
  PROVE  /\ \E r \in RanksOf(l) : Keeps(l, n, r, a)
         /\ \A r, q \in RanksOf(l) : Keeps(l, n, r, a) /\ Keeps(l, n, q, a) => r = q
<1> DEFINE m == MaxShard(l, n)  d == l.dp
<1>1. m \in Nat /\ n <= m * d /\ (n # 0 => m # 0) BY LargestShard
<1>2. d \in Nat \ {0} BY DEF IsLayout
<1>3. \A r \in RanksOf(l) : Keeps(l, n, r, a) <=> r * m <= a /\ a < r * m + m BY ShardWithin
<1>4. \A r \in RanksOf(l) : r \in Nat /\ r < d BY <1>2 DEF RanksOf
<1>5. \A r \in Nat : r < d => r \in RanksOf(l) BY <1>2 DEF RanksOf
<1> HIDE DEF m, d
<1>6. m \in Nat \ {0} /\ a \in Nat BY <1>1
<1>7. PICK q \in Nat : q = a \div m BY <1>6, Divided
<1>8. q * m \in Nat /\ q * m <= a /\ a < q * m + m
  <2> DEFINE y == q * m  z == a % m
  <2>1. z \in 0 .. m - 1 /\ a = y + z BY <1>6, <1>7, Divided
  <2>2. y \in Nat BY <1>6
  <2> HIDE DEF y, z
  <2>3. y <= a /\ a < y + m BY <1>6, <2>1, <2>2
  <2> QED BY <2>2, <2>3 DEF y
<1>9. q < d
  <2> SUFFICES ASSUME d <= q PROVE FALSE BY <1>2
  <2>1. d * m <= q * m BY <1>2, <1>6, RoundsFollow
  <2>2. d * m = m * d BY <1>2, <1>6
  <2> DEFINE y == q * m  z == m * d
  <2>3. y \in Nat /\ z \in Nat /\ z <= y /\ y <= a /\ n <= z BY <1>1, <1>2, <1>8, <2>1, <2>2
  <2> HIDE DEF y, z
  <2> QED BY <2>3
<1>10. ASSUME NEW r \in RanksOf(l), NEW t \in RanksOf(l), Keeps(l, n, r, a), Keeps(l, n, t, a) PROVE ~(r < t)
  <2> SUFFICES ASSUME r < t PROVE FALSE OBVIOUS
  <2>1. r * m + m <= t * m BY <1>4, <1>6, RoundsFollow
  <2> DEFINE y == r * m  z == t * m
  <2>2. y \in Nat /\ z \in Nat /\ y + m <= z /\ z <= a /\ a < y + m BY <1>3, <1>4, <1>6, <1>10, <2>1, RoundsFollow
  <2> HIDE DEF y, z
  <2> QED BY <1>6, <2>2
<1>11. \A r, t \in RanksOf(l) : Keeps(l, n, r, a) /\ Keeps(l, n, t, a) => r = t BY <1>4, <1>10
<1> QED BY <1>3, <1>5, <1>7, <1>8, <1>9, <1>11

\* The element i of a parameter is in chunk x; its offset in the bucket of x.
InRef(x, p, i) == x.p = p /\ i - x.start \in 0 .. x.numel - 1
Offset(x, i) == x.at + i - x.start
IsRef(x) == {x.start, x.at, x.numel} \subseteq Nat /\ x.numel # 0

\* A rank's slice of a chunk, by elements of the model and by offsets of the rank's buffer.
LEMMA SliceFacts ==
  ASSUME NEW l, IsLayout(l), NEW b, b.numel \in Nat, NEW x, IsRef(x), NEW r \in RanksOf(l)
  PROVE  LET s == SliceOf(l, b, x, r)
             at == ShardRangeOf(l, b.numel, r).start
         IN  /\ {s.inRef, s.numel, s.inShard} \subseteq Nat
             /\ \A i \in Int : i - x.start - s.inRef \in 0 .. s.numel - 1
                                 <=> i - x.start \in 0 .. x.numel - 1 /\ Keeps(l, b.numel, r, Offset(x, i))
             /\ \A i \in Int : i - x.start - s.inRef \in 0 .. s.numel - 1
                                 => s.inShard + (i - x.start - s.inRef) = Offset(x, i) - at
             /\ \A o \in Int : o - s.inShard \in 0 .. s.numel - 1
                                 => LET i == x.start + s.inRef + o - s.inShard
                                    IN  /\ i \in Int /\ i - x.start \in 0 .. x.numel - 1 /\ o = Offset(x, i) - at
                                        /\ i - x.start - s.inRef = o - s.inShard
<1> DEFINE s == SliceOf(l, b, x, r)  sr == ShardRangeOf(l, b.numel, r)
           from == High(x.at, sr.start)  to == Low(x.at + x.numel, sr.start + sr.numel)
<1>1. sr.start \in Nat /\ sr.numel \in Nat BY ShardWithin
<1>2. s.inRef = High(from - x.at, 0) /\ s.numel = High(to - from, 0) /\ s.inShard = High(from - sr.start, 0)
  BY DEF SliceOf
<1>3. \A a : Keeps(l, b.numel, r, a) <=> a - sr.start \in 0 .. sr.numel - 1 BY DEF Keeps
<1>4. x.start \in Nat /\ x.at \in Nat /\ x.numel \in Nat BY DEF IsRef
<1> HIDE DEF s, sr
<1>5. from \in Nat /\ to \in Nat /\ from >= x.at /\ from >= sr.start BY <1>1, <1>4 DEF High, Low
<1>a. /\ s.inRef = (IF from - x.at > 0 THEN from - x.at ELSE 0)
      /\ s.inShard = (IF from - sr.start > 0 THEN from - sr.start ELSE 0)
      /\ s.numel = (IF to - from > 0 THEN to - from ELSE 0)
  BY <1>2 DEF High
<1>b. s.inRef = from - x.at /\ s.inShard = from - sr.start /\ s.inRef \in Nat /\ s.inShard \in Nat /\ s.numel \in Nat
  <2> HIDE DEF from, to
  <2> QED BY <1>1, <1>4, <1>5, <1>a
<1>6. \A i \in Int : i - x.start - s.inRef \in 0 .. s.numel - 1 <=> from <= Offset(x, i) /\ Offset(x, i) < to
  <2> HIDE DEF from, to
  <2> QED BY <1>1, <1>4, <1>5, <1>a, <1>b DEF Offset
<1>7. \A i \in Int : from <= Offset(x, i) /\ Offset(x, i) < to
                       <=> i - x.start \in 0 .. x.numel - 1 /\ Keeps(l, b.numel, r, Offset(x, i))
  BY <1>1, <1>3, <1>4 DEF Offset, High, Low
<1>8. \A i \in Int : s.inShard + (i - x.start - s.inRef) = Offset(x, i) - sr.start
  <2> HIDE DEF from, to
  <2> QED BY <1>1, <1>4, <1>5, <1>b DEF Offset
<1>9. ASSUME NEW o \in Int, o - s.inShard \in 0 .. s.numel - 1
      PROVE  LET i == x.start + s.inRef + o - s.inShard
             IN  /\ i \in Int /\ i - x.start \in 0 .. x.numel - 1 /\ o = Offset(x, i) - sr.start
                 /\ i - x.start - s.inRef = o - s.inShard
  <2> DEFINE i == x.start + s.inRef + o - s.inShard
  <2>1. i \in Int /\ o = Offset(x, i) - sr.start /\ i - x.start - s.inRef = o - s.inShard
    <3> HIDE DEF from, to
    <3> QED BY <1>1, <1>4, <1>5, <1>b DEF Offset
  <2>2. i - x.start \in 0 .. x.numel - 1 BY <1>6, <1>7, <1>9, <2>1
  <2> QED BY <2>1, <2>2
<1> QED BY <1>6, <1>7, <1>8, <1>9, <1>b DEF s, sr

-----------------------------------------------------------------------------
(* Chunks and buckets                                                      *)

Refs == [p : Nat, start : Nat, at : Nat, numel : Nat \ {0}]
\* x is a chunk, which lies in its parameter.
OfShape(sh, x) == x \in Refs /\ x.at = 0 /\ x.p \in DOMAIN sh /\ x.start + x.numel <= sh[x.p].numel
\* x is of an earlier parameter than y, or an earlier part of the same.
Before(x, y) == \/ x.p < y.p
                \/ x.p = y.p /\ x.start + x.numel <= y.start
\* The chunks of the first n parameters, in their order.
InOrderUpTo(sh, cs, n) ==
  /\ cs \in Seq(Refs)
  /\ \A m \in 1 .. Len(cs) : OfShape(sh, cs[m]) /\ cs[m].p <= n
  /\ \A m \in 1 .. Len(cs) : \A o \in 1 .. Len(cs) : m < o => Before(cs[m], cs[o])
  /\ \A p \in 1 .. n : \A i \in 0 .. sh[p].numel - 1 : \E m \in 1 .. Len(cs) : InRef(cs[m], p, i)

\* The chunks of one parameter.
LEMMA ChunksAre ==
  ASSUME NEW sh, IsShape(sh), NEW l, IsLayout(l), NEW p \in DOMAIN sh
  PROVE  LET cs == ChunksOf(sh, l, p)
         IN  /\ cs \in Seq(Refs)
             /\ \A m \in 1 .. Len(cs) : OfShape(sh, cs[m]) /\ cs[m].p = p
             /\ \A m \in 1 .. Len(cs) : \A o \in 1 .. Len(cs) : m < o => Before(cs[m], cs[o])
             /\ \A i \in 0 .. sh[p].numel - 1 : \E m \in 1 .. Len(cs) : InRef(cs[m], p, i)
<1> DEFINE n == sh[p].numel  c == l.chunk  q == (n + c - 1) \div c  cs == ChunksOf(sh, l, p)
<1>1. n \in Nat /\ c \in Nat \ {0} /\ p \in Nat BY DEF IsShape, IsLayout
<1>2. cs = [k \in 1 .. q |-> [p |-> p, start |-> (k - 1) * c, at |-> 0, numel |-> Low(c, n - (k - 1) * c)]]
  BY DEF ChunksOf
<1> HIDE DEF n, c, cs, q
<1>3. PICK x \in Nat : x = n + c - 1
  <2>1. n + c - 1 \in Nat BY <1>1
  <2> QED BY <2>1
<1>4. q \in Nat /\ x % c \in 0 .. c - 1 /\ x = q * c + (x % c) BY <1>1, <1>3, Divided DEF q
<1>5. q * c \in Nat /\ n <= q * c /\ q * c < n + c
  <2> DEFINE y == q * c  z == x % c
  <2>1. y \in Nat BY <1>1, <1>4
  <2>2. z \in 0 .. c - 1 /\ x = y + z BY <1>4
  <2> HIDE DEF y, z
  <2>3. n <= y /\ y < n + c BY <1>1, <1>3, <2>1, <2>2
  <2> QED BY <2>1, <2>3 DEF y
<1>6. ASSUME NEW k \in 1 .. q PROVE (k - 1) * c \in Nat /\ (k - 1) * c < n /\ (k - 1) * c + c = k * c
  <2>1. PICK j \in Nat : k = j + 1
    <3>1. k - 1 \in Nat /\ k = (k - 1) + 1 OBVIOUS
    <3> QED BY <3>1
  <2>2. j * c \in Nat /\ (j + 1) * c = j * c + c /\ j * c + c <= q * c BY <1>1, <1>4, <2>1, RoundsFollow
  <2>3. k - 1 = j BY <2>1
  <2> DEFINE y == j * c  z == q * c
  <2>4. y \in Nat /\ z \in Nat /\ z < n + c /\ y + c <= z BY <1>5, <2>2
  <2> HIDE DEF y, z
  <2>5. y < n BY <1>1, <2>4
  <2> QED BY <2>1, <2>2, <2>3, <2>5 DEF y
<1>7. \A k \in 1 .. q : /\ cs[k] = [p |-> p, start |-> (k - 1) * c, at |-> 0, numel |-> Low(c, n - (k - 1) * c)]
                        /\ cs[k] \in Refs /\ cs[k].p = p /\ cs[k].start = (k - 1) * c /\ cs[k].at = 0
                        /\ cs[k].start + cs[k].numel <= n /\ cs[k].start + cs[k].numel <= (k - 1) * c + c
                        /\ \A i \in 0 .. n - 1 : (k - 1) * c <= i /\ i < (k - 1) * c + c
                                                   => i - cs[k].start \in 0 .. cs[k].numel - 1
  <2> SUFFICES ASSUME NEW k \in 1 .. q
      PROVE  /\ cs[k] = [p |-> p, start |-> (k - 1) * c, at |-> 0, numel |-> Low(c, n - (k - 1) * c)]
             /\ cs[k] \in Refs /\ cs[k].p = p /\ cs[k].start = (k - 1) * c /\ cs[k].at = 0
             /\ cs[k].start + cs[k].numel <= n /\ cs[k].start + cs[k].numel <= (k - 1) * c + c
             /\ \A i \in 0 .. n - 1 : (k - 1) * c <= i /\ i < (k - 1) * c + c
                                        => i - cs[k].start \in 0 .. cs[k].numel - 1
    OBVIOUS
  <2> DEFINE y == (k - 1) * c
  <2>1. y \in Nat /\ y < n BY <1>6
  <2>2. cs[k] = [p |-> p, start |-> y, at |-> 0, numel |-> Low(c, n - y)] BY <1>2
  <2> HIDE DEF y
  <2>3. Low(c, n - y) \in Nat \ {0} /\ y + Low(c, n - y) <= n /\ Low(c, n - y) <= c
        /\ \A i \in 0 .. n - 1 : y <= i /\ i < y + c => i - y \in 0 .. Low(c, n - y) - 1
    BY <1>1, <2>1 DEF Low
  <2>4. cs[k] \in Refs BY <1>1, <2>1, <2>2, <2>3 DEF Refs
  <2>5. cs[k].p = p /\ cs[k].start = y /\ cs[k].at = 0 /\ cs[k].numel = Low(c, n - y) BY <2>2
  <2> HIDE DEF Refs
  <2>6. y + Low(c, n - y) <= y + c BY <1>1, <2>1, <2>3
  <2> QED BY <2>2, <2>3, <2>4, <2>5, <2>6 DEF y
<1>8. cs \in Seq(Refs) /\ Len(cs) = q
  <2>1. cs \in [1 .. q -> Refs]
    <3>1. \A k \in 1 .. q : [p |-> p, start |-> (k - 1) * c, at |-> 0, numel |-> Low(c, n - (k - 1) * c)] \in Refs
      BY <1>7
    <3> HIDE DEF Refs
    <3> QED BY <1>2, <3>1
  <2> QED BY <1>4, <2>1, SeqOfFunction
<1>9. \A m \in 1 .. q : \A o \in 1 .. q : m < o => Before(cs[m], cs[o])
  <2> SUFFICES ASSUME NEW m \in 1 .. q, NEW o \in 1 .. q, m < o PROVE Before(cs[m], cs[o]) OBVIOUS
  <2>1. m - 1 \in Nat /\ o - 1 \in Nat /\ m - 1 < o - 1 OBVIOUS
  <2>2. (m - 1) * c + c <= (o - 1) * c BY <1>1, <2>1, RoundsFollow
  <2> DEFINE y == (m - 1) * c  z == (o - 1) * c  e == cs[m].start + cs[m].numel
  <2>3. y + c <= z /\ e <= y + c /\ y \in Nat /\ z \in Nat BY <1>6, <1>7, <2>2
  <2>4. e \in Nat
    <3> DEFINE u == cs[m]
    <3>1. u \in Refs BY <1>7
    <3> HIDE DEF u
    <3>2. u.start \in Nat /\ u.numel \in Nat BY <3>1 DEF Refs
    <3>3. u.start + u.numel \in Nat BY <3>2
    <3> QED BY <3>3 DEF u
  <2>5. cs[m].p = cs[o].p /\ cs[o].start = z BY <1>7
  <2> HIDE DEF y, z, e
  <2>6. e <= z BY <1>1, <2>3, <2>4
  <2> QED BY <2>5, <2>6 DEF Before, e
<1>10. ASSUME NEW i \in 0 .. n - 1 PROVE \E m \in 1 .. q : InRef(cs[m], p, i)
  <2> DEFINE k == i \div c  y == k * c  z == i % c
  <2>1. i \in Nat BY <1>1
  <2>2. k \in Nat /\ z \in 0 .. c - 1 /\ i = y + z BY <1>1, <2>1, Divided
  <2>3. y \in Nat BY <1>1, <2>2
  <2>4. k < q
    <3> SUFFICES ASSUME q <= k PROVE FALSE BY <1>4, <2>2
    <3>1. q * c <= y BY <1>1, <1>4, <2>2, RoundsFollow
    <3> DEFINE t == q * c
    <3>2. t \in Nat /\ n <= t /\ t <= y BY <1>5, <3>1
    <3> HIDE DEF t, y, z
    <3> QED BY <1>1, <2>1, <2>2, <2>3, <3>2
  <2>5. k + 1 \in 1 .. q /\ (k + 1) - 1 = k BY <1>4, <2>2, <2>4
  <2>6. y <= i /\ i < y + c
    <3> HIDE DEF y, z
    <3> QED BY <1>1, <2>2, <2>3
  <2>7. ((k + 1) - 1) * c = y BY <2>5
  <2> HIDE DEF k
  <2>8. i - cs[k + 1].start \in 0 .. cs[k + 1].numel - 1 /\ cs[k + 1].p = p BY <1>7, <2>5, <2>6, <2>7
  <2> QED BY <2>5, <2>8 DEF InRef
<1>11. \A m \in 1 .. q : OfShape(sh, cs[m]) /\ cs[m].p = p BY <1>7 DEF OfShape, n
<1> QED BY <1>8, <1>9, <1>10, <1>11 DEF cs, n

\* The chunks of one more parameter are put behind the others.
LEMMA ChunksJoin ==
  ASSUME NEW sh, IsShape(sh), NEW l, IsLayout(l), NEW n \in Nat, n + 1 \in DOMAIN sh, NEW cs, InOrderUpTo(sh, cs, n)
  PROVE  InOrderUpTo(sh, cs \o ChunksOf(sh, l, n + 1), n + 1)
<1> DEFINE ds == ChunksOf(sh, l, n + 1)  es == cs \o ds
<1>1. /\ ds \in Seq(Refs)
      /\ \A m \in 1 .. Len(ds) : OfShape(sh, ds[m]) /\ ds[m].p = n + 1
      /\ \A m \in 1 .. Len(ds) : \A o \in 1 .. Len(ds) : m < o => Before(ds[m], ds[o])
      /\ \A i \in 0 .. sh[n + 1].numel - 1 : \E m \in 1 .. Len(ds) : InRef(ds[m], n + 1, i)
  BY ChunksAre
<1> HIDE DEF ds
<1>2. /\ cs \in Seq(Refs)
      /\ \A m \in 1 .. Len(cs) : OfShape(sh, cs[m]) /\ cs[m].p <= n
      /\ \A m \in 1 .. Len(cs) : \A o \in 1 .. Len(cs) : m < o => Before(cs[m], cs[o])
      /\ \A p \in 1 .. n : \A i \in 0 .. sh[p].numel - 1 : \E m \in 1 .. Len(cs) : InRef(cs[m], p, i)
  BY DEF InOrderUpTo
<1> HIDE DEF Refs
<1>3. /\ es \in Seq(Refs) /\ Len(cs) \in Nat /\ Len(ds) \in Nat /\ Len(es) = Len(cs) + Len(ds)
      /\ \A i \in 1 .. Len(cs) : es[i] = cs[i]
      /\ \A i \in Len(cs) + 1 .. Len(cs) + Len(ds) : es[i] = ds[i - Len(cs)]
  BY <1>1, <1>2, ConcatElements, Zenon
<1> HIDE DEF es
<1>4. \A m \in 1 .. Len(es) : \/ m \in 1 .. Len(cs) /\ es[m] = cs[m]
                              \/ m \notin 1 .. Len(cs) /\ m - Len(cs) \in 1 .. Len(ds) /\ es[m] = ds[m - Len(cs)]
  BY <1>3
<1>5. \A m \in 1 .. Len(es) : OfShape(sh, es[m]) /\ es[m].p <= n + 1
  <2> SUFFICES ASSUME NEW m \in 1 .. Len(es) PROVE OfShape(sh, es[m]) /\ es[m].p <= n + 1 OBVIOUS
  <2>1. CASE m \in 1 .. Len(cs) /\ es[m] = cs[m]
    <3>1. es[m].p <= n /\ OfShape(sh, es[m]) BY <1>2, <2>1
    <3>2. es[m].p \in Nat BY <3>1 DEF OfShape, Refs
    <3> QED BY <3>1, <3>2
  <2>2. CASE m - Len(cs) \in 1 .. Len(ds) /\ es[m] = ds[m - Len(cs)] BY <1>1, <2>2
  <2> QED BY <1>4, <2>1, <2>2
<1>6. \A m \in 1 .. Len(es) : \A o \in 1 .. Len(es) : m < o => Before(es[m], es[o])
  <2> SUFFICES ASSUME NEW m \in 1 .. Len(es), NEW o \in 1 .. Len(es), m < o PROVE Before(es[m], es[o]) OBVIOUS
  <2>1. CASE o \in 1 .. Len(cs) /\ es[o] = cs[o]
    <3>1. m \in 1 .. Len(cs) BY <1>3, <2>1
    <3> QED BY <1>2, <1>3, <2>1, <3>1
  <2>2. CASE m \notin 1 .. Len(cs) /\ o \notin 1 .. Len(cs)
    <3>1. m - Len(cs) \in 1 .. Len(ds) /\ es[m] = ds[m - Len(cs)] BY <1>4, <2>2
    <3>2. o - Len(cs) \in 1 .. Len(ds) /\ es[o] = ds[o - Len(cs)] BY <1>4, <2>2
    <3>3. m - Len(cs) < o - Len(cs) BY <1>3
    <3> QED BY <1>1, <3>1, <3>2, <3>3
  <2>3. CASE m \in 1 .. Len(cs) /\ o \notin 1 .. Len(cs)
    <3>1. es[m] = cs[m] /\ es[o] = ds[o - Len(cs)] /\ o - Len(cs) \in 1 .. Len(ds) BY <1>4, <2>3
    <3>2. es[m].p <= n /\ es[o].p = n + 1 /\ OfShape(sh, es[m]) BY <1>1, <1>2, <2>3, <3>1
    <3>3. es[m].p \in Nat BY <3>2 DEF OfShape, Refs
    <3>4. es[m].p < es[o].p BY <3>2, <3>3
    <3> QED BY <3>4 DEF Before
  <2> QED BY <1>4, <2>1, <2>2, <2>3
<1>7. \A p \in 1 .. n + 1 : \A i \in 0 .. sh[p].numel - 1 : \E m \in 1 .. Len(es) : InRef(es[m], p, i)
  <2> SUFFICES ASSUME NEW p \in 1 .. n + 1, NEW i \in 0 .. sh[p].numel - 1 PROVE \E m \in 1 .. Len(es) : InRef(es[m], p, i)
    OBVIOUS
  <2>1. CASE p \in 1 .. n
    <3>1. PICK m \in 1 .. Len(cs) : InRef(cs[m], p, i) BY <1>2, <2>1
    <3>2. m \in 1 .. Len(es) /\ es[m] = cs[m] BY <1>3
    <3> QED BY <3>1, <3>2
  <2>2. CASE p = n + 1
    <3>1. PICK m \in 1 .. Len(ds) : InRef(ds[m], p, i) BY <1>1, <2>2
    <3>2. Len(cs) + m \in 1 .. Len(es) /\ (Len(cs) + m) - Len(cs) = m /\ Len(cs) + m \in Len(cs) + 1 .. Len(cs) + Len(ds)
      BY <1>3
    <3>3. es[Len(cs) + m] = ds[m] BY <1>3, <3>2
    <3> QED BY <3>1, <3>2, <3>3
  <2> QED BY <2>1, <2>2
<1> QED BY <1>3, <1>5, <1>6, <1>7 DEF InOrderUpTo, es, ds

\* The chunks of all parameters, in their order.
LEMMA AllChunksAre ==
  ASSUME NEW sh, IsShape(sh), NEW l, IsLayout(l)
  PROVE  InOrderUpTo(sh, AllChunks(sh, l), Len(sh))
<1> DEFINE ss == [p \in DOMAIN sh |-> ChunksOf(sh, l, p)]  n == Len(sh)
<1>1. n \in Nat /\ DOMAIN sh = 1 .. n BY DEF IsShape
<1>2. \A p \in 1 .. n : ChunksOf(sh, l, p) \in Seq(Refs) BY <1>1, ChunksAre
<1>3. ss \in Seq(Seq(Refs)) /\ Len(ss) = n
  <2>1. ss \in [1 .. n -> Seq(Refs)] BY <1>1, <1>2
  <2> HIDE DEF n
  <2> QED BY <1>1, <2>1, SeqOfFunction
<1>4. \A p \in 1 .. n : ss[p] = ChunksOf(sh, l, p) BY <1>1
<1>5. AllChunks(sh, l) = FlattenSeq(ss) BY DEF AllChunks
<1> HIDE DEF ss, n
<1>6. InOrderUpTo(sh, << >>, 0) BY DEF InOrderUpTo
<1>7. CASE n = 0
  <2>1. ss = << >> BY <1>3, <1>7
  <2>2. FlattenSeq(ss) = << >> BY <2>1 DEF FlattenSeq
  <2>3. AllChunks(sh, l) = << >> BY <1>5, <2>2
  <2> QED BY <1>6, <1>7, <2>3 DEF n
<1>8. CASE n # 0
  <2>1. PICK f : /\ FlattenSeq(ss) = f[n] /\ f[1] = ss[1]
                 /\ \A i \in 2 .. n : f[i] = f[i - 1] \o ss[i]
    <3>1. Len(ss) # 0 BY <1>3, <1>8
    <3>2. \E f : /\ FlattenSeq(ss) = f[Len(ss)] /\ f[1] = ss[1]
                 /\ \A i \in 2 .. Len(ss) : f[i] = f[i - 1] \o ss[i]
                 /\ \A i \in 1 .. Len(ss) : f[i] \in Seq(Refs)
      BY <1>3, <3>1, FlattenSteps, Zenon
    <3>3. Len(ss) = n BY <1>3
    <3> QED BY <3>2, <3>3, Zenon
  <2>2. PICK m \in Nat : n = m + 1
    <3>1. n - 1 \in Nat /\ n = (n - 1) + 1 BY <1>1, <1>8
    <3> QED BY <3>1
  <2> DEFINE T == {k \in 0 .. m : InOrderUpTo(sh, f[k + 1], k + 1)}
  <2>3. 0 \in T
    <3>1. 1 \in 1 .. n /\ 0 + 1 = 1 BY <2>2
    <3>2. InOrderUpTo(sh, << >> \o ChunksOf(sh, l, 1), 1) BY <1>1, <1>6, <3>1, ChunksJoin
    <3>3. ChunksOf(sh, l, 1) \in Seq(Refs) BY <1>2, <3>1
    <3>4. << >> \o ChunksOf(sh, l, 1) = ChunksOf(sh, l, 1)
      <4> DEFINE c == ChunksOf(sh, l, 1)
      <4>1. c \in Seq(Refs) BY <3>3
      <4> HIDE DEF c, Refs
      <4>2. << >> \o c = c BY <4>1
      <4> QED BY <4>2 DEF c
    <3>5. f[0 + 1] = ChunksOf(sh, l, 1) BY <1>4, <2>1, <3>1
    <3> QED BY <3>1, <3>2, <3>4, <3>5
  <2>4. ASSUME NEW k \in 0 .. m - 1, k \in T PROVE k + 1 \in T
    <3>1. /\ k + 1 \in 0 .. m /\ k + 1 \in Nat /\ (k + 1) + 1 \in 2 .. n /\ (k + 1) + 1 \in 1 .. n
          /\ ((k + 1) + 1) - 1 = k + 1
      BY <2>2
    <3>2. InOrderUpTo(sh, f[k + 1], k + 1) BY <2>4
    <3>3. InOrderUpTo(sh, f[k + 1] \o ChunksOf(sh, l, (k + 1) + 1), (k + 1) + 1) BY <1>1, <3>1, <3>2, ChunksJoin
    <3>4. f[(k + 1) + 1] = f[k + 1] \o ChunksOf(sh, l, (k + 1) + 1) BY <1>4, <2>1, <3>1
    <3> QED BY <3>1, <3>3, <3>4
  <2> HIDE DEF T
  <2>5. 0 .. m \subseteq T BY <2>3, <2>4, IntervalInduction
  <2>6. InOrderUpTo(sh, f[m + 1], m + 1) BY <2>5 DEF T
  <2> QED BY <1>5, <2>1, <2>2, <2>6 DEF n
<1> QED BY <1>7, <1>8

BucketSet == [numel : Nat, refs : Seq(Refs)]
\* The chunks of a bucket lie in it side by side and fill it.
BucketOk(b) ==
  /\ b \in BucketSet /\ b.refs # << >>
  /\ \A j \in 1 .. Len(b.refs) : b.refs[j].at + b.refs[j].numel <= b.numel
  /\ \A j \in 1 .. Len(b.refs) : \A o \in 1 .. Len(b.refs) : j < o => b.refs[j].at + b.refs[j].numel <= b.refs[o].at
  /\ \A a \in 0 .. b.numel - 1 : \E j \in 1 .. Len(b.refs) : a - b.refs[j].at \in 0 .. b.refs[j].numel - 1
Same(x, y) == x.p = y.p /\ x.start = y.start /\ x.numel = y.numel
\* The first n chunks are in the buckets, in their order.
Laid(bs, cs, n) ==
  /\ bs \in Seq(BucketSet) /\ \A k \in 1 .. Len(bs) : BucketOk(bs[k])
  /\ \A k \in 1 .. Len(bs) : \A j \in 1 .. Len(bs[k].refs) : \E m \in 1 .. n : Same(bs[k].refs[j], cs[m])
  /\ \A m \in 1 .. n : \E k \in 1 .. Len(bs) : \E j \in 1 .. Len(bs[k].refs) : Same(bs[k].refs[j], cs[m])
  /\ \A k \in 1 .. Len(bs) : \A o \in 1 .. Len(bs) :
       \A j \in 1 .. Len(bs[k].refs) : \A i \in 1 .. Len(bs[o].refs) :
         k < o \/ (k = o /\ j < i) => Before(bs[k].refs[j], bs[o].refs[i])
\* The buckets bt are bs with one more chunk c at their end.
WithOneMore(bs, bt, c) ==
  /\ bt \in Seq(BucketSet) /\ bt # << >> /\ \A k \in 1 .. Len(bt) : BucketOk(bt[k])
  /\ Len(bs) <= Len(bt)
  /\ \A k \in 1 .. Len(bs) : /\ Len(bs[k].refs) <= Len(bt[k].refs)
                             /\ \A j \in 1 .. Len(bs[k].refs) : bt[k].refs[j] = bs[k].refs[j]
  /\ Same(bt[Len(bt)].refs[Len(bt[Len(bt)].refs)], c)
  /\ \A k \in 1 .. Len(bt) : \A j \in 1 .. Len(bt[k].refs) :
       \/ k = Len(bt) /\ j = Len(bt[k].refs)
       \/ k \in 1 .. Len(bs) /\ j \in 1 .. Len(bs[k].refs)

\* A chunk is put behind those of a bucket.
LEMMA BucketGrows ==
  ASSUME NEW b, BucketOk(b), NEW c, c \in Refs
  PROVE  LET d == WithChunkIn(b, c)
         IN  /\ BucketOk(d) /\ Len(d.refs) = Len(b.refs) + 1 /\ Len(b.refs) \in Nat
             /\ \A j \in 1 .. Len(b.refs) : d.refs[j] = b.refs[j]
             /\ Same(d.refs[Len(b.refs) + 1], c)
<1> DEFINE x == [c EXCEPT !.at = b.numel]  d == WithChunkIn(b, c)  rs == b.refs  ts == Append(rs, x)
<1>1. rs \in Seq(Refs) /\ b.numel \in Nat BY DEF BucketOk, BucketSet
<1>2. x \in Refs /\ x.at = b.numel /\ Same(x, c) /\ x.numel = c.numel /\ c.numel \in Nat \ {0} BY <1>1 DEF Refs, Same
<1>3. d = [numel |-> b.numel + c.numel, refs |-> ts] BY DEF WithChunkIn
<1> HIDE DEF x, d, rs
<1>4. /\ ts \in Seq(Refs) /\ Len(ts) = Len(rs) + 1 /\ Len(rs) \in Nat /\ ts[Len(rs) + 1] = x
      /\ \A j \in 1 .. Len(rs) : ts[j] = rs[j]
  <2> HIDE DEF Refs
  <2> QED BY <1>1, <1>2
<1> HIDE DEF ts
<1>5. d.numel = b.numel + c.numel /\ d.refs = ts /\ d \in BucketSet BY <1>1, <1>2, <1>3, <1>4 DEF BucketSet
<1>6. \A j \in 1 .. Len(rs) : rs[j] \in Refs BY <1>1
<1>7. \A j \in 1 .. Len(rs) : rs[j].at \in Nat /\ rs[j].numel \in Nat /\ rs[j].at + rs[j].numel <= b.numel
  BY <1>6 DEF BucketOk, Refs, rs
<1>8. \A j \in 1 .. Len(ts) : ts[j].at + ts[j].numel <= d.numel
  <2> SUFFICES ASSUME NEW j \in 1 .. Len(ts) PROVE ts[j].at + ts[j].numel <= d.numel OBVIOUS
  <2>1. CASE j = Len(rs) + 1 BY <1>1, <1>2, <1>4, <1>5, <2>1
  <2>2. CASE j \in 1 .. Len(rs)
    <3>1. ts[j] = rs[j] /\ rs[j].at \in Nat /\ rs[j].numel \in Nat /\ rs[j].at + rs[j].numel <= b.numel
      BY <1>4, <1>7, <2>2
    <3> QED BY <1>1, <1>2, <1>5, <3>1
  <2> QED BY <1>4, <2>1, <2>2
<1>9. \A j \in 1 .. Len(ts) : \A o \in 1 .. Len(ts) : j < o => ts[j].at + ts[j].numel <= ts[o].at
  <2> SUFFICES ASSUME NEW j \in 1 .. Len(ts), NEW o \in 1 .. Len(ts), j < o PROVE ts[j].at + ts[j].numel <= ts[o].at
    OBVIOUS
  <2>1. j \in 1 .. Len(rs) /\ ts[j] = rs[j] BY <1>4
  <2>2. CASE o = Len(rs) + 1 BY <1>2, <1>4, <1>7, <2>1, <2>2
  <2>3. CASE o \in 1 .. Len(rs) BY <1>4, <2>1, <2>3 DEF BucketOk, rs
  <2> QED BY <1>4, <2>2, <2>3
<1>10. ASSUME NEW a \in 0 .. d.numel - 1 PROVE \E j \in 1 .. Len(ts) : a - ts[j].at \in 0 .. ts[j].numel - 1
  <2>1. CASE a < b.numel
    <3>1. a \in 0 .. b.numel - 1 BY <1>1, <1>2, <1>5, <2>1
    <3>2. PICK j \in 1 .. Len(rs) : a - rs[j].at \in 0 .. rs[j].numel - 1 BY <3>1 DEF BucketOk, rs
    <3>3. j \in 1 .. Len(ts) /\ ts[j] = rs[j] BY <1>4
    <3> QED BY <3>2, <3>3
  <2>2. CASE ~(a < b.numel)
    <3>1. Len(rs) + 1 \in 1 .. Len(ts) BY <1>4
    <3>2. a - x.at \in 0 .. x.numel - 1 BY <1>1, <1>2, <1>5, <2>2
    <3> QED BY <1>4, <3>1, <3>2
  <2> QED BY <2>1, <2>2
<1>11. ts # << >> BY <1>4
<1>12. BucketOk(d) BY <1>5, <1>8, <1>9, <1>10, <1>11 DEF BucketOk
<1> QED BY <1>2, <1>4, <1>5, <1>12 DEF d, rs

\* A bucket of one chunk.
LEMMA BucketStarts ==
  ASSUME NEW c, c \in Refs, c.at = 0
  PROVE  BucketOk([numel |-> c.numel, refs |-> <<c>>])
<1> DEFINE s == <<c>>  b == [numel |-> c.numel, refs |-> s]
<1>1. c.numel \in Nat \ {0} BY DEF Refs
<1>2. s \in Seq(Refs) /\ Len(s) = 1 /\ s[1] = c /\ s # << >> OBVIOUS
<1> HIDE DEF s
<1>3. b.numel = c.numel /\ b.refs = s /\ b \in BucketSet BY <1>1, <1>2 DEF BucketSet
<1> HIDE DEF b
<1>4. \A j \in 1 .. Len(s) : j = 1 BY <1>2
<1>5. \A a \in 0 .. b.numel - 1 : a - s[1].at \in 0 .. s[1].numel - 1 BY <1>1, <1>2, <1>3
<1>6. s[1].at + s[1].numel <= b.numel BY <1>1, <1>2, <1>3
<1>7. 1 \in 1 .. Len(s) BY <1>2
<1>8. BucketOk(b)
  <2>1. \A j \in 1 .. Len(s) : s[j].at + s[j].numel <= b.numel BY <1>4, <1>6
  <2>2. \A j \in 1 .. Len(s) : \A o \in 1 .. Len(s) : ~(j < o) BY <1>4
  <2> QED BY <1>2, <1>3, <1>5, <1>7, <2>1, <2>2 DEF BucketOk
<1> QED BY <1>8 DEF b, s

\* The last element of a sequence is replaced.
LEMMA LastReplaced ==
  ASSUME NEW X, NEW s \in Seq(X), s # << >>, NEW x \in X
  PROVE  LET t == [s EXCEPT ![Len(s)] = x]
         IN  t \in Seq(X) /\ Len(t) = Len(s) /\ t[Len(s)] = x /\ \A i \in 1 .. Len(s) - 1 : t[i] = s[i]
<1> DEFINE n == Len(s)  t == [s EXCEPT ![Len(s)] = x]
<1>1. n \in Nat \ {0} /\ s \in [1 .. n -> X] OBVIOUS
<1>2. t \in [1 .. n -> X] /\ t[n] = x /\ \A i \in 1 .. n - 1 : t[i] = s[i]
  <2>1. t = [s EXCEPT ![n] = x] OBVIOUS
  <2> HIDE DEF n, t
  <2> QED BY <1>1, <2>1
<1> HIDE DEF n, t
<1>3. t \in Seq(X) /\ Len(t) = n BY <1>1, <1>2, SeqOfFunction
<1> QED BY <1>2, <1>3 DEF n, t

\* _build_buckets puts the next chunk behind the others.
LEMMA PackedIs ==
  ASSUME NEW sh, NEW l, NEW bs \in Seq(BucketSet), \A k \in 1 .. Len(bs) : BucketOk(bs[k]), NEW c, c \in Refs, c.at = 0
  PROVE  WithOneMore(bs, Packed(sh, l, bs, c), c)
<1> DEFINE b == bs[Len(bs)]  d == WithChunkIn(b, c)  bt == [bs EXCEPT ![Len(bs)] = d]
           e == [numel |-> c.numel, refs |-> <<c>>]  bu == Append(bs, e)
           n == Len(bs)
<1>0. n \in Nat /\ (bs # << >> => n # 0) OBVIOUS
<1>1. CASE bs # << >> /\ sh[b.refs[1].p].device = sh[c.p].device /\ b.numel + c.numel <= l.bucket
  <2>1. Packed(sh, l, bs, c) = bt BY <1>1 DEF Packed, Last
  <2>2. n \in 1 .. n /\ BucketOk(b) BY <1>0, <1>1
  <2>3. /\ BucketOk(d) /\ Len(d.refs) = Len(b.refs) + 1 /\ Len(b.refs) \in Nat
        /\ \A j \in 1 .. Len(b.refs) : d.refs[j] = b.refs[j]
        /\ Same(d.refs[Len(b.refs) + 1], c)
    BY <2>2, BucketGrows
  <2>4. d \in BucketSet BY <2>3 DEF BucketOk
  <2>b. b = bs[n] OBVIOUS
  <2> HIDE DEF d, b
  <2>5. bt \in Seq(BucketSet) /\ Len(bt) = n /\ bt[n] = d /\ \A i \in 1 .. n - 1 : bt[i] = bs[i]
    BY <1>1, <2>4, LastReplaced
  <2> HIDE DEF bt, n
  <2>6. \A k \in 1 .. n : k = n \/ (k \in 1 .. n - 1 /\ bt[k] = bs[k]) BY <1>0, <2>5
  <2>7. \A k \in 1 .. n : BucketOk(bt[k]) BY <2>3, <2>5, <2>6 DEF n
  <2>8. \A k \in 1 .. n : /\ Len(bs[k].refs) <= Len(bt[k].refs)
                          /\ \A j \in 1 .. Len(bs[k].refs) : bt[k].refs[j] = bs[k].refs[j]
    <3> SUFFICES ASSUME NEW k \in 1 .. n PROVE /\ Len(bs[k].refs) <= Len(bt[k].refs)
                          /\ \A j \in 1 .. Len(bs[k].refs) : bt[k].refs[j] = bs[k].refs[j]
      OBVIOUS
    <3>1. CASE k = n BY <2>3, <2>5, <2>b, <3>1
    <3>2. CASE bt[k] = bs[k]
      <4>1. BucketOk(bs[k]) BY DEF n
      <4>2. Len(bs[k].refs) \in Nat
        <5>1. bs[k].refs \in Seq(Refs) BY <4>1 DEF BucketOk, BucketSet
        <5> HIDE DEF Refs
        <5> QED BY <5>1
      <4> QED BY <3>2, <4>2
    <3> QED BY <2>6, <3>1, <3>2
  <2>9. ASSUME NEW k \in 1 .. n, NEW j \in 1 .. Len(bt[k].refs)
        PROVE  \/ k = n /\ j = Len(bt[k].refs)
               \/ k \in 1 .. n /\ j \in 1 .. Len(bs[k].refs)
    <3>1. CASE k = n BY <2>3, <2>5, <2>b, <3>1
    <3>2. CASE bt[k] = bs[k] BY <3>2
    <3> QED BY <2>6, <3>1, <3>2
  <2>10. Same(bt[n].refs[Len(bt[n].refs)], c) BY <2>3, <2>5
  <2>11. bt # << >> /\ n <= n BY <1>0, <1>1, <2>5 DEF n
  <2>12. WithOneMore(bs, bt, c)
    <3>1. Len(bt) = n /\ Len(bs) = n BY <2>5 DEF n
    <3> QED BY <2>5, <2>7, <2>8, <2>9, <2>10, <2>11, <3>1 DEF WithOneMore
  <2> QED BY <2>1, <2>12
<1>2. CASE ~(bs # << >> /\ sh[b.refs[1].p].device = sh[c.p].device /\ b.numel + c.numel <= l.bucket)
  <2>1. Packed(sh, l, bs, c) = bu BY <1>2 DEF Packed, Last
  <2>2. BucketOk(e) BY BucketStarts
  <2>3. e \in BucketSet BY <2>2 DEF BucketOk
  <2>4. Len(e.refs) = 1 /\ e.refs[1] = c OBVIOUS
  <2> HIDE DEF e
  <2>5. bu \in Seq(BucketSet) /\ Len(bu) = n + 1 /\ bu[n + 1] = e /\ \A i \in 1 .. n : bu[i] = bs[i]
    <3> HIDE DEF BucketSet
    <3> QED BY <2>3
  <2> HIDE DEF bu, n
  <2>6. \A k \in 1 .. n + 1 : k = n + 1 \/ (k \in 1 .. n /\ bu[k] = bs[k]) BY <1>0, <2>5
  <2>7. \A k \in 1 .. n + 1 : BucketOk(bu[k]) BY <2>2, <2>5, <2>6 DEF n
  <2>8. \A k \in 1 .. n : /\ Len(bs[k].refs) <= Len(bu[k].refs)
                          /\ \A j \in 1 .. Len(bs[k].refs) : bu[k].refs[j] = bs[k].refs[j]
    <3> SUFFICES ASSUME NEW k \in 1 .. n PROVE Len(bs[k].refs) <= Len(bu[k].refs) BY <2>5
    <3>1. BucketOk(bs[k]) BY DEF n
    <3>2. bs[k].refs \in Seq(Refs) BY <3>1 DEF BucketOk, BucketSet
    <3>3. Len(bs[k].refs) \in Nat
      <4> HIDE DEF Refs
      <4> QED BY <3>2
    <3> QED BY <2>5, <3>3
  <2>9. ASSUME NEW k \in 1 .. n + 1, NEW j \in 1 .. Len(bu[k].refs)
        PROVE  \/ k = n + 1 /\ j = Len(bu[k].refs)
               \/ k \in 1 .. n /\ j \in 1 .. Len(bs[k].refs)
    <3>1. CASE k = n + 1
      <4>1. Len(bu[k].refs) = 1 BY <2>4, <2>5, <3>1
      <4> QED BY <3>1, <4>1
    <3>2. CASE k \in 1 .. n /\ bu[k] = bs[k] BY <3>2
    <3> QED BY <2>6, <3>1, <3>2
  <2>10. Same(bu[n + 1].refs[Len(bu[n + 1].refs)], c) BY <2>4, <2>5 DEF Same
  <2>11. bu # << >> /\ n <= n + 1 BY <1>0, <2>5
  <2>12. WithOneMore(bs, bu, c)
    <3>1. Len(bu) = n + 1 /\ Len(bs) = n BY <2>5 DEF n
    <3> QED BY <2>5, <2>7, <2>8, <2>9, <2>10, <2>11, <3>1 DEF WithOneMore
  <2> QED BY <2>1, <2>12
<1> QED BY <1>1, <1>2

\* So the chunks are laid in their order.
LEMMA LaidOneMore ==
  ASSUME NEW sh, NEW cs, NEW t, InOrderUpTo(sh, cs, t), NEW n \in Nat, n + 1 <= Len(cs),
         NEW bs, Laid(bs, cs, n), NEW bt, WithOneMore(bs, bt, cs[n + 1])
  PROVE  Laid(bt, cs, n + 1)
<1> DEFINE K == Len(bt)  J == Len(bt[K].refs)
<1>0. cs \in Seq(Refs) BY DEF InOrderUpTo
<1>1. n + 1 \in 1 .. Len(cs) /\ \A m \in 1 .. n : m \in 1 .. Len(cs) /\ m < n + 1 /\ m \in 1 .. n + 1
  <2>1. Len(cs) \in Nat
    <3> HIDE DEF Refs
    <3> QED BY <1>0
  <2> QED BY <2>1
<1>2. /\ bt \in Seq(BucketSet) /\ bt # << >> /\ \A k \in 1 .. Len(bt) : BucketOk(bt[k])
      /\ Len(bs) <= Len(bt)
      /\ \A k \in 1 .. Len(bs) : /\ Len(bs[k].refs) <= Len(bt[k].refs)
                                 /\ \A j \in 1 .. Len(bs[k].refs) : bt[k].refs[j] = bs[k].refs[j]
      /\ Same(bt[K].refs[J], cs[n + 1])
      /\ \A k \in 1 .. Len(bt) : \A j \in 1 .. Len(bt[k].refs) :
           \/ k = K /\ j = Len(bt[k].refs)
           \/ k \in 1 .. Len(bs) /\ j \in 1 .. Len(bs[k].refs)
  BY DEF WithOneMore
<1>3. /\ bs \in Seq(BucketSet)
      /\ \A k \in 1 .. Len(bs) : \A j \in 1 .. Len(bs[k].refs) : \E m \in 1 .. n : Same(bs[k].refs[j], cs[m])
      /\ \A m \in 1 .. n : \E k \in 1 .. Len(bs) : \E j \in 1 .. Len(bs[k].refs) : Same(bs[k].refs[j], cs[m])
      /\ \A k \in 1 .. Len(bs) : \A o \in 1 .. Len(bs) :
           \A j \in 1 .. Len(bs[k].refs) : \A i \in 1 .. Len(bs[o].refs) :
             k < o \/ (k = o /\ j < i) => Before(bs[k].refs[j], bs[o].refs[i])
  BY DEF Laid
<1>4. K \in Nat \ {0} /\ Len(bs) \in Nat
  <2> HIDE DEF BucketSet
  <2> QED BY <1>2, <1>3
<1>5. \A k \in 1 .. K : Len(bt[k].refs) \in Nat \ {0}
  <2> SUFFICES ASSUME NEW k \in 1 .. K PROVE Len(bt[k].refs) \in Nat \ {0} OBVIOUS
  <2>1. BucketOk(bt[k]) BY <1>2
  <2>2. bt[k].refs \in Seq(Refs) /\ bt[k].refs # << >> BY <2>1 DEF BucketOk, BucketSet
  <2> HIDE DEF Refs
  <2> QED BY <2>2
<1>6. \A k \in 1 .. Len(bs) : Len(bs[k].refs) \in Nat
  <2> SUFFICES ASSUME NEW k \in 1 .. Len(bs) PROVE Len(bs[k].refs) \in Nat OBVIOUS
  <2>1. bs[k] \in BucketSet BY <1>3
  <2>2. bs[k].refs \in Seq(Refs) BY <2>1 DEF BucketSet
  <2> HIDE DEF Refs
  <2> QED BY <2>2
<1>7. ASSUME NEW k \in 1 .. Len(bs), NEW j \in 1 .. Len(bs[k].refs)
      PROVE  k \in 1 .. K /\ j \in 1 .. Len(bt[k].refs) /\ bt[k].refs[j] = bs[k].refs[j]
  <2>1. k \in 1 .. K BY <1>2, <1>4
  <2>2. Len(bs[k].refs) \in Nat /\ Len(bt[k].refs) \in Nat /\ Len(bs[k].refs) <= Len(bt[k].refs) BY <1>2, <1>5, <1>6, <2>1
  <2> QED BY <1>2, <2>1, <2>2
<1>8. \A k \in 1 .. K : \A j \in 1 .. Len(bt[k].refs) : \E m \in 1 .. n + 1 : Same(bt[k].refs[j], cs[m])
  <2> SUFFICES ASSUME NEW k \in 1 .. K, NEW j \in 1 .. Len(bt[k].refs)
      PROVE \E m \in 1 .. n + 1 : Same(bt[k].refs[j], cs[m])
    OBVIOUS
  <2>1. CASE k = K /\ j = Len(bt[k].refs)
    <3>1. n + 1 \in 1 .. n + 1 OBVIOUS
    <3> QED BY <1>2, <2>1, <3>1
  <2>2. CASE k \in 1 .. Len(bs) /\ j \in 1 .. Len(bs[k].refs)
    <3>1. PICK m \in 1 .. n : Same(bs[k].refs[j], cs[m]) BY <1>3, <2>2
    <3> QED BY <1>1, <1>7, <2>2, <3>1
  <2> QED BY <1>2, <2>1, <2>2
<1>9. \A m \in 1 .. n + 1 : \E k \in 1 .. K : \E j \in 1 .. Len(bt[k].refs) : Same(bt[k].refs[j], cs[m])
  <2> SUFFICES ASSUME NEW m \in 1 .. n + 1
      PROVE \E k \in 1 .. K : \E j \in 1 .. Len(bt[k].refs) : Same(bt[k].refs[j], cs[m])
    OBVIOUS
  <2>1. CASE m = n + 1
    <3>1. K \in 1 .. K BY <1>4
    <3>2. J \in 1 .. J BY <1>5, <3>1
    <3> QED BY <1>2, <2>1, <3>1, <3>2
  <2>2. CASE m \in 1 .. n
    <3>1. PICK k \in 1 .. Len(bs) : \E j \in 1 .. Len(bs[k].refs) : Same(bs[k].refs[j], cs[m]) BY <1>3, <2>2
    <3>2. PICK j \in 1 .. Len(bs[k].refs) : Same(bs[k].refs[j], cs[m]) BY <3>1
    <3> QED BY <1>7, <3>2
  <2> QED BY <2>1, <2>2
<1>10. ASSUME NEW k \in 1 .. K, NEW o \in 1 .. K, NEW j \in 1 .. Len(bt[k].refs), NEW i \in 1 .. Len(bt[o].refs),
              k < o \/ (k = o /\ j < i)
       PROVE  Before(bt[k].refs[j], bt[o].refs[i])
  <2>1. ~(k = K /\ j = Len(bt[k].refs)) BY <1>4, <1>5, <1>10
  <2>2. k \in 1 .. Len(bs) /\ j \in 1 .. Len(bs[k].refs) BY <1>2, <2>1
  <2>3. bt[k].refs[j] = bs[k].refs[j] BY <1>7, <2>2
  <2>4. CASE o = K /\ i = Len(bt[o].refs)
    <3>1. PICK m \in 1 .. n : Same(bs[k].refs[j], cs[m]) BY <1>3, <2>2
    <3>2. m \in 1 .. Len(cs) /\ m < n + 1 /\ n + 1 \in 1 .. Len(cs) BY <1>1
    <3>3. Before(cs[m], cs[n + 1]) BY <3>2 DEF InOrderUpTo
    <3>4. Same(bt[o].refs[i], cs[n + 1]) BY <1>2, <2>4
    <3> QED BY <2>3, <3>1, <3>3, <3>4 DEF Before, Same
  <2>5. CASE o \in 1 .. Len(bs) /\ i \in 1 .. Len(bs[o].refs)
    <3>1. Before(bs[k].refs[j], bs[o].refs[i]) BY <1>3, <1>10, <2>2, <2>5
    <3>2. bt[o].refs[i] = bs[o].refs[i] BY <1>7, <2>5
    <3> QED BY <2>3, <3>1, <3>2
  <2> QED BY <1>2, <2>4, <2>5
<1> QED BY <1>2, <1>8, <1>9, <1>10 DEF Laid

-----------------------------------------------------------------------------
(* The recursive functions                                                 *)

\* One chunk on one rank, by either optimizer.
StepOne(l, b, r, st, x, g) ==
  IF l.kind = "8bit" THEN StepRef8bit(l, b, r, st, x, g) ELSE StepRef(l, b, r, st, x, g)
\* A step of one of the four recursions over chunks and buckets, of what is in c.
Onwards(what, c, x, i) ==
  CASE what = "pack" -> Packed(c.sh, c.l, x, c.cs[i])
    [] what = "refs" -> StepOne(c.l, c.b, c.r, x, c.refs[i], c.grads[c.refs[i].p][1])
    [] what = "pass" -> StepBucket(c.sh, c.l, x, i)
    [] OTHER -> CopyMasterToModel(c.l, Buckets(c.sh, c.l)[i], x, i)
Going(f, what, c, first, n) == f = [i \in 0 .. n |-> IF i = 0 THEN first ELSE Onwards(what, c, f[i - 1], i)]

\* There is such a function.
LEMMA GoingExists ==
  ASSUME NEW what, NEW c, NEW first, NEW m \in Nat
  PROVE  \E f : Going(f, what, c, first, m)
<1> DEFINE T == {n \in Nat : \E f : Going(f, what, c, first, n)}
<1>1. 0 \in T
  <2> DEFINE g == [i \in 0 .. 0 |-> first]
  <2>1. g = [i \in 0 .. 0 |-> IF i = 0 THEN first ELSE Onwards(what, c, g[i - 1], i)]
    <3>1. \A i \in 0 .. 0 : i = 0 OBVIOUS
    <3> QED BY <3>1
  <2> HIDE DEF g
  <2>2. Going(g, what, c, first, 0) BY <2>1 DEF Going
  <2> QED BY <2>2
<1>2. ASSUME NEW n \in Nat, n \in T PROVE n + 1 \in T
  <2>1. PICK f : Going(f, what, c, first, n) BY <1>2
  <2> DEFINE last == Onwards(what, c, f[n], n + 1)
             g == [i \in 0 .. n + 1 |-> IF i = n + 1 THEN last ELSE f[i]]
  <2>2. \A i \in 0 .. n : f[i] = IF i = 0 THEN first ELSE Onwards(what, c, f[i - 1], i) BY <2>1 DEF Going
  <2> HIDE DEF last
  <2>3. \A i \in 0 .. n : g[i] = f[i] OBVIOUS
  <2>4. g[n + 1] = last OBVIOUS
  <2>5. g = [i \in 0 .. n + 1 |-> g[i]] OBVIOUS
  <2> HIDE DEF g
  <2>6. ASSUME NEW i \in 0 .. n + 1 PROVE g[i] = IF i = 0 THEN first ELSE Onwards(what, c, g[i - 1], i)
    <3>1. CASE i = 0
      <4>1. i \in 0 .. n BY <3>1
      <4> QED BY <2>2, <2>3, <3>1, <4>1, Zenon
    <3>2. CASE i \in 1 .. n
      <4>1. i \in 0 .. n /\ i - 1 \in 0 .. n /\ i # 0 BY <3>2
      <4>2. g[i] = f[i] /\ g[i - 1] = f[i - 1] BY <2>3, <4>1
      <4> QED BY <2>2, <4>1, <4>2, Zenon
    <3>3. CASE i = n + 1
      <4>1. i - 1 = n /\ i # 0 /\ n \in 0 .. n BY <3>3
      <4>2. g[i - 1] = f[n] BY <2>3, <4>1
      <4>3. g[i] = Onwards(what, c, g[i - 1], i) BY <2>4, <3>3, <4>2, Zenon DEF last
      <4> QED BY <4>1, <4>3, Zenon
    <3>4. i = 0 \/ i \in 1 .. n \/ i = n + 1 OBVIOUS
    <3> QED BY <3>1, <3>2, <3>3, <3>4
  <2>7. g = [i \in 0 .. n + 1 |-> IF i = 0 THEN first ELSE Onwards(what, c, g[i - 1], i)] BY <2>5, <2>6, Zenon
  <2>8. Going(g, what, c, first, n + 1) BY <2>7, Zenon DEF Going
  <2> QED BY <2>8
<1> HIDE DEF T
<1>3. T = Nat
  <2>1. \A n \in Nat : n \in T => n + 1 \in T BY <1>2
  <2> QED BY <1>1, <2>1, NatSetInduction DEF T
<1> QED BY <1>3 DEF T

\* The buckets are packed one chunk at a time.
LEMMA BucketsStep ==
  ASSUME NEW sh, NEW l, NEW n \in Nat, n = Len(AllChunks(sh, l))
  PROVE  \E f : /\ f[0] = << >> /\ Buckets(sh, l) = f[n]
                /\ \A i \in 1 .. n : f[i] = Packed(sh, l, f[i - 1], AllChunks(sh, l)[i])
<1> DEFINE cs == AllChunks(sh, l)  c == [sh |-> sh, l |-> l, cs |-> cs]
           P(f) == f = [i \in 0 .. n |-> IF i = 0 THEN << >> ELSE Packed(sh, l, f[i - 1], cs[i])]
           k == CHOOSE f : P(f)
<1>1. PICK f : Going(f, "pack", c, << >>, n) BY GoingExists
<1> HIDE DEF cs
<1>2. P(f)
  <2>1. \A x, i : Onwards("pack", c, x, i) = Packed(sh, l, x, cs[i])
    <3>1. c.sh = sh /\ c.l = l /\ c.cs = cs OBVIOUS
    <3> HIDE DEF c
    <3> QED BY <3>1 DEF Onwards
  <2> HIDE DEF c
  <2>2. f = [i \in 0 .. n |-> IF i = 0 THEN << >> ELSE Onwards("pack", c, f[i - 1], i)] BY <1>1 DEF Going
  <2> QED BY <2>1, <2>2, Zenon
<1>3. P(k) BY <1>2
<1>4. Buckets(sh, l) = k[n] BY DEF Buckets, cs
<1> HIDE DEF k
<1>5. k[0] = << >> /\ \A i \in 1 .. n : k[i] = Packed(sh, l, k[i - 1], cs[i])
  <2>1. \A i \in 0 .. n : k[i] = IF i = 0 THEN << >> ELSE Packed(sh, l, k[i - 1], cs[i]) BY <1>3
  <2>2. 0 \in 0 .. n /\ \A i \in 1 .. n : i \in 0 .. n /\ i # 0 OBVIOUS
  <2> QED BY <2>1, <2>2, Zenon
<1> QED BY <1>4, <1>5 DEF cs

\* The buckets are stepped one at a time.
LEMMA SteppedStep ==
  ASSUME NEW sh, NEW l, NEW state, NEW grads, NEW n \in Nat, n = Len(Buckets(sh, l))
  PROVE  \E f : /\ f[0] = [state |-> state, grads |-> grads] /\ Stepped(sh, l, state, grads) = f[n].state
                /\ \A i \in 1 .. n : f[i] = StepBucket(sh, l, f[i - 1], i)
<1> DEFINE c == [sh |-> sh, l |-> l]  first == [state |-> state, grads |-> grads]
           P(f) == f = [i \in 0 .. n |-> IF i = 0 THEN first ELSE StepBucket(sh, l, f[i - 1], i)]
           k == CHOOSE f : P(f)
<1>1. PICK f : Going(f, "pass", c, first, n) BY GoingExists
<1>2. P(f)
  <2>1. \A x, i : Onwards("pass", c, x, i) = StepBucket(sh, l, x, i)
    <3>1. c.sh = sh /\ c.l = l OBVIOUS
    <3> HIDE DEF c
    <3> QED BY <3>1 DEF Onwards
  <2> HIDE DEF c, first
  <2>2. f = [i \in 0 .. n |-> IF i = 0 THEN first ELSE Onwards("pass", c, f[i - 1], i)] BY <1>1 DEF Going
  <2> QED BY <2>1, <2>2, Zenon
<1>3. P(k) BY <1>2
<1>4. Stepped(sh, l, state, grads) = k[n].state BY DEF Stepped
<1> HIDE DEF k, first
<1>5. k[0] = first /\ \A i \in 1 .. n : k[i] = StepBucket(sh, l, k[i - 1], i)
  <2>1. \A i \in 0 .. n : k[i] = IF i = 0 THEN first ELSE StepBucket(sh, l, k[i - 1], i) BY <1>3
  <2>2. 0 \in 0 .. n /\ \A i \in 1 .. n : i \in 0 .. n /\ i # 0 OBVIOUS
  <2> QED BY <2>1, <2>2, Zenon
<1> QED BY <1>4, <1>5 DEF first

\* The masters are copied one bucket at a time.
LEMMA CopiedStep ==
  ASSUME NEW sh, NEW l, NEW state, NEW n \in Nat, n = Len(Buckets(sh, l))
  PROVE  \E f : /\ f[0] = state /\ AllCopied(sh, l, state) = f[n]
                /\ \A i \in 1 .. n : f[i] = CopyMasterToModel(l, Buckets(sh, l)[i], f[i - 1], i)
<1> DEFINE c == [sh |-> sh, l |-> l]
           P(f) == f = [i \in 0 .. n |-> IF i = 0 THEN state ELSE CopyMasterToModel(l, Buckets(sh, l)[i], f[i - 1], i)]
           k == CHOOSE f : P(f)
<1>1. PICK f : Going(f, "copy", c, state, n) BY GoingExists
<1>2. P(f)
  <2>1. \A x, i : Onwards("copy", c, x, i) = CopyMasterToModel(l, Buckets(sh, l)[i], x, i)
    <3>1. c.sh = sh /\ c.l = l OBVIOUS
    <3> HIDE DEF c
    <3> QED BY <3>1 DEF Onwards
  <2> HIDE DEF c
  <2>2. f = [i \in 0 .. n |-> IF i = 0 THEN state ELSE Onwards("copy", c, f[i - 1], i)] BY <1>1 DEF Going
  <2> QED BY <2>1, <2>2, Zenon
<1>3. P(k) BY <1>2
<1>4. AllCopied(sh, l, state) = k[n] BY DEF AllCopied
<1> HIDE DEF k
<1>5. k[0] = state /\ \A i \in 1 .. n : k[i] = CopyMasterToModel(l, Buckets(sh, l)[i], k[i - 1], i)
  <2>1. \A i \in 0 .. n : k[i] = IF i = 0 THEN state ELSE CopyMasterToModel(l, Buckets(sh, l)[i], k[i - 1], i) BY <1>3
  <2>2. 0 \in 0 .. n /\ \A i \in 1 .. n : i \in 0 .. n /\ i # 0 OBVIOUS
  <2> QED BY <2>1, <2>2, Zenon
<1> QED BY <1>4, <1>5

\* The chunks of a bucket are stepped one at a time.
RefByRef(f, l, b, r, refs, grads, n) ==
  \A i \in 1 .. n : f[i] = StepOne(l, b, r, f[i - 1], refs[i], grads[refs[i].p][1])

\* StepRefs ends where the last chunk of the bucket leaves it.
LEMMA RefsStep ==
  ASSUME NEW l, NEW b, NEW r, NEW st0, NEW refs, NEW grads, NEW n \in Nat, n = Len(refs)
  PROVE  \E f : f[0] = st0 /\ StepRefs(l, b, r, st0, refs, grads) = f[n] /\ RefByRef(f, l, b, r, refs, grads, n)
<1> DEFINE c == [l |-> l, b |-> b, r |-> r, refs |-> refs, grads |-> grads]
           step(st, x) == IF l.kind = "8bit" THEN StepRef8bit(l, b, r, st, x, grads[x.p][1])
                                             ELSE StepRef(l, b, r, st, x, grads[x.p][1])
           P(f) == f = [i \in 0 .. n |-> IF i = 0 THEN st0 ELSE step(f[i - 1], refs[i])]
           k == CHOOSE f : P(f)
<1>0. \A st, x : step(st, x) = StepOne(l, b, r, st, x, grads[x.p][1]) BY DEF StepOne
<1>1. PICK f : Going(f, "refs", c, st0, n) BY GoingExists
<1>2. P(f)
  <2>1. \A x, i : Onwards("refs", c, x, i) = step(x, refs[i])
    <3>1. c.l = l /\ c.b = b /\ c.r = r /\ c.refs = refs /\ c.grads = grads OBVIOUS
    <3> HIDE DEF c
    <3>2. \A x, i : Onwards("refs", c, x, i) = StepOne(l, b, r, x, refs[i], grads[refs[i].p][1])
      BY <3>1 DEF Onwards
    <3> HIDE DEF step
    <3> QED BY <1>0, <3>2
  <2> HIDE DEF c, step
  <2>2. f = [i \in 0 .. n |-> IF i = 0 THEN st0 ELSE Onwards("refs", c, f[i - 1], i)] BY <1>1 DEF Going
  <2> QED BY <2>1, <2>2, Zenon
<1>3. P(k) BY <1>2
<1>4. StepRefs(l, b, r, st0, refs, grads) = k[n] BY DEF StepRefs
<1> HIDE DEF k, step
<1>5. k[0] = st0 /\ \A i \in 1 .. n : k[i] = step(k[i - 1], refs[i])
  <2>1. \A i \in 0 .. n : k[i] = IF i = 0 THEN st0 ELSE step(k[i - 1], refs[i]) BY <1>3
  <2>2. 0 \in 0 .. n /\ \A i \in 1 .. n : i \in 0 .. n /\ i # 0 OBVIOUS
  <2> QED BY <2>1, <2>2, Zenon
<1>6. RefByRef(k, l, b, r, refs, grads, n) BY <1>0, <1>5 DEF RefByRef
<1> QED BY <1>4, <1>5, <1>6
-----------------------------------------------------------------------------
(* The layout                                                              *)

\* The chunks of a bucket lie in their parameters, and fill it side by side.
BucketIs(sh, b) ==
  /\ b.numel \in Nat \ {0} /\ b.refs \in Seq(Refs)
  /\ \A i, j \in 1 .. Len(b.refs) : b.refs[i] = b.refs[j] => i = j
  /\ \A x \in Range(b.refs) : /\ IsRef(x) /\ x.p \in DOMAIN sh /\ x.start + x.numel <= sh[x.p].numel
                              /\ x.at + x.numel <= b.numel
  /\ \A x, y \in Range(b.refs) : \A a \in Int :
       a - x.at \in 0 .. x.numel - 1 /\ a - y.at \in 0 .. y.numel - 1 => x = y
  /\ \A a \in 0 .. b.numel - 1 : \E x \in Range(b.refs) : a - x.at \in 0 .. x.numel - 1
  /\ \A x, y \in Range(b.refs) : \A p, i \in Int : InRef(x, p, i) /\ InRef(y, p, i) => x = y
\* Every element of the model is in one chunk of one bucket, and no parameter ends before its last chunk.
LayoutOk(sh, bs) ==
  /\ Len(bs) \in Nat /\ DOMAIN bs = 1 .. Len(bs)
  /\ \A k \in DOMAIN bs : BucketIs(sh, bs[k])
  /\ \A p \in DOMAIN sh : \A i \in 0 .. sh[p].numel - 1 : \E k \in DOMAIN bs : \E x \in Range(bs[k].refs) : InRef(x, p, i)
  /\ \A k, o \in DOMAIN bs : \A x \in Range(bs[k].refs) : \A y \in Range(bs[o].refs) : \A p, i \in Int :
       InRef(x, p, i) /\ InRef(y, p, i) => k = o /\ x = y
  /\ \A k, o \in DOMAIN bs : \A x \in Range(bs[k].refs) : \A y \in Range(bs[o].refs) :
       k < o /\ x.p = y.p => x.start + x.numel # sh[x.p].numel

\* _build_buckets lays all chunks out so.
LEMMA BucketsAreLaid ==
  ASSUME NEW sh, IsShape(sh), NEW l, IsLayout(l)
  PROVE  Laid(Buckets(sh, l), AllChunks(sh, l), Len(AllChunks(sh, l)))
<1> DEFINE cs == AllChunks(sh, l)  n == Len(cs)
<1>1. InOrderUpTo(sh, cs, Len(sh)) BY AllChunksAre
<1>2. n \in Nat /\ \A m \in 1 .. n : OfShape(sh, cs[m])
  <2>1. cs \in Seq(Refs) /\ \A m \in 1 .. n : OfShape(sh, cs[m]) BY <1>1 DEF InOrderUpTo
  <2> HIDE DEF Refs, cs
  <2> QED BY <2>1
<1>3. PICK f : /\ f[0] = << >> /\ Buckets(sh, l) = f[n]
               /\ \A i \in 1 .. n : f[i] = Packed(sh, l, f[i - 1], cs[i])
  BY <1>2, BucketsStep
<1> HIDE DEF cs, n
<1> DEFINE T == {i \in 0 .. n : Laid(f[i], cs, i)}
<1>4. 0 \in T
  <2> DEFINE e == << >>
  <2>1. e \in Seq(BucketSet) /\ Len(e) = 0 OBVIOUS
  <2> HIDE DEF e
  <2>2. Laid(e, cs, 0) BY <2>1 DEF Laid
  <2> QED BY <1>2, <1>3, <2>2 DEF e
<1>5. ASSUME NEW i \in 0 .. n - 1, i \in T PROVE i + 1 \in T
  <2>1. i \in Nat /\ i + 1 \in 1 .. n /\ i + 1 \in 0 .. n /\ (i + 1) - 1 = i /\ i + 1 <= Len(cs) BY <1>2 DEF n
  <2>2. Laid(f[i], cs, i) BY <1>5
  <2>3. f[i + 1] = Packed(sh, l, f[i], cs[i + 1]) BY <1>3, <2>1
  <2>4. cs[i + 1] \in Refs /\ cs[i + 1].at = 0 BY <1>2, <2>1 DEF OfShape
  <2>5. WithOneMore(f[i], f[i + 1], cs[i + 1])
    <3>1. f[i] \in Seq(BucketSet) /\ \A k \in 1 .. Len(f[i]) : BucketOk(f[i][k]) BY <2>2 DEF Laid
    <3>2. WithOneMore(f[i], Packed(sh, l, f[i], cs[i + 1]), cs[i + 1]) BY <2>4, <3>1, PackedIs
    <3> QED BY <2>3, <3>2
  <2>6. Laid(f[i + 1], cs, i + 1) BY <1>1, <2>1, <2>2, <2>5, LaidOneMore
  <2> QED BY <2>1, <2>6
<1> HIDE DEF T
<1>6. 0 .. n \subseteq T BY <1>2, <1>4, <1>5, IntervalInduction
<1>7. Laid(f[n], cs, n) BY <1>2, <1>6 DEF T
<1> QED BY <1>3, <1>7 DEF cs, n

\* An element of Refs.
LEMMA RefIs == ASSUME NEW x \in Refs PROVE IsRef(x) /\ x.p \in Nat
BY DEF Refs, IsRef

\* So the layout is right.
LEMMA LayoutIsOk ==
  ASSUME NEW sh, IsShape(sh), NEW l, IsLayout(l)
  PROVE  LayoutOk(sh, Buckets(sh, l))
<1> DEFINE cs == AllChunks(sh, l)  n == Len(cs)  bs == Buckets(sh, l)
<1>1. InOrderUpTo(sh, cs, Len(sh)) /\ Laid(bs, cs, n) BY AllChunksAre, BucketsAreLaid
<1> HIDE DEF cs, n, bs
<1>2. Len(bs) \in Nat /\ DOMAIN bs = 1 .. Len(bs)
  <2>1. bs \in Seq(BucketSet) BY <1>1 DEF Laid
  <2> HIDE DEF BucketSet
  <2> QED BY <2>1
<1>3. \A k \in 1 .. Len(bs) : BucketOk(bs[k]) BY <1>1 DEF Laid
<1>4. \A k \in 1 .. Len(bs) : /\ bs[k].refs \in Seq(Refs) /\ Len(bs[k].refs) \in Nat \ {0}
                              /\ DOMAIN bs[k].refs = 1 .. Len(bs[k].refs) /\ bs[k].numel \in Nat
  <2> SUFFICES ASSUME NEW k \in 1 .. Len(bs)
      PROVE  /\ bs[k].refs \in Seq(Refs) /\ Len(bs[k].refs) \in Nat \ {0}
             /\ DOMAIN bs[k].refs = 1 .. Len(bs[k].refs) /\ bs[k].numel \in Nat
    OBVIOUS
  <2>1. BucketOk(bs[k]) BY <1>3
  <2>2. bs[k].refs \in Seq(Refs) /\ bs[k].refs # << >> /\ bs[k].numel \in Nat BY <2>1 DEF BucketOk, BucketSet
  <2> HIDE DEF Refs
  <2> QED BY <2>2
<1>5. \A k \in 1 .. Len(bs) : \A x \in Range(bs[k].refs) : \E j \in 1 .. Len(bs[k].refs) : x = bs[k].refs[j]
  BY <1>4 DEF Range
<1>6. \A k \in 1 .. Len(bs) : \A j \in 1 .. Len(bs[k].refs) :
        LET x == bs[k].refs[j]
        IN /\ x \in Range(bs[k].refs) /\ IsRef(x) /\ x.p \in DOMAIN sh /\ x.start + x.numel <= sh[x.p].numel
           /\ x.at + x.numel <= bs[k].numel
  <2> SUFFICES ASSUME NEW k \in 1 .. Len(bs), NEW j \in 1 .. Len(bs[k].refs)
      PROVE  LET x == bs[k].refs[j]
             IN /\ x \in Range(bs[k].refs) /\ IsRef(x) /\ x.p \in DOMAIN sh /\ x.start + x.numel <= sh[x.p].numel
                /\ x.at + x.numel <= bs[k].numel
    OBVIOUS
  <2> DEFINE x == bs[k].refs[j]
  <2>1. x \in Range(bs[k].refs) BY <1>4 DEF Range
  <2>2. IsRef(x)
    <3>1. x \in Refs BY <1>4
    <3> QED BY <3>1, RefIs
  <2>3. PICK m \in 1 .. n : Same(x, cs[m]) BY <1>1 DEF Laid
  <2>4. OfShape(sh, cs[m]) BY <1>1 DEF InOrderUpTo, n
  <2>5. x.at + x.numel <= bs[k].numel BY <1>3 DEF BucketOk
  <2> QED BY <2>1, <2>2, <2>3, <2>4, <2>5 DEF Same, OfShape
<1>7. \A k \in 1 .. Len(bs) : \A j \in 1 .. Len(bs[k].refs) : \A o \in 1 .. Len(bs) : \A i \in 1 .. Len(bs[o].refs) :
        k < o \/ (k = o /\ j < i) => Before(bs[k].refs[j], bs[o].refs[i])
  BY <1>1 DEF Laid
<1>8. ASSUME NEW k \in 1 .. Len(bs)
      PROVE  /\ bs[k].numel \in Nat \ {0} /\ bs[k].refs \in Seq(Refs)
             /\ \A i, j \in 1 .. Len(bs[k].refs) : bs[k].refs[i] = bs[k].refs[j] => i = j
             /\ \A x \in Range(bs[k].refs) : /\ IsRef(x) /\ x.p \in DOMAIN sh /\ x.start + x.numel <= sh[x.p].numel
                                             /\ x.at + x.numel <= bs[k].numel
             /\ \A x, y \in Range(bs[k].refs) : \A a \in Int :
                  a - x.at \in 0 .. x.numel - 1 /\ a - y.at \in 0 .. y.numel - 1 => x = y
             /\ \A a \in 0 .. bs[k].numel - 1 : \E x \in Range(bs[k].refs) : a - x.at \in 0 .. x.numel - 1
  <2>1. \A x \in Range(bs[k].refs) : /\ IsRef(x) /\ x.p \in DOMAIN sh /\ x.start + x.numel <= sh[x.p].numel
                                     /\ x.at + x.numel <= bs[k].numel
    BY <1>5, <1>6
  <2>2. bs[k].numel # 0
    <3>1. 1 \in 1 .. Len(bs[k].refs) BY <1>4
    <3> DEFINE x == bs[k].refs[1]
    <3>2. IsRef(x) /\ x.at + x.numel <= bs[k].numel BY <1>6, <3>1
    <3> HIDE DEF x
    <3> QED BY <1>4, <3>2 DEF IsRef
  <2>3. ASSUME NEW x \in Range(bs[k].refs), NEW y \in Range(bs[k].refs), NEW a \in Int,
               a - x.at \in 0 .. x.numel - 1, a - y.at \in 0 .. y.numel - 1
        PROVE  x = y
    <3>1. PICK j \in 1 .. Len(bs[k].refs) : x = bs[k].refs[j] BY <1>5
    <3>2. PICK i \in 1 .. Len(bs[k].refs) : y = bs[k].refs[i] BY <1>5
    <3>3. IsRef(x) /\ IsRef(y) BY <2>1
    <3>4. ~(j < i)
      <4>1. j < i => x.at + x.numel <= y.at BY <1>3, <3>1, <3>2 DEF BucketOk
      <4> QED BY <2>3, <3>3, <4>1 DEF IsRef
    <3>5. ~(i < j)
      <4>1. i < j => y.at + y.numel <= x.at BY <1>3, <3>1, <3>2 DEF BucketOk
      <4> QED BY <2>3, <3>3, <4>1 DEF IsRef
    <3>6. i = j BY <3>4, <3>5
    <3> QED BY <3>1, <3>2, <3>6
  <2>4. ASSUME NEW a \in 0 .. bs[k].numel - 1
        PROVE  \E x \in Range(bs[k].refs) : a - x.at \in 0 .. x.numel - 1
    <3>1. PICK j \in 1 .. Len(bs[k].refs) : a - bs[k].refs[j].at \in 0 .. bs[k].refs[j].numel - 1 BY <1>3 DEF BucketOk
    <3> QED BY <1>6, <3>1
  <2>5. ASSUME NEW i \in 1 .. Len(bs[k].refs), NEW j \in 1 .. Len(bs[k].refs), bs[k].refs[i] = bs[k].refs[j], i < j
        PROVE  FALSE
    <3> DEFINE x == bs[k].refs[i]  y == bs[k].refs[j]
    <3>1. x.at + x.numel <= y.at BY <1>3, <2>5 DEF BucketOk
    <3>2. IsRef(x) BY <1>6
    <3>3. x = y BY <2>5
    <3> HIDE DEF x, y
    <3> QED BY <3>1, <3>2, <3>3 DEF IsRef
  <2>6. \A i, j \in 1 .. Len(bs[k].refs) : bs[k].refs[i] = bs[k].refs[j] => i = j
    <3>1. \A i, j \in 1 .. Len(bs[k].refs) : bs[k].refs[i] = bs[k].refs[j] => ~(i < j) /\ ~(j < i) BY <2>5
    <3>2. \A i, j \in 1 .. Len(bs[k].refs) : i \in Nat /\ j \in Nat OBVIOUS
    <3> QED BY <3>1, <3>2
  <2> QED BY <1>4, <2>1, <2>2, <2>3, <2>4, <2>6
<1>9. ASSUME NEW p \in DOMAIN sh, NEW i \in 0 .. sh[p].numel - 1
      PROVE  \E k \in DOMAIN bs : \E x \in Range(bs[k].refs) : InRef(x, p, i)
  <2>1. p \in 1 .. Len(sh) BY DEF IsShape
  <2>2. PICK m \in 1 .. n : InRef(cs[m], p, i) BY <1>1, <2>1 DEF InOrderUpTo, n
  <2>3. PICK k \in 1 .. Len(bs) : \E j \in 1 .. Len(bs[k].refs) : Same(bs[k].refs[j], cs[m]) BY <1>1 DEF Laid
  <2>4. PICK j \in 1 .. Len(bs[k].refs) : Same(bs[k].refs[j], cs[m]) BY <2>3
  <2>5. InRef(bs[k].refs[j], p, i) BY <2>2, <2>4 DEF InRef, Same
  <2> QED BY <1>2, <1>6, <2>5
<1>10. ASSUME NEW k \in 1 .. Len(bs), NEW o \in 1 .. Len(bs), NEW x \in Range(bs[k].refs), NEW y \in Range(bs[o].refs),
              NEW p \in Int, NEW i \in Int, InRef(x, p, i), InRef(y, p, i)
       PROVE  k = o /\ x = y
  <2>1. PICK j \in 1 .. Len(bs[k].refs) : x = bs[k].refs[j] BY <1>5
  <2>2. PICK t \in 1 .. Len(bs[o].refs) : y = bs[o].refs[t] BY <1>5
  <2>3. IsRef(x) /\ IsRef(y) BY <1>8
  <2>4. x.p = p /\ y.p = p /\ i - x.start \in 0 .. x.numel - 1 /\ i - y.start \in 0 .. y.numel - 1 BY <1>10 DEF InRef
  <2>a. x.start \in Nat /\ y.start \in Nat /\ x.numel \in Nat /\ y.numel \in Nat BY <2>3 DEF IsRef
  <2>5. ~Before(x, y) /\ ~Before(y, x)
    <3>1. ~(x.p < y.p) /\ ~(y.p < x.p) BY <2>4
    <3>2. ~(x.start + x.numel <= y.start) /\ ~(y.start + y.numel <= x.start)
      <4> DEFINE a == x.start  b == y.start  c == x.numel  d == y.numel
      <4>1. a \in Nat /\ b \in Nat /\ c \in Nat /\ d \in Nat /\ i - a \in 0 .. c - 1 /\ i - b \in 0 .. d - 1
        BY <2>4, <2>a
      <4> HIDE DEF a, b, c, d
      <4>2. a <= i /\ i < a + c /\ b <= i /\ i < b + d BY <4>1
      <4>3. ~(a + c <= b) /\ ~(b + d <= a) BY <4>1, <4>2
      <4> QED BY <4>3 DEF a, b, c, d
    <3> QED BY <3>1, <3>2 DEF Before
  <2>6. ~(k < o) /\ ~(o < k) BY <1>7, <2>1, <2>2, <2>5
  <2>7. k = o BY <1>2, <2>6
  <2>8. ~(j < t) /\ ~(t < j) BY <1>7, <2>1, <2>2, <2>5, <2>7
  <2>9. j = t BY <2>8
  <2> QED BY <2>1, <2>2, <2>7, <2>9
<1>11. ASSUME NEW k \in 1 .. Len(bs), NEW o \in 1 .. Len(bs), NEW x \in Range(bs[k].refs), NEW y \in Range(bs[o].refs),
              k < o, x.p = y.p
       PROVE  x.start + x.numel # sh[x.p].numel
  <2>1. PICK j \in 1 .. Len(bs[k].refs) : x = bs[k].refs[j] BY <1>5
  <2>2. PICK t \in 1 .. Len(bs[o].refs) : y = bs[o].refs[t] BY <1>5
  <2>3. Before(x, y) BY <1>7, <1>11, <2>1, <2>2
  <2>4. IsRef(x) /\ IsRef(y) /\ x.p \in DOMAIN sh /\ y.start + y.numel <= sh[y.p].numel BY <1>8
  <2>5. x.p \in Nat BY <2>4 DEF IsShape
  <2>6. x.start + x.numel <= y.start BY <1>11, <2>3, <2>5 DEF Before
  <2>7. sh[x.p].numel \in Nat BY <2>4 DEF IsShape
  <2>8. x.start \in Nat /\ y.start \in Nat /\ x.numel \in Nat /\ y.numel \in Nat /\ y.numel # 0 BY <2>4 DEF IsRef
  <2>9. y.start + y.numel <= sh[x.p].numel BY <1>11, <2>4
  <2> QED BY <2>6, <2>7, <2>8, <2>9
<1>12. /\ \A k, o \in DOMAIN bs : \A x \in Range(bs[k].refs) : \A y \in Range(bs[o].refs) : \A p, i \in Int :
            InRef(x, p, i) /\ InRef(y, p, i) => k = o /\ x = y
       /\ \A k, o \in DOMAIN bs : \A x \in Range(bs[k].refs) : \A y \in Range(bs[o].refs) :
            k < o /\ x.p = y.p => x.start + x.numel # sh[x.p].numel
  BY <1>2, <1>10, <1>11
<1>13. \A k \in DOMAIN bs : BucketIs(sh, bs[k])
  <2> SUFFICES ASSUME NEW k \in 1 .. Len(bs) PROVE BucketIs(sh, bs[k]) BY <1>2
  <2>1. \A x, y \in Range(bs[k].refs) : \A p, i \in Int : InRef(x, p, i) /\ InRef(y, p, i) => x = y BY <1>10
  <2> HIDE DEF Refs, IsRef, InRef
  <2> QED BY <1>8, <2>1 DEF BucketIs
<1> QED BY <1>2, <1>9, <1>12, <1>13 DEF LayoutOk, bs

-----------------------------------------------------------------------------
(* A chunk and a rank                                                      *)

\* The place in rank r's buffer of the element i of chunk x.
PlaceIn(l, b, r, x, i) == Offset(x, i) - ShardRangeOf(l, b.numel, r).start
\* Rank r keeps the element i of chunk x.
Has(l, b, r, x, i) == i - x.start \in 0 .. x.numel - 1 /\ Keeps(l, b.numel, r, Offset(x, i))
InSlice(l, b, r, y, o) == o - SliceOf(l, b, y, r).inShard \in 0 .. SliceOf(l, b, y, r).numel - 1
BufferOf(l, b, r) == 0 .. ShardRangeOf(l, b.numel, r).numel - 1

\* Of the places of a rank's buffer, those of a chunk are in that chunk's slice only.
LEMMA SliceHits ==
  ASSUME NEW sh, NEW l, IsLayout(l), NEW b, BucketIs(sh, b), NEW r \in RanksOf(l),
         NEW x \in Range(b.refs), NEW i \in Int, Has(l, b, r, x, i)
  PROVE  /\ \A y \in Range(b.refs) : InSlice(l, b, r, y, PlaceIn(l, b, r, x, i)) <=> x = y
         /\ PlaceIn(l, b, r, x, i) \in BufferOf(l, b, r)
<1> DEFINE at == ShardRangeOf(l, b.numel, r).start  o == PlaceIn(l, b, r, x, i)
<1>1. b.numel \in Nat /\ \A y \in Range(b.refs) : IsRef(y) BY DEF BucketIs
<1>2. at \in Int BY <1>1, ShardWithin
<1>3. Offset(x, i) \in Int /\ Offset(x, i) - x.at \in 0 .. x.numel - 1
  <2>1. x.start \in Nat /\ x.at \in Nat /\ x.numel \in Nat BY <1>1 DEF IsRef
  <2> QED BY <2>1 DEF Has, Offset
<1>4. o \in Int /\ o = Offset(x, i) - at BY <1>2, <1>3 DEF PlaceIn
<1>5. o \in BufferOf(l, b, r) BY <1>4 DEF Has, Keeps, BufferOf
<1>6. InSlice(l, b, r, x, o)
  <2> DEFINE s == SliceOf(l, b, x, r)
  <2>1. /\ {s.inRef, s.numel, s.inShard} \subseteq Nat
        /\ i - x.start - s.inRef \in 0 .. s.numel - 1
        /\ s.inShard + (i - x.start - s.inRef) = Offset(x, i) - at
    BY <1>1, SliceFacts DEF Has
  <2>2. x.start \in Nat BY <1>1 DEF IsRef
  <2> HIDE DEF s
  <2>3. o - s.inShard = i - x.start - s.inRef BY <1>4, <2>1, <2>2
  <2> QED BY <2>1, <2>3 DEF InSlice, s
<1>7. ASSUME NEW y \in Range(b.refs), InSlice(l, b, r, y, o) PROVE x = y
  <2> DEFINE s == SliceOf(l, b, y, r)  j == y.start + s.inRef + o - s.inShard
  <2>1. j \in Int /\ j - y.start \in 0 .. y.numel - 1 /\ o = Offset(y, j) - at
    BY <1>1, <1>4, <1>7, SliceFacts DEF InSlice
  <2> HIDE DEF s, j
  <2>2. y.start \in Nat /\ y.at \in Nat /\ y.numel \in Nat BY <1>1 DEF IsRef
  <2>3. Offset(y, j) \in Int /\ Offset(y, j) - y.at \in 0 .. y.numel - 1 BY <2>1, <2>2 DEF Offset
  <2>4. Offset(y, j) = Offset(x, i) BY <1>2, <1>3, <1>4, <2>1, <2>3
  <2> QED BY <1>3, <2>3, <2>4 DEF BucketIs
<1> QED BY <1>5, <1>6, <1>7

\* Every place of the buffer is one of a chunk.
LEMMA PlaceOf ==
  ASSUME NEW sh, NEW l, IsLayout(l), NEW b, BucketIs(sh, b), NEW r \in RanksOf(l), NEW o \in BufferOf(l, b, r)
  PROVE  \E x \in Range(b.refs) : \E i \in Int : /\ Has(l, b, r, x, i) /\ PlaceIn(l, b, r, x, i) = o
                                                 /\ i = x.start + SliceOf(l, b, x, r).inRef + o - SliceOf(l, b, x, r).inShard
<1> DEFINE s == ShardRangeOf(l, b.numel, r)  a == o + s.start
<1>1. b.numel \in Nat /\ \A y \in Range(b.refs) : IsRef(y) BY DEF BucketIs
<1>2. s.start \in Nat /\ s.numel \in Nat /\ s.start + s.numel <= b.numel BY <1>1, ShardWithin
<1>3. o \in 0 .. s.numel - 1 BY DEF BufferOf
<1>4. Keeps(l, b.numel, r, a)
  <2>1. a - s.start = o BY <1>2, <1>3
  <2> QED BY <1>3, <2>1 DEF Keeps
<1> HIDE DEF s
<1>5. a \in 0 .. b.numel - 1 BY <1>1, <1>2, <1>3
<1>6. PICK x \in Range(b.refs) : a - x.at \in 0 .. x.numel - 1 BY <1>5 DEF BucketIs
<1>7. x.start \in Nat /\ x.at \in Nat /\ x.numel \in Nat BY <1>1 DEF IsRef
<1> DEFINE i == x.start + a - x.at
<1>8. i \in Int /\ i - x.start \in 0 .. x.numel - 1 /\ Offset(x, i) = a BY <1>5, <1>6, <1>7 DEF Offset
<1>9. Has(l, b, r, x, i) BY <1>4, <1>8 DEF Has
<1>10. PlaceIn(l, b, r, x, i) = o BY <1>2, <1>3, <1>8 DEF PlaceIn, s
<1>11. i = x.start + SliceOf(l, b, x, r).inRef + o - SliceOf(l, b, x, r).inShard
  <2> DEFINE t == SliceOf(l, b, x, r)
  <2>1. {t.inRef, t.inShard} \subseteq Nat /\ t.inShard + (i - x.start - t.inRef) = Offset(x, i) - s.start
    BY <1>1, <1>8, <1>9, SliceFacts DEF Has, s
  <2>2. PICK u \in Nat, v \in Nat, st \in Nat, w \in Nat : u = t.inRef /\ v = t.inShard /\ st = s.start /\ w = x.start
    BY <1>2, <1>7, <2>1
  <2>3. o \in Int BY <1>2, <1>3
  <2>4. v + (i - w - u) = (o + st) - st /\ i \in Int BY <1>8, <2>1, <2>2
  <2> HIDE DEF t, i, a
  <2>5. i = w + u + o - v BY <2>3, <2>4
  <2> QED BY <2>2, <2>5 DEF t
<1> QED BY <1>8, <1>9, <1>10, <1>11

\* The chunk at a place, and the element of the model that is kept there.
LEMMA ChunkAt ==
  ASSUME NEW sh, NEW l, IsLayout(l), NEW b, BucketIs(sh, b), NEW r \in RanksOf(l),
         NEW x \in Range(b.refs), NEW i \in Int, Has(l, b, r, x, i), NEW o, o = PlaceIn(l, b, r, x, i)
  PROVE  /\ \A y \in Range(b.refs) : InSlice(l, b, r, y, o) <=> x = y
         /\ x.start + SliceOf(l, b, x, r).inRef + o - SliceOf(l, b, x, r).inShard = i
<1>1. \A y \in Range(b.refs) : InSlice(l, b, r, y, o) <=> x = y BY SliceHits
<1> DEFINE t == SliceOf(l, b, x, r)  at == ShardRangeOf(l, b.numel, r).start
<1>3. b.numel \in Nat /\ IsRef(x) BY DEF BucketIs
<1>4. x.start \in Nat /\ x.at \in Nat BY <1>3 DEF IsRef
<1>5. {t.inRef, t.inShard} \subseteq Nat /\ t.inShard + (i - x.start - t.inRef) = Offset(x, i) - at
  BY <1>3, SliceFacts DEF Has
<1>6. o = Offset(x, i) - at /\ Offset(x, i) = x.at + i - x.start BY DEF PlaceIn, Offset
<1>7. at \in Int BY <1>3, ShardWithin
<1> HIDE DEF t, at
<1>8. o = t.inShard + (i - x.start - t.inRef) BY <1>5, <1>6
<1>9. x.start + t.inRef + o - t.inShard = i BY <1>4, <1>5, <1>8
<1> QED BY <1>1, <1>9 DEF t

\* The elements of a slice, seen from the model.
LEMMA SliceElements ==
  ASSUME NEW sh, NEW l, IsLayout(l), NEW b, BucketIs(sh, b), NEW r \in RanksOf(l), NEW x \in Range(b.refs), NEW i \in Int
  PROVE  LET s == SliceOf(l, b, x, r)
         IN  /\ i - x.start - s.inRef \in 0 .. s.numel - 1 <=> Has(l, b, r, x, i)
             /\ Has(l, b, r, x, i) => s.inShard + (i - x.start - s.inRef) = PlaceIn(l, b, r, x, i)
<1>1. b.numel \in Nat /\ IsRef(x) BY DEF BucketIs
<1> QED BY <1>1, SliceFacts DEF Has, PlaceIn
-----------------------------------------------------------------------------
(* The gather                                                              *)

\* Something of every rank.
OverRanks(l, f) == f = [r \in RanksOf(l) |-> f[r]]
\* A model of the shape.
IsModel(sh, m) == m = [p \in DOMAIN sh |-> [i \in 0 .. sh[p].numel - 1 |-> m[p][i]]]

\* Outside the chunks S, a model is the old one.
Apart(sh, m, old, S) ==
  \A p \in DOMAIN sh : \A i \in 0 .. sh[p].numel - 1 : (\A x \in S : ~InRef(x, p, i)) => m[p][i] = old[p][i]
\* In the chunks S, all ranks have what the rank has that keeps the element.
FromKeeper(sh, l, b, S, G, models) ==
  \A r, q \in RanksOf(l) : \A p \in DOMAIN sh : \A i \in 0 .. sh[p].numel - 1 : \A x \in S :
    InRef(x, p, i) /\ Has(l, b, q, x, i) => G[r][p][i] = models[q][p][i]

\* A bucket is put together from what each rank has of it: an element of one of the chunks is
\* everywhere what it is at the rank that keeps it, and all others stay.
LEMMA GatherIs ==
  ASSUME NEW sh, IsShape(sh), NEW l, IsLayout(l), NEW b, BucketIs(sh, b), NEW S, S \subseteq Range(b.refs),
         NEW models, OverRanks(l, models), \A r \in RanksOf(l) : IsModel(sh, models[r]),
         NEW G, G = AllGathered(l, b, S, models)
  PROVE  /\ OverRanks(l, G)
         /\ \A r \in RanksOf(l) : IsModel(sh, G[r])
         /\ FromKeeper(sh, l, b, S, G, models)
         /\ \A r \in RanksOf(l) : Apart(sh, G[r], models[r], S)
<1>0. b.numel \in Nat /\ \A y \in Range(b.refs) : IsRef(y) BY DEF BucketIs
<1>d. l.dp \in Nat \ {0} BY DEF IsLayout
<1>1. CASE l.dp = 1
  <2>1. G = models BY <1>1 DEF AllGathered
  <2>2. \A r, q \in RanksOf(l) : r = q BY <1>1 DEF RanksOf
  <2>3. OverRanks(l, models) OBVIOUS
  <2>4. \A r \in RanksOf(l) : IsModel(sh, G[r]) BY <2>1
  <2>5. \A r, q \in RanksOf(l) : G[r] = models[q] BY <2>1, <2>2
  <2> QED BY <2>1, <2>3, <2>4, <2>5 DEF FromKeeper, Apart
<1>2. CASE l.dp # 1
  <2> DEFINE send == [q \in DOMAIN models |-> [o \in 0..MaxShard(l, b.numel)-1 |->
                LET hit == {x \in S : o - SliceOf(l, b, x, q).inShard \in 0..SliceOf(l, b, x, q).numel-1}
                IN IF hit = {} THEN 0
                   ELSE LET x == CHOOSE y \in hit : TRUE
                        IN models[q][x.p][x.start + SliceOf(l, b, x, q).inRef + o - SliceOf(l, b, x, q).inShard]]]
             from(x, i) == {q \in DOMAIN models :
                LET s == ShardRangeOf(l, b.numel, q) IN x.at + i - x.start - s.start \in 0..s.numel-1}
             new(r, p, i) ==
               LET x == {y \in S : y.p = p /\ i - y.start \in 0..y.numel-1}
               IN IF \E y \in x : from(y, i) # {}
                  THEN LET y == CHOOSE y \in x : TRUE
                           q == CHOOSE q \in from(y, i) : TRUE
                       IN send[q][y.at + i - y.start - ShardRangeOf(l, b.numel, q).start]
                  ELSE models[r][p][i]
  <2>1. G = [r \in DOMAIN models |-> [p \in DOMAIN models[r] |-> [i \in DOMAIN models[r][p] |-> new(r, p, i)]]]
    BY <1>2 DEF AllGathered
  <2> HIDE DEF new
  <2>m. DOMAIN models = RanksOf(l) BY DEF OverRanks
  <2>2. \A r \in RanksOf(l) : DOMAIN models[r] = DOMAIN sh /\ \A p \in DOMAIN sh : DOMAIN models[r][p] = 0 .. sh[p].numel - 1
    BY DEF IsModel
  <2>3. G = [r \in RanksOf(l) |-> [p \in DOMAIN sh |-> [i \in 0 .. sh[p].numel - 1 |-> new(r, p, i)]]]
    <3>1. \A r \in RanksOf(l) : [p \in DOMAIN models[r] |-> [i \in DOMAIN models[r][p] |-> new(r, p, i)]]
                                  = [p \in DOMAIN sh |-> [i \in 0 .. sh[p].numel - 1 |-> new(r, p, i)]]
      BY <2>2
    <3> QED BY <2>1, <2>m, <3>1
  <2>4. OverRanks(l, G) /\ \A r \in RanksOf(l) : IsModel(sh, G[r])
    <3>1. OverRanks(l, G) BY <2>3 DEF OverRanks
    <3>2. \A r \in RanksOf(l) : G[r] = [p \in DOMAIN sh |-> [i \in 0 .. sh[p].numel - 1 |-> new(r, p, i)]] BY <2>3
    <3>3. ASSUME NEW r \in RanksOf(l) PROVE IsModel(sh, G[r])
      <4> DEFINE m == G[r]
      <4>1. m = [p \in DOMAIN sh |-> [i \in 0 .. sh[p].numel - 1 |-> new(r, p, i)]] BY <3>2
      <4> HIDE DEF m
      <4>2. \A p \in DOMAIN sh : m[p] = [i \in 0 .. sh[p].numel - 1 |-> m[p][i]] BY <4>1
      <4>3. m = [p \in DOMAIN sh |-> m[p]] BY <4>1
      <4> QED BY <4>2, <4>3 DEF IsModel, m
    <3> QED BY <3>1, <3>3
  <2>5. \A r \in RanksOf(l) : \A p \in DOMAIN sh : \A i \in 0 .. sh[p].numel - 1 : G[r][p][i] = new(r, p, i) BY <2>3
  <2>6. ASSUME NEW r \in RanksOf(l), NEW q \in RanksOf(l), NEW p \in DOMAIN sh, NEW i \in 0 .. sh[p].numel - 1,
               NEW x \in S, InRef(x, p, i), Has(l, b, q, x, i)
        PROVE  G[r][p][i] = models[q][p][i]
    <3>0. i \in Int /\ p \in Int BY DEF IsShape
    <3>x. x \in Range(b.refs) OBVIOUS
    <3> DEFINE o == PlaceIn(l, b, q, x, i)
    <3>a. o = PlaceIn(l, b, q, x, i) OBVIOUS
    <3> HIDE DEF send, o, from
    <3>1. {y \in S : y.p = p /\ i - y.start \in 0..y.numel-1} = {x}
      <4>1. \A y \in S : InRef(y, p, i) <=> y = x BY <2>6, <3>0 DEF BucketIs
      <4> QED BY <4>1 DEF InRef
    <3>2. from(x, i) = {q}
      <4>1. Offset(x, i) \in 0 .. b.numel - 1
        <5>1. Offset(x, i) \in Int
          <6>1. x.start \in Nat /\ x.at \in Nat BY <1>0 DEF IsRef
          <6> QED BY <3>0, <6>1 DEF Offset
        <5> QED BY <1>0, <2>6, <5>1, ShardWithin DEF Has
      <4>2. \A t \in RanksOf(l) : Keeps(l, b.numel, t, Offset(x, i)) <=> t = q BY <1>0, <2>6, <4>1, OneKeeper DEF Has
      <4>3. from(x, i) = {t \in RanksOf(l) : x.at + i - x.start - ShardRangeOf(l, b.numel, t).start
                                                 \in 0 .. ShardRangeOf(l, b.numel, t).numel - 1}
        BY <2>m DEF from
      <4>5. \A t \in RanksOf(l) : Keeps(l, b.numel, t, Offset(x, i)) <=>
                                      x.at + i - x.start - ShardRangeOf(l, b.numel, t).start
                                                 \in 0 .. ShardRangeOf(l, b.numel, t).numel - 1
        <5> SUFFICES ASSUME NEW t \in RanksOf(l)
            PROVE  Keeps(l, b.numel, t, Offset(x, i)) <=> x.at + i - x.start - ShardRangeOf(l, b.numel, t).start
                                                            \in 0 .. ShardRangeOf(l, b.numel, t).numel - 1
          OBVIOUS
        <5> DEFINE st == ShardRangeOf(l, b.numel, t).start
        <5>1. st \in Nat BY <1>0, ShardWithin
        <5>2. x.start \in Nat /\ x.at \in Nat BY <1>0 DEF IsRef
        <5> HIDE DEF st
        <5>3. x.at + i - x.start - st = Offset(x, i) - st BY <3>0, <5>1, <5>2 DEF Offset
        <5> QED BY <5>3 DEF Keeps, st
      <4> QED BY <4>2, <4>3, <4>5
    <3>3. new(r, p, i) = send[q][o]
      <4>1. x.at + i - x.start - ShardRangeOf(l, b.numel, q).start = o
        <5> DEFINE st == ShardRangeOf(l, b.numel, q).start
        <5>1. st \in Nat BY <1>0, ShardWithin
        <5>2. x.start \in Nat /\ x.at \in Nat BY <1>0 DEF IsRef
        <5>3. o = Offset(x, i) - st BY <3>a DEF PlaceIn
        <5> HIDE DEF st
        <5>4. x.at + i - x.start - st = o BY <3>0, <5>1, <5>2, <5>3 DEF Offset
        <5> QED BY <5>4 DEF st
      <4>2. \E y \in {x} : from(y, i) # {} BY <3>2
      <4>3. (CHOOSE y \in {x} : TRUE) = x /\ (CHOOSE t \in {q} : TRUE) = q OBVIOUS
      <4>4. new(r, p, i) = send[q][x.at + i - x.start - ShardRangeOf(l, b.numel, q).start]
        BY <3>1, <3>2, <4>2, <4>3, Zenon DEF new
      <4> QED BY <4>1, <4>4
    <3>4. o \in 0 .. MaxShard(l, b.numel) - 1
      <4>1. o \in BufferOf(l, b, q) BY <2>6, <3>0, <3>x, <3>a, SliceHits
      <4>2. ShardRangeOf(l, b.numel, q).numel \in Nat /\ ShardRangeOf(l, b.numel, q).numel <= MaxShard(l, b.numel)
            /\ MaxShard(l, b.numel) \in Nat
        BY <1>0, ShardWithin, LargestShard
      <4> QED BY <4>1, <4>2 DEF BufferOf
    <3>5. send[q][o] = models[q][p][i]
      <4>0. /\ \A y \in Range(b.refs) : InSlice(l, b, q, y, o) <=> x = y
            /\ x.start + SliceOf(l, b, x, q).inRef + o - SliceOf(l, b, x, q).inShard = i
        BY <2>6, <3>0, <3>x, <3>a, ChunkAt
      <4>1. {y \in S : o - SliceOf(l, b, y, q).inShard \in 0 .. SliceOf(l, b, y, q).numel - 1} = {x}
        <5>1. \A y \in S : o - SliceOf(l, b, y, q).inShard \in 0 .. SliceOf(l, b, y, q).numel - 1 <=> x = y
          BY <4>0 DEF InSlice
        <5> QED BY <5>1
      <4>2. (CHOOSE y \in {x} : TRUE) = x /\ {x} # {} OBVIOUS
      <4>3. x.p = p BY <2>6 DEF InRef
      <4>4. send[q][o] = LET hit == {y \in S : o - SliceOf(l, b, y, q).inShard \in 0..SliceOf(l, b, y, q).numel-1}
                         IN IF hit = {} THEN 0
                            ELSE LET y == CHOOSE y \in hit : TRUE
                                 IN models[q][y.p][y.start + SliceOf(l, b, y, q).inRef + o - SliceOf(l, b, y, q).inShard]
        BY <2>m, <3>4 DEF send
      <4> QED BY <4>0, <4>1, <4>2, <4>3, <4>4
    <3> QED BY <2>5, <3>3, <3>5
  <2>7. ASSUME NEW r \in RanksOf(l), NEW p \in DOMAIN sh, NEW i \in 0 .. sh[p].numel - 1, \A x \in S : ~InRef(x, p, i)
        PROVE  G[r][p][i] = models[r][p][i]
    <3>1. {y \in S : y.p = p /\ i - y.start \in 0..y.numel-1} = {} BY <2>7 DEF InRef
    <3> HIDE DEF send, from
    <3>2. new(r, p, i) = models[r][p][i] BY <3>1 DEF new
    <3> QED BY <2>5, <3>2
  <2> QED BY <2>4, <2>6, <2>7 DEF FromKeeper, Apart
<1> QED BY <1>1, <1>2, <1>d

-----------------------------------------------------------------------------
(* A step of one chunk                                                     *)

\* Two models of the shape are one if their elements are.
LEMMA ModelsAreEqual ==
  ASSUME NEW sh, NEW m, IsModel(sh, m), NEW n, IsModel(sh, n),
         \A p \in DOMAIN sh : \A i \in 0 .. sh[p].numel - 1 : m[p][i] = n[p][i]
  PROVE  m = n
<1> DEFINE R(p) == 0 .. sh[p].numel - 1
<1>1. m = [p \in DOMAIN sh |-> [i \in R(p) |-> m[p][i]]] /\ n = [p \in DOMAIN sh |-> [i \in R(p) |-> n[p][i]]]
  BY DEF IsModel
<1>2. \A p \in DOMAIN sh : \A i \in R(p) : m[p][i] = n[p][i] OBVIOUS
<1> HIDE DEF R
<1>3. \A p \in DOMAIN sh : [i \in R(p) |-> m[p][i]] = [i \in R(p) |-> n[p][i]] BY <1>2
<1>4. [p \in DOMAIN sh |-> [i \in R(p) |-> m[p][i]]] = [p \in DOMAIN sh |-> [i \in R(p) |-> n[p][i]]] BY <1>3
<1> QED BY <1>1, <1>4

\* Some elements of one parameter are written.
Rewritten(m, q, S, new) == [m EXCEPT ![q] = [i \in DOMAIN m[q] |-> IF i \in S THEN new[i] ELSE m[q][i]]]

\* It stays a model of that shape, and nothing else of it changes.
LEMMA ModelWritten ==
  ASSUME NEW sh, NEW m, IsModel(sh, m), NEW q \in DOMAIN sh, NEW S, NEW new,
         NEW n, n = Rewritten(m, q, S, new)
  PROVE  /\ IsModel(sh, n)
         /\ \A p \in DOMAIN sh : \A i \in 0 .. sh[p].numel - 1 :
              n[p][i] = IF p = q /\ i \in S THEN new[i] ELSE m[p][i]
<1> DEFINE R(p) == 0 .. sh[p].numel - 1
<1>1. m = [p \in DOMAIN sh |-> [i \in R(p) |-> m[p][i]]] BY DEF IsModel
<1> HIDE DEF R
<1>2. DOMAIN m = DOMAIN sh /\ \A p \in DOMAIN sh : m[p] = [i \in R(p) |-> m[p][i]] BY <1>1
<1> DEFINE f == [i \in R(q) |-> IF i \in S THEN new[i] ELSE m[q][i]]
<1>3. DOMAIN m[q] = R(q) BY <1>2
<1>4. n = [m EXCEPT ![q] = f] BY <1>3 DEF Rewritten
<1>5. f = [i \in R(q) |-> f[i]] /\ \A i \in R(q) : f[i] = IF i \in S THEN new[i] ELSE m[q][i] OBVIOUS
<1> HIDE DEF f
<1>6. DOMAIN n = DOMAIN sh /\ n = [p \in DOMAIN sh |-> n[p]] BY <1>2, <1>4
<1>7. n[q] = f /\ \A p \in DOMAIN sh : p # q => n[p] = m[p] BY <1>2, <1>4
<1>8. \A p \in DOMAIN sh : n[p] = [i \in R(p) |-> n[p][i]] BY <1>2, <1>5, <1>7
<1>9. n = [p \in DOMAIN sh |-> [i \in R(p) |-> n[p][i]]] BY <1>6, <1>8
<1>10. \A p \in DOMAIN sh : \A i \in R(p) : n[p][i] = IF p = q /\ i \in S THEN new[i] ELSE m[p][i] BY <1>5, <1>7
<1> QED BY <1>9, <1>10 DEF IsModel, R

\* The elements of rank r's slice of a chunk.
SliceSet(l, b, r, x) == {i \in Int : i - x.start - SliceOf(l, b, x, r).inRef \in 0 .. SliceOf(l, b, x, r).numel - 1}

\* They are the elements of the chunk that the rank has.
LEMMA SliceSetIs ==
  ASSUME NEW sh, NEW l, IsLayout(l), NEW b, BucketIs(sh, b), NEW r \in RanksOf(l), NEW x \in Range(b.refs)
  PROVE  \A i \in Int : i \in SliceSet(l, b, r, x) <=> Has(l, b, r, x, i)
BY SliceElements DEF SliceSet

\* The masters of rank r after a step of the chunk x.
NewMaster(l, b, r, st, x, g) ==
  [k \in DOMAIN st.o.master |->
     st.o.master[k] + (IF k - SliceOf(l, b, x, r).inShard \in 0..SliceOf(l, b, x, r).numel-1
                       THEN Moment(st.o, SliceOf(l, b, x, r), g)[k] ELSE 0)]

\* The model m has rank r's masters of the chunk x after the step, rounded.
FromMasters(sh, l, b, r, st, x, g, m) ==
  \A i \in 0 .. sh[x.p].numel - 1 :
    Has(l, b, r, x, i) => m[x.p][i] = Round(NewMaster(l, b, r, st, x, g)[PlaceIn(l, b, r, x, i)])

\* Either optimizer writes the model in the rank's slice of the chunk only.
LEMMA StepModel ==
  ASSUME NEW sh, IsShape(sh), NEW l, IsLayout(l), NEW b, BucketIs(sh, b), NEW r \in RanksOf(l), NEW x \in Range(b.refs),
         NEW st, IsModel(sh, st.model), NEW g, NEW m, m = StepOne(l, b, r, st, x, g).model
  PROVE  /\ IsModel(sh, m) /\ Apart(sh, m, st.model, {x})
         /\ l.kind # "8bit" => FromMasters(sh, l, b, r, st, x, g, m)
<1> DEFINE s == SliceOf(l, b, x, r)  old == st.model
           avg == Moment(st.o, s, g)
           master == [k \in DOMAIN st.o.master |->
                        st.o.master[k] + (IF k - s.inShard \in 0..s.numel-1 THEN avg[k] ELSE 0)]
           w(k) == Widen(st.model[x.p][k - s.inShard + x.start + s.inRef]) + avg[k]
           new == [i \in DOMAIN old[x.p] |-> Round(master[s.inShard + (i - x.start - s.inRef)])]
           new8 == [i \in DOMAIN old[x.p] |-> Round(w(s.inShard + (i - x.start - s.inRef)))]
           S == SliceSet(l, b, r, x)
<1>1. x.p \in DOMAIN sh BY DEF BucketIs
<1>2. \A p \in DOMAIN sh : DOMAIN old[p] = 0 .. sh[p].numel - 1 BY DEF IsModel
<1>3. \A i \in DOMAIN old[x.p] : i - x.start - s.inRef \in 0 .. s.numel - 1 <=> i \in S
  <2>1. \A i \in DOMAIN old[x.p] : i \in Int BY <1>1, <1>2 DEF IsShape
  <2> QED BY <2>1 DEF SliceSet
<1>4. PICK n : m = Rewritten(old, x.p, S, n) /\ (l.kind # "8bit" => n = new)
  <2>1. CASE l.kind = "8bit"
    <3>1. m = Written(old, x, s, w) BY <2>1 DEF StepOne, StepRef8bit
    <3> HIDE DEF w, old, s
    <3>2. m = [old EXCEPT ![x.p] = [i \in DOMAIN old[x.p] |->
                 IF i - x.start - s.inRef \in 0..s.numel-1 THEN Round(w(s.inShard + (i - x.start - s.inRef))) ELSE old[x.p][i]]]
      BY <3>1 DEF Written
    <3> HIDE DEF S
    <3>3. [i \in DOMAIN old[x.p] |->
            IF i - x.start - s.inRef \in 0..s.numel-1 THEN Round(w(s.inShard + (i - x.start - s.inRef))) ELSE old[x.p][i]]
          = [i \in DOMAIN old[x.p] |-> IF i \in S THEN new8[i] ELSE old[x.p][i]]
      BY <1>3
    <3> HIDE DEF new8
    <3>4. m = Rewritten(old, x.p, S, new8) BY <3>2, <3>3 DEF Rewritten
    <3> QED BY <2>1, <3>4
  <2>2. CASE l.kind # "8bit"
    <3>1. m = Written(old, x, s, LAMBDA k : master[k]) BY <2>2 DEF StepOne, StepRef
    <3> HIDE DEF master, old, s
    <3>2. m = [old EXCEPT ![x.p] = [i \in DOMAIN old[x.p] |->
                 IF i - x.start - s.inRef \in 0..s.numel-1 THEN Round(master[s.inShard + (i - x.start - s.inRef)]) ELSE old[x.p][i]]]
      BY <3>1 DEF Written
    <3> HIDE DEF S
    <3>3. [i \in DOMAIN old[x.p] |->
            IF i - x.start - s.inRef \in 0..s.numel-1 THEN Round(master[s.inShard + (i - x.start - s.inRef)]) ELSE old[x.p][i]]
          = [i \in DOMAIN old[x.p] |-> IF i \in S THEN new[i] ELSE old[x.p][i]]
      BY <1>3
    <3> HIDE DEF new
    <3>4. m = Rewritten(old, x.p, S, new) BY <3>2, <3>3 DEF Rewritten
    <3> QED BY <3>4
  <2> QED BY <2>1, <2>2
<1> HIDE DEF S
<1>5. /\ IsModel(sh, m)
      /\ \A p \in DOMAIN sh : \A i \in 0 .. sh[p].numel - 1 : m[p][i] = IF p = x.p /\ i \in S THEN n[i] ELSE old[p][i]
  <2> HIDE DEF old
  <2>0. IsModel(sh, old) BY DEF old
  <2> QED BY <1>1, <1>4, <2>0, ModelWritten
<1>6. \A p \in DOMAIN sh : \A i \in 0 .. sh[p].numel - 1 : p = x.p /\ i \in S => InRef(x, p, i)
  <2>1. \A p \in DOMAIN sh : \A i \in 0 .. sh[p].numel - 1 : i \in Int BY DEF IsShape
  <2>2. \A i \in Int : i \in S => i - x.start \in 0 .. x.numel - 1 BY SliceSetIs DEF Has, S
  <2> QED BY <2>1, <2>2 DEF InRef
<1>7. ASSUME l.kind # "8bit", NEW i \in 0 .. sh[x.p].numel - 1, Has(l, b, r, x, i)
      PROVE  m[x.p][i] = Round(NewMaster(l, b, r, st, x, g)[PlaceIn(l, b, r, x, i)])
  <2>1. i \in DOMAIN old[x.p] /\ i \in Int BY <1>1, <1>2 DEF IsShape
  <2>2. i \in S BY <1>7, <2>1, SliceSetIs DEF S
  <2>3. m[x.p][i] = n[i] BY <1>1, <1>5, <2>2
  <2>4. n[i] = Round(master[s.inShard + (i - x.start - s.inRef)])
    <3> HIDE DEF master, s, old
    <3> QED BY <1>4, <1>7, <2>1
  <2>5. s.inShard + (i - x.start - s.inRef) = PlaceIn(l, b, r, x, i) BY <1>7, <2>1, SliceElements
  <2>6. master = NewMaster(l, b, r, st, x, g) BY Zenon DEF NewMaster
  <2> HIDE DEF master, s
  <2> QED BY <2>3, <2>4, <2>5, <2>6
<1>8. IsModel(sh, m) /\ Apart(sh, m, st.model, {x}) BY <1>5, <1>6 DEF Apart
<1> QED BY <1>7, <1>8 DEF FromMasters

\* The state of a bucket on a rank.
IsOptState(o) == o = [master |-> o.master, avg |-> o.avg, step |-> o.step, onHost |-> o.onHost]

\* Each field of it can be set.
LEMMA OptStateSet ==
  ASSUME NEW o, IsOptState(o), NEW v
  PROVE  /\ [o EXCEPT !.master = v] = [master |-> v, avg |-> o.avg, step |-> o.step, onHost |-> o.onHost]
         /\ [o EXCEPT !.avg = v] = [master |-> o.master, avg |-> v, step |-> o.step, onHost |-> o.onHost]
         /\ [o EXCEPT !.step = v] = [master |-> o.master, avg |-> o.avg, step |-> v, onHost |-> o.onHost]
         /\ [o EXCEPT !.onHost = v] = [master |-> o.master, avg |-> o.avg, step |-> o.step, onHost |-> v]
<1> DEFINE a == o.master  b == o.avg  c == o.step  d == o.onHost
<1>1. o = [master |-> a, avg |-> b, step |-> c, onHost |-> d] BY DEF IsOptState
<1> HIDE DEF a, b, c, d
<1>2. [o EXCEPT !.master = v] = [master |-> v, avg |-> b, step |-> c, onHost |-> d] BY <1>1
<1>3. [o EXCEPT !.avg = v] = [master |-> a, avg |-> v, step |-> c, onHost |-> d] BY <1>1
<1>4. [o EXCEPT !.step = v] = [master |-> a, avg |-> b, step |-> v, onHost |-> d] BY <1>1
<1>5. [o EXCEPT !.onHost = v] = [master |-> a, avg |-> b, step |-> c, onHost |-> v] BY <1>1
<1> QED BY <1>2, <1>3, <1>4, <1>5 DEF a, b, c, d

\* _step_param_ref adds the moments to the masters of its slice.
LEMMA StepOneIs ==
  ASSUME NEW l, l.kind # "8bit", NEW b, NEW r, NEW st, IsOptState(st.o), NEW x, NEW g
  PROVE  StepOne(l, b, r, st, x, g).o =
           [master |-> NewMaster(l, b, r, st, x, g), avg |-> Moment(st.o, SliceOf(l, b, x, r), g),
            step |-> st.o.step, onHost |-> st.o.onHost]
<1> DEFINE s == SliceOf(l, b, x, r)  avg == Moment(st.o, s, g)
           master == [k \in DOMAIN st.o.master |->
                        st.o.master[k] + (IF k - s.inShard \in 0..s.numel-1 THEN avg[k] ELSE 0)]
<1>0. master = NewMaster(l, b, r, st, x, g) BY Zenon DEF NewMaster
<1> DEFINE M == Written(st.model, x, s, LAMBDA k : master[k])
           o == st.o  u == [o EXCEPT !.avg = avg]  t == [u EXCEPT !.master = master]
<1>1. StepOne(l, b, r, st, x, g) = [model |-> M, o |-> t] BY Zenon DEF StepOne, StepRef
<1> HIDE DEF M, t
<1>2. StepOne(l, b, r, st, x, g).o = t BY <1>1
<1> HIDE DEF u, o, avg, master
<1>3. u = [master |-> o.master, avg |-> avg, step |-> o.step, onHost |-> o.onHost] BY OptStateSet DEF u, o
<1>4. IsOptState(u) /\ u.avg = avg /\ u.step = o.step /\ u.onHost = o.onHost BY <1>3 DEF IsOptState
<1>5. t = [master |-> master, avg |-> u.avg, step |-> u.step, onHost |-> u.onHost] BY <1>4, OptStateSet DEF t
<1>6. t = [master |-> master, avg |-> avg, step |-> o.step, onHost |-> o.onHost] BY <1>4, <1>5
<1> QED BY <1>0, <1>2, <1>6 DEF o, avg

-----------------------------------------------------------------------------
(* The ranks agree                                                         *)

\* All ranks hold the same model of the shape.
Agreed(sh, l, models) ==
  /\ OverRanks(l, models)
  /\ \A r \in RanksOf(l) : IsModel(sh, models[r])
  /\ \A r, q \in RanksOf(l) : models[r] = models[q]

\* A rank that steps some chunks of a bucket writes its model in those only.
LEMMA SweepModel ==
  ASSUME NEW sh, IsShape(sh), NEW l, IsLayout(l), NEW b, BucketIs(sh, b), NEW r \in RanksOf(l),
         NEW refs \in Seq(Range(b.refs)), NEW st0, IsModel(sh, st0.model), NEW grads
  PROVE  LET m == StepRefs(l, b, r, st0, refs, grads).model
         IN  IsModel(sh, m) /\ Apart(sh, m, st0.model, Range(refs))
<1>n. PICK n \in Nat : n = Len(refs)
  <2>1. Len(refs) \in Nat OBVIOUS
  <2> QED BY <2>1
<1>0. n \in Nat /\ (\A j \in 1 .. n : refs[j] \in Range(b.refs)) /\ Range(refs) = {refs[j] : j \in 1 .. n} BY <1>n DEF Range
<1>a. PICK f : f[0] = st0 /\ StepRefs(l, b, r, st0, refs, grads) = f[n] /\ RefByRef(f, l, b, r, refs, grads, n)
  BY <1>n, RefsStep
<1>1. \A i \in 1 .. n : f[i] = StepOne(l, b, r, f[i - 1], refs[i], grads[refs[i].p][1]) BY <1>a DEF RefByRef
<1> DEFINE Sofar(m) == {refs[j] : j \in 1 .. m}
    T == {m \in 0 .. n : IsModel(sh, f[m].model) /\ Apart(sh, f[m].model, st0.model, Sofar(m))}
<1>2. 0 \in T BY <1>0, <1>a DEF Apart
<1>3. ASSUME NEW m \in 0 .. n - 1, m \in T PROVE m + 1 \in T
  <2>1. m + 1 \in 1 .. n /\ m + 1 \in 0 .. n /\ (m + 1) - 1 = m /\ (\A j \in 1 .. m : j \in 1 .. m + 1) /\ m + 1 \in 1 .. m + 1
    BY <1>0
  <2>2. IsModel(sh, f[m].model) /\ Apart(sh, f[m].model, st0.model, Sofar(m)) BY <1>3
  <2> DEFINE x == refs[m + 1]  g == grads[x.p][1]  st == f[m]
  <2>3. f[m + 1] = StepOne(l, b, r, st, x, g) BY <1>1, <2>1
  <2>4. x \in Range(b.refs) BY <1>0, <2>1
  <2>5. Sofar(m) \subseteq Sofar(m + 1) /\ x \in Sofar(m + 1) BY <2>1
  <2> HIDE DEF g, x, Sofar
  <2>6. IsModel(sh, f[m + 1].model) /\ Apart(sh, f[m + 1].model, st.model, {x})
    <3> HIDE DEF st
    <3>1. IsModel(sh, st.model) BY <2>2 DEF st
    <3>2. f[m + 1].model = StepOne(l, b, r, st, x, g).model BY <2>3
    <3> DEFINE m1 == f[m + 1].model
    <3>3. m1 = StepOne(l, b, r, st, x, g).model BY <3>2
    <3> HIDE DEF m1
    <3>4. IsModel(sh, m1) /\ Apart(sh, m1, st.model, {x}) BY <2>4, <3>1, <3>3, StepModel
    <3> QED BY <3>4 DEF m1
  <2>7. Apart(sh, f[m + 1].model, st0.model, Sofar(m + 1)) BY <2>2, <2>5, <2>6 DEF Apart
  <2> QED BY <2>1, <2>6, <2>7
<1> HIDE DEF T
<1>4. 0 .. n \subseteq T BY <1>0, <1>2, <1>3, IntervalInduction
<1>5. n \in T BY <1>0, <1>4
<1> QED BY <1>0, <1>a, <1>5 DEF T

\* An element of a chunk is kept by some rank.
LEMMA ElementKept ==
  ASSUME NEW sh, NEW l, IsLayout(l), NEW b, BucketIs(sh, b), NEW x \in Range(b.refs),
         NEW i, i - x.start \in 0 .. x.numel - 1, i \in Int
  PROVE  \E q \in RanksOf(l) : Has(l, b, q, x, i)
<1>1. b.numel \in Nat /\ IsRef(x) /\ x.at + x.numel <= b.numel BY DEF BucketIs
<1>2. x.start \in Nat /\ x.at \in Nat /\ x.numel \in Nat BY <1>1 DEF IsRef
<1>3. Offset(x, i) \in 0 .. b.numel - 1 BY <1>1, <1>2 DEF Offset
<1>4. \E q \in RanksOf(l) : Keeps(l, b.numel, q, Offset(x, i)) BY <1>1, <1>3, OneKeeper
<1> QED BY <1>4 DEF Has

\* When the slices of a bucket are gathered, what the ranks wrote to it is the same on all.
LEMMA GatherAgrees ==
  ASSUME NEW sh, IsShape(sh), NEW l, IsLayout(l), NEW b, BucketIs(sh, b), NEW S, S \subseteq Range(b.refs),
         NEW models, Agreed(sh, l, models),
         NEW new, OverRanks(l, new), \A r \in RanksOf(l) : IsModel(sh, new[r]),
         \A r \in RanksOf(l) : Apart(sh, new[r], models[r], S)
  PROVE  Agreed(sh, l, AllGathered(l, b, S, new))
<1> DEFINE G == AllGathered(l, b, S, new)
<1>1. /\ OverRanks(l, G) /\ \A r \in RanksOf(l) : IsModel(sh, G[r])
      /\ FromKeeper(sh, l, b, S, G, new) /\ \A r \in RanksOf(l) : Apart(sh, G[r], new[r], S)
  <2>1. G = AllGathered(l, b, S, new) OBVIOUS
  <2> HIDE DEF G
  <2> QED BY <2>1, GatherIs
<1> HIDE DEF G
<1>2. ASSUME NEW r \in RanksOf(l), NEW t \in RanksOf(l), NEW p \in DOMAIN sh, NEW i \in 0 .. sh[p].numel - 1
      PROVE  G[r][p][i] = G[t][p][i]
  <2>1. CASE \A x \in S : ~InRef(x, p, i)
    <3>1. G[r][p][i] = models[r][p][i] /\ G[t][p][i] = models[t][p][i] BY <1>1, <2>1 DEF Apart
    <3> QED BY <3>1 DEF Agreed
  <2>2. ASSUME NEW x \in S, InRef(x, p, i) PROVE G[r][p][i] = G[t][p][i]
    <3>1. PICK q \in RanksOf(l) : Has(l, b, q, x, i) 
      <4>1. i \in Int /\ i - x.start \in 0 .. x.numel - 1 BY <2>2 DEF InRef, IsShape
      <4>2. x \in Range(b.refs) OBVIOUS
      <4> QED BY <4>1, <4>2, ElementKept
    <3> QED BY <1>1, <2>2, <3>1 DEF FromKeeper
  <2> QED BY <2>1, <2>2
<1>3. \A r, t \in RanksOf(l) : G[r] = G[t] BY <1>1, <1>2, ModelsAreEqual
<1> QED BY <1>1, <1>3 DEF Agreed, G

-----------------------------------------------------------------------------
(* A step of one bucket                                                    *)

\* The chunks of a bucket whose parameter has a gradient; a rank before and after it steps them.
RefsOf(b, grads) == Kept(b.refs, {x \in Range(b.refs) : grads[x.p] # NoTensor})
Begun(l, b, r, m, o) == [Ensure(l, b, r, m, o) EXCEPT !.step = @ + 1]
StartOf(l, b, r, state, k) == [model |-> state.model[r], o |-> Begun(l, b, r, state.model[r], state.opt[r][k])]
SweptOf(l, b, k, acc) ==
  [r \in RanksOf(l) |-> StepRefs(l, b, r, StartOf(l, b, r, acc.state, k), RefsOf(b, acc.grads), acc.grads)]
ModelsOf(l, swept) == [r \in RanksOf(l) |-> swept[r].model]
OptsOf(l, opt, k, swept) == [r \in RanksOf(l) |-> [opt[r] EXCEPT ![k] = Stored(l, swept[r].o)]]

\* The chunks that are stepped are those whose parameter has a gradient, each of them once.
LEMMA RefsOfFacts ==
  ASSUME NEW sh, NEW b, BucketIs(sh, b), NEW grads
  PROVE  /\ RefsOf(b, grads) \in Seq(Range(b.refs))
         /\ Range(RefsOf(b, grads)) = {x \in Range(b.refs) : grads[x.p] # NoTensor}
         /\ RefsOf(b, grads) = << >> => \A x \in Range(b.refs) : grads[x.p] = NoTensor
         /\ \A i, j \in 1 .. Len(RefsOf(b, grads)) : RefsOf(b, grads)[i] = RefsOf(b, grads)[j] => i = j
<1> DEFINE s == b.refs  X == Range(b.refs)  S == {x \in X : grads[x.p] # NoTensor}  t == RefsOf(b, grads)
<1>1. s \in Seq(Refs) /\ \A i, j \in 1 .. Len(s) : s[i] = s[j] => i = j BY DEF BucketIs
<1>2. t = Kept(s, S) BY DEF RefsOf
<1>3. X = {s[i] : i \in DOMAIN s} BY DEF Range
<1> HIDE DEF S, X, s, t, Refs
<1>4. DOMAIN s = 1 .. Len(s) /\ Len(s) \in Nat BY <1>1
<1>5. s \in Seq(X)
  <2>1. s \in [1 .. Len(s) -> X] BY <1>1, <1>3, <1>4
  <2> QED BY <1>4, <2>1, SeqOfFunction
<1>6. /\ t \in Seq(X)
      /\ \A i \in 1 .. Len(s) : s[i] \in S => \E j \in 1 .. Len(t) : t[j] = s[i]
      /\ \A j \in 1 .. Len(t) : t[j] \in S /\ \E i \in 1 .. Len(s) : t[j] = s[i]
      /\ \A i, j \in 1 .. Len(t) : t[i] = t[j] => i = j
  BY <1>1, <1>2, <1>5, KeptFacts
<1>7. Range(t) = {t[j] : j \in 1 .. Len(t)} BY <1>6 DEF Range
<1>8. S \subseteq X BY DEF S
<1>9. Range(t) = S
  <2>1. ASSUME NEW x \in S PROVE \E j \in 1 .. Len(t) : t[j] = x
    <3>1. x \in X BY <1>8
    <3>2. PICK i \in DOMAIN s : x = s[i] BY <1>3, <3>1
    <3> QED BY <1>4, <1>6, <3>2
  <2> QED BY <1>6, <1>7, <2>1
<1>10. t = << >> => S = {}
  <2> SUFFICES ASSUME t = << >> PROVE S = {} OBVIOUS
  <2>1. Len(t) = 0 OBVIOUS
  <2>2. 1 .. Len(t) = {} BY <2>1
  <2> QED BY <1>7, <1>9, <2>2
<1>11. S = {} => \A x \in X : grads[x.p] = NoTensor BY DEF S
<1> QED BY <1>6, <1>9, <1>10, <1>11 DEF S, X, t, s

\* What a step of a bucket leaves.
IsStepped(sh, l, b, k, acc, refs, swept, t) ==
  /\ refs = << >> => t = acc
  /\ refs # << >> => t = [grads |-> UsedUp(sh, acc.grads, Range(refs)),
                         state |-> [model |-> AllGathered(l, b, Range(refs), ModelsOf(l, swept)),
                                    opt |-> OptsOf(l, acc.state.opt, k, swept)]]

\* _step_bucket steps every rank and then gathers what they wrote.
LEMMA StepBucketIs ==
  ASSUME NEW sh, NEW l, NEW acc, DOMAIN acc.state.model = RanksOf(l), NEW k, NEW b, b = Buckets(sh, l)[k],
         NEW refs, refs = RefsOf(b, acc.grads), NEW swept, swept = SweptOf(l, b, k, acc),
         NEW t, t = StepBucket(sh, l, acc, k)
  PROVE  IsStepped(sh, l, b, k, acc, refs, swept, t)
<1> DEFINE D == DOMAIN acc.state.model
           begin(r) == [model |-> acc.state.model[r],
                        o |-> [Ensure(l, b, r, acc.state.model[r], acc.state.opt[r][k]) EXCEPT !.step = @ + 1]]
           stepped == [r \in D |-> StepRefs(l, b, r, begin(r), refs, acc.grads)]
<1>1. refs = Kept(b.refs, {x \in Range(b.refs) : acc.grads[x.p] # NoTensor}) BY DEF RefsOf
<1>2. StepBucket(sh, l, acc, k) =
        IF refs = << >> THEN acc
        ELSE [grads |-> UsedUp(sh, acc.grads, Range(refs)),
              state |-> [model |-> AllGathered(l, b, Range(refs), [r \in DOMAIN stepped |-> stepped[r].model]),
                         opt |-> [r \in DOMAIN stepped |-> [acc.state.opt[r] EXCEPT ![k] = Stored(l, stepped[r].o)]]]]
  BY <1>1, Zenon DEF StepBucket
<1>3. \A r : begin(r) = StartOf(l, b, r, acc.state, k) BY Zenon DEF StartOf, Begun
<1> HIDE DEF begin
<1>4. stepped = swept BY <1>3, Zenon DEF SweptOf
<1>5. DOMAIN stepped = RanksOf(l) OBVIOUS
<1> HIDE DEF stepped
<1>6. [r \in DOMAIN stepped |-> stepped[r].model] = ModelsOf(l, swept) BY <1>4, <1>5, Zenon DEF ModelsOf
<1>7. [r \in DOMAIN stepped |-> [acc.state.opt[r] EXCEPT ![k] = Stored(l, stepped[r].o)]] = OptsOf(l, acc.state.opt, k, swept)
  BY <1>4, <1>5, Zenon DEF OptsOf
<1> HIDE DEF D
<1> QED BY <1>2, <1>6, <1>7, Zenon DEF IsStepped

\* The ranks agree after it.
LEMMA StepBucketAgrees ==
  ASSUME NEW sh, IsShape(sh), NEW l, IsLayout(l), NEW acc, Agreed(sh, l, acc.state.model),
         NEW k \in DOMAIN Buckets(sh, l)
  PROVE  Agreed(sh, l, StepBucket(sh, l, acc, k).state.model)
<1> DEFINE b == Buckets(sh, l)[k]  refs == RefsOf(b, acc.grads)  swept == SweptOf(l, b, k, acc)
           new == ModelsOf(l, swept)  models == acc.state.model
<1>1. BucketIs(sh, b) BY LayoutIsOk DEF LayoutOk
<1>2. b = Buckets(sh, l)[k] /\ refs = RefsOf(b, acc.grads) /\ swept = SweptOf(l, b, k, acc) OBVIOUS
<1>3. DOMAIN models = RanksOf(l) BY DEF Agreed, OverRanks
<1> HIDE DEF b, refs, swept
<1>4. /\ refs = << >> => StepBucket(sh, l, acc, k) = acc
      /\ refs # << >> =>
              StepBucket(sh, l, acc, k) =
                [grads |-> UsedUp(sh, acc.grads, Range(refs)),
                 state |-> [model |-> AllGathered(l, b, Range(refs), new),
                            opt |-> OptsOf(l, acc.state.opt, k, swept)]]
  <2> DEFINE t == StepBucket(sh, l, acc, k)
  <2>1. t = StepBucket(sh, l, acc, k) OBVIOUS
  <2> HIDE DEF t
  <2>2. IsStepped(sh, l, b, k, acc, refs, swept, t) BY <1>2, <1>3, <2>1, StepBucketIs
  <2> QED BY <2>1, <2>2, Zenon DEF IsStepped
<1>5. refs \in Seq(Range(b.refs)) /\ Range(refs) \subseteq Range(b.refs) BY <1>1, <1>2, RefsOfFacts
<1>6. OverRanks(l, new) /\ \A r \in RanksOf(l) : new[r] = swept[r].model BY DEF OverRanks, ModelsOf
<1> HIDE DEF new
<1>7. \A r \in RanksOf(l) : IsModel(sh, new[r]) /\ Apart(sh, new[r], models[r], Range(refs))
  <2> SUFFICES ASSUME NEW r \in RanksOf(l) PROVE IsModel(sh, new[r]) /\ Apart(sh, new[r], models[r], Range(refs)) OBVIOUS
  <2> DEFINE st0 == StartOf(l, b, r, acc.state, k)
  <2>1. swept[r] = StepRefs(l, b, r, st0, refs, acc.grads) BY <1>2 DEF SweptOf
  <2>2. st0.model = models[r] BY DEF StartOf
  <2>3. IsModel(sh, models[r]) BY DEF Agreed
  <2> HIDE DEF st0, models
  <2>4. IsModel(sh, swept[r].model) /\ Apart(sh, swept[r].model, st0.model, Range(refs))
    BY <1>1, <1>5, <2>1, <2>2, <2>3, SweepModel
  <2> QED BY <1>6, <2>2, <2>4
<1>8. Agreed(sh, l, AllGathered(l, b, Range(refs), new))
  <2>1. Agreed(sh, l, models) OBVIOUS
  <2> HIDE DEF models
  <2> QED BY <1>1, <1>5, <1>6, <1>7, <2>1, GatherAgrees
<1> QED BY <1>4, <1>8

\* The ranks agree after a step of all buckets.
LEMMA SteppedAgrees ==
  ASSUME NEW sh, IsShape(sh), NEW l, IsLayout(l), NEW state, Agreed(sh, l, state.model), NEW grads
  PROVE  Agreed(sh, l, Stepped(sh, l, state, grads).model)
<1> DEFINE bs == Buckets(sh, l)
<1>1. Len(bs) \in Nat /\ DOMAIN bs = 1 .. Len(bs) BY LayoutIsOk DEF LayoutOk
<1>2. PICK n \in Nat : n = Len(bs) BY <1>1
<1>3. PICK f : /\ f[0] = [state |-> state, grads |-> grads] /\ Stepped(sh, l, state, grads) = f[n].state
               /\ \A i \in 1 .. n : f[i] = StepBucket(sh, l, f[i - 1], i)
  BY <1>2, SteppedStep
<1> DEFINE T == {m \in 0 .. n : Agreed(sh, l, f[m].state.model)}
<1>4. 0 \in T
  <2>1. f[0].state = state BY <1>3
  <2> QED BY <2>1
<1>5. ASSUME NEW m \in 0 .. n - 1, m \in T PROVE m + 1 \in T
  <2>1. m + 1 \in 1 .. n /\ (m + 1) - 1 = m /\ m + 1 \in 0 .. n OBVIOUS
  <2>2. f[m + 1] = StepBucket(sh, l, f[m], m + 1) BY <1>3, <2>1
  <2>3. Agreed(sh, l, f[m].state.model) BY <1>5
  <2>4. m + 1 \in DOMAIN bs BY <1>1, <1>2, <2>1
  <2>5. Agreed(sh, l, StepBucket(sh, l, f[m], m + 1).state.model) BY <2>3, <2>4, StepBucketAgrees
  <2> QED BY <2>1, <2>2, <2>5
<1> HIDE DEF T
<1>6. 0 .. n \subseteq T BY <1>4, <1>5, IntervalInduction
<1>7. Agreed(sh, l, f[n].state.model) BY <1>6 DEF T
<1> QED BY <1>3, <1>7

-----------------------------------------------------------------------------
(* The masters copied back                                                 *)

IsState(state) == state = [model |-> state.model, opt |-> state.opt]
\* The model of rank r with its masters of a bucket copied into it.
BackOf(l, b, state, k, r) ==
  [p \in DOMAIN state.model[r] |-> [i \in DOMAIN state.model[r][p] |->
          LET x == {y \in Range(b.refs) : /\ y.p = p
                                          /\ i - y.start - SliceOf(l, b, y, r).inRef
                                               \in 0..SliceOf(l, b, y, r).numel-1}
          IN IF x = {} THEN state.model[r][p][i]
             ELSE LET y == CHOOSE y \in x : TRUE
                      s == SliceOf(l, b, y, r)
                  IN Round(state.opt[r][k].master[s.inShard + i - y.start - s.inRef])]]
BacksOf(l, b, state, k) == [r \in RanksOf(l) |-> BackOf(l, b, state, k, r)]

\* The state c has the masters of the bucket copied, those of a bucket that has any.
IsCopy(l, b, state, k, c) ==
  /\ state.opt[0][k].master = NoTensor => c = state
  /\ state.opt[0][k].master # NoTensor =>
       c = [model |-> AllGathered(l, b, Range(b.refs), BacksOf(l, b, state, k)), opt |-> state.opt]

\* _copy_bucket_to_model rounds every rank's masters and then gathers them.
LEMMA CopyIs ==
  ASSUME NEW l, NEW b, NEW state, IsState(state), NEW k, DOMAIN state.model = RanksOf(l),
         NEW c, c = CopyMasterToModel(l, b, state, k)
  PROVE  IsCopy(l, b, state, k, c)
<1> DEFINE D == DOMAIN state.model
           back(r) == [p \in DOMAIN state.model[r] |-> [i \in DOMAIN state.model[r][p] |->
          LET x == {y \in Range(b.refs) : /\ y.p = p
                                          /\ i - y.start - SliceOf(l, b, y, r).inRef
                                               \in 0..SliceOf(l, b, y, r).numel-1}
          IN IF x = {} THEN state.model[r][p][i]
             ELSE LET y == CHOOSE y \in x : TRUE
                      s == SliceOf(l, b, y, r)
                  IN Round(state.opt[r][k].master[s.inShard + i - y.start - s.inRef])]]
           backs == [r \in D |-> back(r)]
           G == AllGathered(l, b, Range(b.refs), backs)
<1>1. CopyMasterToModel(l, b, state, k) = IF state.opt[0][k].master = NoTensor THEN state ELSE [state EXCEPT !.model = G]
  BY Zenon DEF CopyMasterToModel
<1>2. \A r : back(r) = BackOf(l, b, state, k, r) BY Zenon DEF BackOf
<1> HIDE DEF back
<1>3. backs = BacksOf(l, b, state, k) BY <1>2, Zenon DEF BacksOf
<1> HIDE DEF backs
<1>4. [state EXCEPT !.model = G] = [model |-> G, opt |-> state.opt]
  <2> HIDE DEF G
  <2>1. state = [model |-> state.model, opt |-> state.opt] BY DEF IsState
  <2> DEFINE m == state.model  o == state.opt
  <2>2. state = [model |-> m, opt |-> o] BY <2>1
  <2> HIDE DEF m, o
  <2>3. [state EXCEPT !.model = G] = [model |-> G, opt |-> o] BY <2>2
  <2> QED BY <2>3 DEF o
<1>5. c = IF state.opt[0][k].master = NoTensor THEN state ELSE [state EXCEPT !.model = G] BY <1>1
<1>6. G = AllGathered(l, b, Range(b.refs), BacksOf(l, b, state, k)) BY <1>3
<1> HIDE DEF G
<1> QED BY <1>4, <1>5, <1>6 DEF IsCopy

\* Before the gather, a rank wrote what it keeps of the bucket and nothing else.
LEMMA BackIs ==
  ASSUME NEW sh, IsShape(sh), NEW l, IsLayout(l), NEW b, BucketIs(sh, b), NEW state, NEW k, NEW r \in RanksOf(l),
         IsModel(sh, state.model[r]), NEW m, m = BackOf(l, b, state, k, r)
  PROVE  /\ IsModel(sh, m) /\ Apart(sh, m, state.model[r], Range(b.refs))
         /\ \A p \in DOMAIN sh : \A i \in 0 .. sh[p].numel - 1 : \A x \in Range(b.refs) :
              InRef(x, p, i) /\ Has(l, b, r, x, i) => m[p][i] = Round(state.opt[r][k].master[PlaceIn(l, b, r, x, i)])
<1> DEFINE R(p) == 0 .. sh[p].numel - 1  old == state.model[r]
           hit(p, i) == {y \in Range(b.refs) : /\ y.p = p
                                               /\ i - y.start - SliceOf(l, b, y, r).inRef
                                                    \in 0..SliceOf(l, b, y, r).numel-1}
           val(p, i) == IF hit(p, i) = {} THEN old[p][i]
             ELSE LET y == CHOOSE y \in hit(p, i) : TRUE
                      s == SliceOf(l, b, y, r)
                  IN Round(state.opt[r][k].master[s.inShard + i - y.start - s.inRef])
<1>1. m = [p \in DOMAIN old |-> [i \in DOMAIN old[p] |-> val(p, i)]] BY DEF BackOf
<1>2. DOMAIN old = DOMAIN sh /\ \A p \in DOMAIN sh : DOMAIN old[p] = R(p) BY DEF IsModel
<1>r. \A p \in DOMAIN sh : \A i \in R(p) : i \in Int /\ p \in Int BY DEF IsShape
<1>3. ASSUME NEW p \in DOMAIN sh, NEW i \in R(p)
      PROVE  \A y \in Range(b.refs) : y \in hit(p, i) <=> (InRef(y, p, i) /\ Has(l, b, r, y, i))
  <2> SUFFICES ASSUME NEW y \in Range(b.refs) PROVE y \in hit(p, i) <=> (InRef(y, p, i) /\ Has(l, b, r, y, i)) OBVIOUS
  <2>1. i - y.start - SliceOf(l, b, y, r).inRef \in 0 .. SliceOf(l, b, y, r).numel - 1 <=> Has(l, b, r, y, i)
    BY <1>r, SliceElements
  <2> QED BY <2>1 DEF InRef, Has
<1>4. \A p, i : hit(p, i) \subseteq Range(b.refs) OBVIOUS
<1>5. ASSUME NEW p \in DOMAIN sh, NEW i \in R(p), NEW x \in Range(b.refs), InRef(x, p, i), Has(l, b, r, x, i)
      PROVE  val(p, i) = Round(state.opt[r][k].master[PlaceIn(l, b, r, x, i)])
  <2>1. \A y \in Range(b.refs) : InRef(y, p, i) => y = x BY <1>5, <1>r DEF BucketIs
  <2>2. hit(p, i) = {x}
    <3> HIDE DEF hit
    <3> QED BY <1>3, <1>4, <1>5, <2>1
  <2>3. (CHOOSE y \in hit(p, i) : TRUE) = x BY <2>2
  <2>4. hit(p, i) # {} BY <2>2
  <2>5. val(p, i) = Round(state.opt[r][k].master[SliceOf(l, b, x, r).inShard + i - x.start - SliceOf(l, b, x, r).inRef])
    <3> HIDE DEF hit
    <3> QED BY <2>3, <2>4
  <2>6. SliceOf(l, b, x, r).inShard + i - x.start - SliceOf(l, b, x, r).inRef = PlaceIn(l, b, r, x, i)
    BY <1>5, <1>r, SliceElements
  <2> QED BY <2>5, <2>6
<1>6. ASSUME NEW p \in DOMAIN sh, NEW i \in R(p), \A x \in Range(b.refs) : ~InRef(x, p, i)
      PROVE  val(p, i) = old[p][i]
  <2>1. hit(p, i) = {}
    <3> HIDE DEF hit
    <3> QED BY <1>3, <1>4, <1>6
  <2> QED BY <2>1
<1> HIDE DEF R, val, hit
<1>7. m = [p \in DOMAIN sh |-> [i \in R(p) |-> val(p, i)]] BY <1>1, <1>2
<1>8. (\A p \in DOMAIN sh : \A i \in R(p) : m[p][i] = val(p, i)) /\ m = [p \in DOMAIN sh |-> [i \in R(p) |-> m[p][i]]]
  <2>1. \A p \in DOMAIN sh : m[p] = [i \in R(p) |-> val(p, i)] BY <1>7
  <2>2. \A p \in DOMAIN sh : m[p] = [i \in R(p) |-> m[p][i]] BY <2>1
  <2>3. m = [p \in DOMAIN sh |-> m[p]] BY ONLY <1>7
  <2> DEFINE P == [p \in DOMAIN sh |-> [i \in R(p) |-> m[p][i]]]
  <2>4. P = [p \in DOMAIN sh |-> m[p]] BY ONLY <2>2
  <2>5. m = P BY <2>3, <2>4
  <2>6. \A p \in DOMAIN sh : \A i \in R(p) : m[p][i] = val(p, i) BY ONLY <2>1
  <2> QED BY <2>5, <2>6
<1>9. IsModel(sh, m) BY <1>8 DEF IsModel, R
<1>10. Apart(sh, m, old, Range(b.refs)) BY <1>6, <1>8 DEF Apart, R
<1> QED BY <1>5, <1>8, <1>9, <1>10 DEF R

-----------------------------------------------------------------------------
(* The tables that the slices are of                                       *)

\* A number for every element.
IsTable(sh, T) == \A p \in DOMAIN sh : \A i \in 0 .. sh[p].numel - 1 : T[p][i] \in Int
\* The buffer f of rank r has what is in the table new for the chunks H, and in old for the others.
Half(l, b, r, f, H, new, old) ==
  /\ DOMAIN f = BufferOf(l, b, r)
  /\ \A x \in Range(b.refs) : \A i \in Int :
       Has(l, b, r, x, i) => f[PlaceIn(l, b, r, x, i)] = IF x \in H THEN new[x.p][i] ELSE old[x.p][i]

\* An element of a chunk is one of the model.
LEMMA ElementIs ==
  ASSUME NEW sh, IsShape(sh), NEW l, NEW b, BucketIs(sh, b), NEW r, NEW x \in Range(b.refs), NEW i \in Int, Has(l, b, r, x, i)
  PROVE  x.p \in DOMAIN sh /\ i \in 0 .. sh[x.p].numel - 1 /\ InRef(x, x.p, i)
<1>1. IsRef(x) /\ x.p \in DOMAIN sh /\ x.start + x.numel <= sh[x.p].numel BY DEF BucketIs
<1>2. x.start \in Nat /\ x.numel \in Nat /\ sh[x.p].numel \in Nat BY <1>1 DEF IsRef, IsShape
<1>3. i - x.start \in 0 .. x.numel - 1 BY DEF Has
<1>4. i \in 0 .. sh[x.p].numel - 1 BY <1>1, <1>2, <1>3
<1> QED BY <1>1, <1>3, <1>4 DEF InRef

\* The tables with the chunk x stepped by g.
Steps(x, g, A, B, E, F) ==
  \A i \in Int : i - x.start \in 0 .. x.numel - 1 => B[x.p][i] = A[x.p][i] + g /\ F[x.p][i] = E[x.p][i] + B[x.p][i]
\* The model has the rounded table F in the slices of the chunks S that rank r keeps.
RoundedIn(l, b, r, S, m, F) == \A x \in S : \A i \in Int : Has(l, b, r, x, i) => m[x.p][i] = Round(F[x.p][i])

\* The four tables are tables.
AreTables(sh, A, B, E, F) == IsTable(sh, A) /\ IsTable(sh, B) /\ IsTable(sh, E) /\ IsTable(sh, F)
\* The rank's buffers follow the tables in the chunks H.
Follow(l, b, r, o, H, A, B, E, F) ==
  IsOptState(o) /\ Half(l, b, r, o.avg, H, B, A) /\ Half(l, b, r, o.master, H, F, E)

\* A chunk is stepped: the buffers follow the tables in it, and the model too.
LEMMA StepChunk ==
  ASSUME NEW sh, IsShape(sh), NEW l, IsLayout(l), l.kind # "8bit", NEW b, BucketIs(sh, b), NEW r \in RanksOf(l),
         NEW x \in Range(b.refs), NEW H, x \notin H, NEW st, IsModel(sh, st.model), NEW g \in Int,
         NEW A, NEW B, NEW E, NEW F, AreTables(sh, A, B, E, F),
         Follow(l, b, r, st.o, H, A, B, E, F), Steps(x, g, A, B, E, F),
         NEW t, t = StepOne(l, b, r, st, x, g)
  PROVE  Follow(l, b, r, t.o, H \cup {x}, A, B, E, F) /\ RoundedIn(l, b, r, {x}, t.model, F)
<1>0. /\ IsTable(sh, A) /\ IsTable(sh, B) /\ IsTable(sh, E) /\ IsTable(sh, F) /\ IsOptState(st.o)
      /\ Half(l, b, r, st.o.avg, H, B, A) /\ Half(l, b, r, st.o.master, H, F, E)
  BY DEF AreTables, Follow
<1> DEFINE s == SliceOf(l, b, x, r)  avg == Moment(st.o, s, g)  master == NewMaster(l, b, r, st, x, g)
           old == st.o.avg  mold == st.o.master
<1>1. t.o = [master |-> master, avg |-> avg, step |-> st.o.step, onHost |-> st.o.onHost] BY <1>0, StepOneIs
<1>2. IsOptState(t.o) /\ t.o.master = master /\ t.o.avg = avg BY <1>1 DEF IsOptState
<1>3. avg = [k \in DOMAIN old |-> old[k] + (IF InSlice(l, b, r, x, k) THEN g ELSE 0)] BY DEF Moment, InSlice
<1>4. master = [k \in DOMAIN mold |-> mold[k] + (IF InSlice(l, b, r, x, k) THEN avg[k] ELSE 0)] BY DEF NewMaster, InSlice
<1>5. DOMAIN old = BufferOf(l, b, r) /\ DOMAIN mold = BufferOf(l, b, r) BY <1>0 DEF Half
<1>e. \A y \in Range(b.refs) : \A i \in Int : Has(l, b, r, y, i) => y.p \in DOMAIN sh /\ i \in 0 .. sh[y.p].numel - 1
  BY ElementIs
<1>6. ASSUME NEW y \in Range(b.refs), NEW i \in Int, Has(l, b, r, y, i)
      PROVE  /\ avg[PlaceIn(l, b, r, y, i)] = IF y \in H \cup {x} THEN B[y.p][i] ELSE A[y.p][i]
             /\ master[PlaceIn(l, b, r, y, i)] = IF y \in H \cup {x} THEN F[y.p][i] ELSE E[y.p][i]
  <2> DEFINE o == PlaceIn(l, b, r, y, i)
  <2>1. (InSlice(l, b, r, x, o) <=> y = x) /\ o \in BufferOf(l, b, r) BY <1>6, SliceHits
  <2>2. avg[o] = old[o] + (IF y = x THEN g ELSE 0) BY <1>3, <1>5, <2>1
  <2>3. master[o] = mold[o] + (IF y = x THEN avg[o] ELSE 0)
    <3> HIDE DEF o, avg
    <3> QED BY <1>4, <1>5, <2>1
  <2>4. y.p \in DOMAIN sh /\ i \in 0 .. sh[y.p].numel - 1 BY <1>6, <1>e
  <2>5. old[o] = (IF y \in H THEN B[y.p][i] ELSE A[y.p][i]) /\ mold[o] = (IF y \in H THEN F[y.p][i] ELSE E[y.p][i])
    BY <1>0, <1>6 DEF Half
  <2>6. A[y.p][i] \in Int /\ B[y.p][i] \in Int /\ E[y.p][i] \in Int /\ F[y.p][i] \in Int BY <1>0, <2>4 DEF IsTable
  <2> HIDE DEF o, avg, master, old, mold
  <2>7. CASE y = x
    <3>1. B[y.p][i] = A[y.p][i] + g /\ F[y.p][i] = E[y.p][i] + B[y.p][i] BY <1>6, <2>7 DEF Steps, Has
    <3>2. old[o] = A[y.p][i] /\ mold[o] = E[y.p][i] BY <2>5, <2>7
    <3>3. avg[o] = B[y.p][i] BY <2>2, <2>7, <3>1, <3>2
    <3>4. master[o] = F[y.p][i] BY <2>3, <2>7, <3>1, <3>2, <3>3
    <3> QED BY <2>7, <3>3, <3>4 DEF o
  <2>8. CASE y # x
    <3>1. avg[o] = old[o] /\ master[o] = mold[o] BY <2>2, <2>3, <2>5, <2>6, <2>8
    <3>2. y \in H \cup {x} <=> y \in H BY <2>8
    <3> QED BY <2>5, <3>1, <3>2 DEF o
  <2> QED BY <2>7, <2>8
<1>7. DOMAIN avg = BufferOf(l, b, r) /\ DOMAIN master = BufferOf(l, b, r)
  <2>1. DOMAIN avg = BufferOf(l, b, r) BY <1>3, <1>5
  <2> HIDE DEF avg
  <2>2. DOMAIN master = BufferOf(l, b, r) BY <1>4, <1>5
  <2> QED BY <2>1, <2>2
<1> HIDE DEF avg, master
<1>8. Half(l, b, r, avg, H \cup {x}, B, A) /\ Half(l, b, r, master, H \cup {x}, F, E) BY <1>6, <1>7 DEF Half
<1>9. ASSUME NEW i \in Int, Has(l, b, r, x, i) PROVE t.model[x.p][i] = Round(F[x.p][i])
  <2>1. i \in 0 .. sh[x.p].numel - 1 BY <1>9, <1>e
  <2> DEFINE m == t.model
  <2>2. m = StepOne(l, b, r, st, x, g).model OBVIOUS
  <2> HIDE DEF m
  <2>f. FromMasters(sh, l, b, r, st, x, g, m) BY <2>2, StepModel
  <2>3. m[x.p][i] = Round(NewMaster(l, b, r, st, x, g)[PlaceIn(l, b, r, x, i)]) BY <1>9, <2>1, <2>f DEF FromMasters
  <2>4. master[PlaceIn(l, b, r, x, i)] = F[x.p][i] BY <1>6, <1>9
  <2> QED BY <2>3, <2>4 DEF m, master
<1> QED BY <1>2, <1>8, <1>9 DEF RoundedIn, Follow

\* The tables after a step of the chunks of a bucket: those whose parameter has a gradient change.
Followed(b, grads, A, B, E, F) ==
  \A x \in Range(b.refs) : \A i \in Int : i - x.start \in 0 .. x.numel - 1 =>
    /\ grads[x.p] = NoTensor => B[x.p][i] = A[x.p][i] /\ F[x.p][i] = E[x.p][i]
    /\ grads[x.p] # NoTensor => B[x.p][i] = A[x.p][i] + grads[x.p][1] /\ F[x.p][i] = E[x.p][i] + B[x.p][i]

\* A sequence of chunks of a bucket, no two the same, whose parameters have a gradient.
AreRefs(b, refs) ==
  refs \in Seq(Range(b.refs)) /\ \A i \in 1 .. Len(refs) : \A j \in 1 .. Len(refs) : refs[i] = refs[j] => i = j
HaveGradients(refs, grads) == \A x \in Range(refs) : grads[x.p] # NoTensor /\ grads[x.p][1] \in Int

\* The chunks of a bucket are stepped on a rank.
LEMMA Sweep ==
  ASSUME NEW sh, IsShape(sh), NEW l, IsLayout(l), l.kind # "8bit", NEW b, BucketIs(sh, b), NEW r \in RanksOf(l),
         NEW refs, AreRefs(b, refs), NEW grads, HaveGradients(refs, grads),
         NEW st0, IsModel(sh, st0.model),
         NEW A, NEW B, NEW E, NEW F, AreTables(sh, A, B, E, F),
         Follow(l, b, r, st0.o, {}, A, B, E, F), Followed(b, grads, A, B, E, F),
         NEW t, t = StepRefs(l, b, r, st0, refs, grads)
  PROVE  Follow(l, b, r, t.o, Range(refs), A, B, E, F) /\ RoundedIn(l, b, r, Range(refs), t.model, F)
<1>r. refs \in Seq(Range(b.refs)) /\ \A i, j \in 1 .. Len(refs) : refs[i] = refs[j] => i = j BY DEF AreRefs
<1>n. PICK n \in Nat : n = Len(refs)
  <2>1. Len(refs) \in Nat BY <1>r
  <2> QED BY <2>1
<1>0. n \in Nat /\ (\A j \in 1 .. n : refs[j] \in Range(b.refs)) /\ Range(refs) = {refs[j] : j \in 1 .. n} BY <1>r, <1>n DEF Range
<1>a. PICK f : f[0] = st0 /\ StepRefs(l, b, r, st0, refs, grads) = f[n] /\ RefByRef(f, l, b, r, refs, grads, n)
  BY <1>n, RefsStep
<1>1. \A i \in 1 .. n : f[i] = StepOne(l, b, r, f[i - 1], refs[i], grads[refs[i].p][1]) BY <1>a DEF RefByRef
<1> DEFINE Sofar(m) == {refs[j] : j \in 1 .. m}
    Good(m) == /\ IsModel(sh, f[m].model) /\ Follow(l, b, r, f[m].o, Sofar(m), A, B, E, F)
               /\ RoundedIn(l, b, r, Sofar(m), f[m].model, F)
    T == {m \in 0 .. n : Good(m)}
<1>2. 0 \in T
  <2>1. Sofar(0) = {} OBVIOUS
  <2> HIDE DEF Sofar
  <2>2. Good(0) BY <1>a, <2>1 DEF RoundedIn
  <2> QED BY <1>0, <2>2
<1>3. ASSUME NEW m \in 0 .. n - 1, m \in T PROVE m + 1 \in T
  <2>1. m + 1 \in 1 .. n /\ m + 1 \in 0 .. n /\ (m + 1) - 1 = m BY <1>0
  <2>2. Good(m) BY <1>3
  <2> DEFINE x == refs[m + 1]  g == grads[x.p][1]  st == f[m]  u == f[m + 1]
  <2>3. u = StepOne(l, b, r, st, x, g) BY <1>1, <2>1
  <2>4. x \in Range(b.refs) /\ x \in Range(refs) BY <1>0, <2>1
  <2>5. Sofar(m + 1) = Sofar(m) \cup {x}
    <3>1. 1 .. m + 1 = (1 .. m) \cup {m + 1} BY <2>1
    <3> QED BY <3>1
  <2>6. x \notin Sofar(m)
    <3>1. \A j \in 1 .. m : j \in 1 .. n /\ j # m + 1 BY <1>0
    <3> QED BY <1>r, <1>n, <2>1, <3>1
  <2>7. grads[x.p] # NoTensor /\ g \in Int BY <2>4 DEF HaveGradients
  <2>9. Steps(x, g, A, B, E, F) BY <2>4, <2>7 DEF Followed, Steps
  <2> HIDE DEF g, x, Sofar, st, u
  <2>s. /\ IsModel(sh, st.model) /\ Follow(l, b, r, st.o, Sofar(m), A, B, E, F)
        /\ RoundedIn(l, b, r, Sofar(m), st.model, F)
    BY <2>2 DEF st
  <2>10. Follow(l, b, r, u.o, Sofar(m) \cup {x}, A, B, E, F) /\ RoundedIn(l, b, r, {x}, u.model, F)
    <3> DEFINE H == Sofar(m)
    <3>1. IsShape(sh) /\ IsLayout(l) /\ l.kind # "8bit" /\ BucketIs(sh, b) /\ r \in RanksOf(l) OBVIOUS
    <3>2. x \in Range(b.refs) /\ x \notin H /\ IsModel(sh, st.model) /\ g \in Int BY <2>4, <2>6, <2>7, <2>s
    <3>3. AreTables(sh, A, B, E, F) /\ Follow(l, b, r, st.o, H, A, B, E, F) /\ Steps(x, g, A, B, E, F) BY <2>9, <2>s
    <3> HIDE DEF H
    <3>4. Follow(l, b, r, u.o, H \cup {x}, A, B, E, F) BY ONLY <2>3, <3>1, <3>2, <3>3, StepChunk
    <3>5. RoundedIn(l, b, r, {x}, u.model, F) BY ONLY <2>3, <3>1, <3>2, <3>3, StepChunk
    <3> QED BY <3>4, <3>5 DEF H
  <2>11. IsModel(sh, u.model) /\ Apart(sh, u.model, st.model, {x})
    <3> DEFINE m1 == u.model
    <3>1. m1 = StepOne(l, b, r, st, x, g).model BY <2>3
    <3> HIDE DEF m1
    <3>2. IsModel(sh, m1) /\ Apart(sh, m1, st.model, {x}) BY <2>4, <2>s, <3>1, StepModel
    <3> QED BY <3>2 DEF m1
  <2>12. ASSUME NEW y \in Sofar(m), NEW i \in Int, Has(l, b, r, y, i) PROVE u.model[y.p][i] = Round(F[y.p][i])
    <3>1. y \in Range(b.refs)
      <4>1. \A j \in 1 .. m : j \in 1 .. n BY <1>0
      <4> QED BY <1>0, <4>1 DEF Sofar
    <3>2. y.p \in DOMAIN sh /\ i \in 0 .. sh[y.p].numel - 1 /\ InRef(y, y.p, i) BY <2>12, <3>1, ElementIs
    <3>3. ~InRef(x, y.p, i)
      <4>1. y.p \in Int BY <3>2 DEF IsShape
      <4>2. y # x BY <2>6
      <4> QED BY <2>4, <3>1, <3>2, <4>1, <4>2 DEF BucketIs
    <3>4. u.model[y.p][i] = st.model[y.p][i] BY <2>11, <3>2, <3>3 DEF Apart
    <3> QED BY <2>12, <2>s, <3>4 DEF RoundedIn
  <2>13. RoundedIn(l, b, r, Sofar(m + 1), u.model, F) BY <2>5, <2>10, <2>12 DEF RoundedIn
  <2>14. Good(m + 1) BY <2>5, <2>10, <2>11, <2>13 DEF u
  <2> QED BY <2>1, <2>14
<1> HIDE DEF T, Good
<1>4. 0 .. n \subseteq T BY <1>0, <1>2, <1>3, IntervalInduction
<1>5. Good(n) BY <1>0, <1>4 DEF T
<1>6. Sofar(n) = Range(refs) BY <1>0
<1> HIDE DEF Sofar
<1> QED BY <1>a, <1>5, <1>6 DEF Good

-----------------------------------------------------------------------------
(* A group whose ranks agree                                               *)

GroupOk(sh, l, state) == IsState(state) /\ Agreed(sh, l, state.model)

\* A state with another field.
LEMMA StateSet ==
  ASSUME NEW state, IsState(state), NEW v
  PROVE  /\ [state EXCEPT !.opt = v] = [model |-> state.model, opt |-> v]
         /\ [state EXCEPT !.model = v] = [model |-> v, opt |-> state.opt]
<1> DEFINE m == state.model  o == state.opt
<1>1. state = [model |-> m, opt |-> o] BY DEF IsState
<1> HIDE DEF m, o
<1>2. [state EXCEPT !.opt = v] = [model |-> m, opt |-> v] BY <1>1
<1>3. [state EXCEPT !.model = v] = [model |-> v, opt |-> o] BY <1>1
<1> QED BY <1>2, <1>3 DEF m, o

\* A step of one bucket.
LEMMA StepBucketGroup ==
  ASSUME NEW sh, IsShape(sh), NEW l, IsLayout(l), NEW acc, GroupOk(sh, l, acc.state), NEW k \in DOMAIN Buckets(sh, l)
  PROVE  GroupOk(sh, l, StepBucket(sh, l, acc, k).state)
<1> DEFINE b == Buckets(sh, l)[k]  refs == RefsOf(b, acc.grads)  swept == SweptOf(l, b, k, acc)
<1>1. Agreed(sh, l, StepBucket(sh, l, acc, k).state.model) BY StepBucketAgrees DEF GroupOk
<1>2. IsState(StepBucket(sh, l, acc, k).state)
  <2>1. b = Buckets(sh, l)[k] /\ refs = RefsOf(b, acc.grads) /\ swept = SweptOf(l, b, k, acc) OBVIOUS
  <2>2. DOMAIN acc.state.model = RanksOf(l) BY DEF GroupOk, Agreed, OverRanks
  <2> HIDE DEF b, refs, swept
  <2> DEFINE G == AllGathered(l, b, Range(refs), ModelsOf(l, swept))  O == OptsOf(l, acc.state.opt, k, swept)
  <2>3. /\ refs = << >> => StepBucket(sh, l, acc, k) = acc
        /\ refs # << >> => StepBucket(sh, l, acc, k) =
             [grads |-> UsedUp(sh, acc.grads, Range(refs)), state |-> [model |-> G, opt |-> O]]
    <3> DEFINE t == StepBucket(sh, l, acc, k)
    <3>1. t = StepBucket(sh, l, acc, k) OBVIOUS
    <3> HIDE DEF t
    <3>2. IsStepped(sh, l, b, k, acc, refs, swept, t) BY ONLY <2>1, <2>2, <3>1, StepBucketIs
    <3> QED BY <3>1, <3>2, Zenon DEF IsStepped
  <2> HIDE DEF G, O
  <2> QED BY <2>3 DEF IsState, GroupOk
<1> QED BY <1>1, <1>2 DEF GroupOk

\* A step of all buckets.
LEMMA SteppedGroup ==
  ASSUME NEW sh, IsShape(sh), NEW l, IsLayout(l), NEW state, GroupOk(sh, l, state), NEW grads
  PROVE  GroupOk(sh, l, Stepped(sh, l, state, grads))
<1> DEFINE bs == Buckets(sh, l)
<1>1. Len(bs) \in Nat /\ DOMAIN bs = 1 .. Len(bs) BY LayoutIsOk DEF LayoutOk
<1>2. PICK n \in Nat : n = Len(bs) BY <1>1
<1>3. PICK f : /\ f[0] = [state |-> state, grads |-> grads] /\ Stepped(sh, l, state, grads) = f[n].state
               /\ \A i \in 1 .. n : f[i] = StepBucket(sh, l, f[i - 1], i)
  BY <1>2, SteppedStep
<1> DEFINE T == {m \in 0 .. n : GroupOk(sh, l, f[m].state)}
<1>4. 0 \in T
  <2>1. f[0].state = state BY <1>3
  <2> QED BY <2>1
<1>5. ASSUME NEW m \in 0 .. n - 1, m \in T PROVE m + 1 \in T
  <2>1. m + 1 \in 1 .. n /\ (m + 1) - 1 = m /\ m + 1 \in 0 .. n OBVIOUS
  <2>2. f[m + 1] = StepBucket(sh, l, f[m], m + 1) BY <1>3, <2>1
  <2>3. GroupOk(sh, l, f[m].state) BY <1>5
  <2>4. m + 1 \in DOMAIN bs BY <1>1, <1>2, <2>1
  <2>5. GroupOk(sh, l, StepBucket(sh, l, f[m], m + 1).state) BY <2>3, <2>4, StepBucketGroup
  <2> QED BY <2>1, <2>2, <2>5
<1> HIDE DEF T
<1>6. 0 .. n \subseteq T BY <1>4, <1>5, IntervalInduction
<1>7. GroupOk(sh, l, f[n].state) BY <1>6 DEF T
<1> QED BY <1>3, <1>7

\* The masters of one bucket copied into the model.
LEMMA CopyGroup ==
  ASSUME NEW sh, IsShape(sh), NEW l, IsLayout(l), NEW state, GroupOk(sh, l, state), NEW k \in DOMAIN Buckets(sh, l),
         NEW t, t = CopyMasterToModel(l, Buckets(sh, l)[k], state, k)
  PROVE  GroupOk(sh, l, t) /\ t.opt = state.opt
<1> DEFINE b == Buckets(sh, l)[k]  new == BacksOf(l, b, state, k)  models == state.model  G == AllGathered(l, b, Range(b.refs), new)
<1>1. BucketIs(sh, b) BY LayoutIsOk DEF LayoutOk
<1>2. IsState(state) /\ Agreed(sh, l, models) BY DEF GroupOk
<1>3. DOMAIN state.model = RanksOf(l) BY <1>2 DEF Agreed, OverRanks
<1> HIDE DEF b
<1>4. /\ state.opt[0][k].master = NoTensor => t = state
      /\ state.opt[0][k].master # NoTensor => t = [model |-> G, opt |-> state.opt]
  <2>1. t = CopyMasterToModel(l, b, state, k) /\ IsState(state) /\ DOMAIN state.model = RanksOf(l) BY <1>2, <1>3 DEF b
  <2>2. IsCopy(l, b, state, k, t) BY ONLY <2>1, CopyIs
  <2> QED BY <2>2, Zenon DEF IsCopy
<1>5. OverRanks(l, new) /\ \A r \in RanksOf(l) : new[r] = BackOf(l, b, state, k, r) BY DEF OverRanks, BacksOf
<1>6. \A r \in RanksOf(l) : IsModel(sh, new[r]) /\ Apart(sh, new[r], models[r], Range(b.refs))
  <2> HIDE DEF new
  <2> SUFFICES ASSUME NEW r \in RanksOf(l) PROVE IsModel(sh, new[r]) /\ Apart(sh, new[r], models[r], Range(b.refs)) OBVIOUS
  <2> DEFINE m == new[r]
  <2>1. m = BackOf(l, b, state, k, r) /\ IsModel(sh, state.model[r]) BY <1>2, <1>5 DEF Agreed
  <2> HIDE DEF m
  <2>2. IsModel(sh, m) /\ Apart(sh, m, state.model[r], Range(b.refs)) BY <1>1, <2>1, BackIs
  <2> QED BY <2>2 DEF m
<1>7. Agreed(sh, l, G)
  <2> HIDE DEF models, new
  <2> QED BY <1>1, <1>2, <1>5, <1>6, GatherAgrees
<1> HIDE DEF G
<1> QED BY <1>2, <1>4, <1>7 DEF GroupOk, IsState

\* The masters of all buckets copied into the model.
LEMMA CopiedGroup ==
  ASSUME NEW sh, IsShape(sh), NEW l, IsLayout(l), NEW state, GroupOk(sh, l, state)
  PROVE  GroupOk(sh, l, AllCopied(sh, l, state)) /\ AllCopied(sh, l, state).opt = state.opt
<1> DEFINE bs == Buckets(sh, l)
<1>1. Len(bs) \in Nat /\ DOMAIN bs = 1 .. Len(bs) BY LayoutIsOk DEF LayoutOk
<1>2. PICK n \in Nat : n = Len(bs) BY <1>1
<1>3. PICK f : /\ f[0] = state /\ AllCopied(sh, l, state) = f[n]
               /\ \A i \in 1 .. n : f[i] = CopyMasterToModel(l, bs[i], f[i - 1], i)
  BY <1>2, CopiedStep
<1> DEFINE T == {m \in 0 .. n : GroupOk(sh, l, f[m]) /\ f[m].opt = state.opt}
<1>4. 0 \in T BY <1>3
<1>5. ASSUME NEW m \in 0 .. n - 1, m \in T PROVE m + 1 \in T
  <2>1. m + 1 \in 1 .. n /\ (m + 1) - 1 = m /\ m + 1 \in 0 .. n OBVIOUS
  <2>2. f[m + 1] = CopyMasterToModel(l, bs[m + 1], f[m], m + 1) BY <1>3, <2>1
  <2>3. GroupOk(sh, l, f[m]) /\ f[m].opt = state.opt BY <1>5
  <2>4. m + 1 \in DOMAIN bs BY <1>1, <1>2, <2>1
  <2>5. GroupOk(sh, l, f[m + 1]) /\ f[m + 1].opt = f[m].opt
    <3> DEFINE t == f[m + 1]
    <3>1. t = CopyMasterToModel(l, Buckets(sh, l)[m + 1], f[m], m + 1) BY <2>2
    <3> HIDE DEF t
    <3>2. GroupOk(sh, l, t) /\ t.opt = f[m].opt BY <2>3, <2>4, <3>1, CopyGroup
    <3> QED BY <3>2 DEF t
  <2> QED BY <2>1, <2>3, <2>5
<1> HIDE DEF T
<1>6. 0 .. n \subseteq T BY <1>4, <1>5, IntervalInduction
<1>7. GroupOk(sh, l, f[n]) /\ f[n].opt = state.opt BY <1>6 DEF T
<1> QED BY <1>3, <1>7

-----------------------------------------------------------------------------
(* The state of a bucket                                                   *)

\* The buffer f of rank r has what is in the table T.
Full(l, b, r, f, T) ==
  /\ DOMAIN f = BufferOf(l, b, r)
  /\ \A x \in Range(b.refs) : \A i \in Int : Has(l, b, r, x, i) => f[PlaceIn(l, b, r, x, i)] = T[x.p][i]
\* A model is the rounded table.
Rounded(sh, m, E) == \A p \in DOMAIN sh : \A i \in 0 .. sh[p].numel - 1 : m[p][i] = Round(E[p][i])
\* Two tables are one on a bucket.
AgreeOn(b, S, T) == \A x \in Range(b.refs) : \A i \in Int : i - x.start \in 0 .. x.numel - 1 => S[x.p][i] = T[x.p][i]
\* A bucket without state stands for no moments, and for masters that BF16 has dropped nothing of.
Blank(b, E, A) ==
  \A x \in Range(b.refs) : \A i \in Int :
    i - x.start \in 0 .. x.numel - 1 => A[x.p][i] = 0 /\ E[x.p][i] = Widen(Round(E[x.p][i]))
\* The state of the bucket on rank r, and on all ranks: there is none, or the tables' slices.
NoneHeld(o) == o.avg = NoTensor /\ o.master = NoTensor
FullHeld(l, b, r, o, E, A) == Full(l, b, r, o.avg, A) /\ Full(l, b, r, o.master, E)
Held(l, b, k, opt, E, A) ==
  /\ \A r \in RanksOf(l) : IsOptState(opt[r][k])
  /\ \/ Blank(b, E, A) /\ \A r \in RanksOf(l) : NoneHeld(opt[r][k])
     \/ \A r \in RanksOf(l) : FullHeld(l, b, r, opt[r][k], E, A)

\* It is so for other tables that are the same on the bucket.
LEMMA HeldSame ==
  ASSUME NEW l, NEW b, NEW k, NEW opt, NEW E, NEW A, Held(l, b, k, opt, E, A),
         NEW F, AgreeOn(b, F, E), NEW B, AgreeOn(b, B, A),
         NEW new, \A r \in RanksOf(l) : new[r][k] = opt[r][k]
  PROVE  Held(l, b, k, new, F, B)
<1>1. CASE Blank(b, E, A) /\ \A r \in RanksOf(l) : NoneHeld(opt[r][k])
  <2>1. Blank(b, F, B) BY <1>1 DEF Blank, AgreeOn
  <2> QED BY <1>1, <2>1 DEF Held
<1>2. CASE \A r \in RanksOf(l) : FullHeld(l, b, r, opt[r][k], E, A)
  <2>1. ASSUME NEW r \in RanksOf(l) PROVE FullHeld(l, b, r, new[r][k], F, B)
    <3>1. \A x \in Range(b.refs) : \A i \in Int : Has(l, b, r, x, i) => F[x.p][i] = E[x.p][i] /\ B[x.p][i] = A[x.p][i]
      BY DEF AgreeOn, Has
    <3>2. new[r][k] = opt[r][k] /\ FullHeld(l, b, r, opt[r][k], E, A) BY <1>2
    <3>3. Full(l, b, r, opt[r][k].avg, B) BY <3>1, <3>2 DEF FullHeld, Full
    <3>4. Full(l, b, r, opt[r][k].master, F) BY <3>1, <3>2 DEF FullHeld, Full
    <3> QED BY <3>2, <3>3, <3>4 DEF FullHeld
  <2> QED BY <2>1 DEF Held
<1> QED BY <1>1, <1>2 DEF Held

\* _master_from_model: the masters made of a model that is the rounded table.
LEMMA MasterIs ==
  ASSUME NEW sh, IsShape(sh), NEW l, IsLayout(l), NEW b, BucketIs(sh, b), NEW r \in RanksOf(l), NEW m, NEW E, NEW A,
         Blank(b, E, A), Rounded(sh, m, E),
         NEW f, f = MasterFromModel(l, b, r, m)
  PROVE  Full(l, b, r, f, E)
<1> DEFINE at(o) == CHOOSE x \in Range(b.refs) : o - SliceOf(l, b, x, r).inShard \in 0..SliceOf(l, b, x, r).numel-1
           val(o) == LET ref == at(o)
                         s == SliceOf(l, b, ref, r)
                     IN Widen(m[ref.p][ref.start + s.inRef + o - s.inShard])
<1>1. f = [o \in BufferOf(l, b, r) |-> val(o)] BY Zenon DEF MasterFromModel, BufferOf
<1>2. ASSUME NEW x \in Range(b.refs), NEW i \in Int, Has(l, b, r, x, i) PROVE f[PlaceIn(l, b, r, x, i)] = E[x.p][i]
  <2> DEFINE o == PlaceIn(l, b, r, x, i)
  <2>1. o \in BufferOf(l, b, r) BY <1>2, SliceHits
  <2>2. o = PlaceIn(l, b, r, x, i) OBVIOUS
  <2> HIDE DEF o
  <2>3. /\ \A y \in Range(b.refs) : InSlice(l, b, r, y, o) <=> x = y
        /\ x.start + SliceOf(l, b, x, r).inRef + o - SliceOf(l, b, x, r).inShard = i
    BY <1>2, <2>2, ChunkAt
  <2>4. at(o) = x BY <2>3 DEF InSlice
  <2> HIDE DEF at
  <2>5. val(o) = Widen(m[x.p][i]) BY <2>3, <2>4
  <2>6. x.p \in DOMAIN sh /\ i \in 0 .. sh[x.p].numel - 1 BY <1>2, ElementIs
  <2>7. E[x.p][i] = Widen(Round(E[x.p][i])) BY <1>2 DEF Blank, Has
  <2> HIDE DEF val
  <2>8. f[o] = val(o) BY <1>1, <2>1
  <2> QED BY <2>2, <2>5, <2>6, <2>7, <2>8 DEF Rounded
<1> HIDE DEF val
<1>3. DOMAIN f = BufferOf(l, b, r) BY <1>1
<1> QED BY <1>2, <1>3 DEF Full

\* _ensure_bucket_state: there is state then, and it is the tables' slice.
LEMMA Ensured ==
  ASSUME NEW sh, IsShape(sh), NEW l, IsLayout(l), l.kind = "fp32", NEW b, BucketIs(sh, b), NEW r \in RanksOf(l), NEW m,
         NEW E, NEW A, Rounded(sh, m, E),
         NEW o, IsOptState(o), (Blank(b, E, A) /\ NoneHeld(o)) \/ FullHeld(l, b, r, o, E, A),
         NEW t, t = Begun(l, b, r, m, o)
  PROVE  IsOptState(t) /\ FullHeld(l, b, r, t, E, A)
<1> DEFINE zero == [k \in BufferOf(l, b, r) |-> 0]
           avg == IF o.avg = NoTensor THEN zero ELSE o.avg
           made == MasterFromModel(l, b, r, m)
           master == IF o.master = NoTensor THEN made ELSE o.master
           o2 == EnsureMoments(l, b, r, o)  o3 == Ensure(l, b, r, m, o)
<1>1. o2 = [o EXCEPT !.onHost = FALSE, !.avg = IF @ = NoTensor THEN zero ELSE @] BY Zenon DEF EnsureMoments, BufferOf
<1>2. o2 = [master |-> o.master, avg |-> avg, step |-> o.step, onHost |-> FALSE]
  <2> DEFINE a0 == o.master  b0 == o.avg  c0 == o.step  d0 == o.onHost
  <2>1. o = [master |-> a0, avg |-> b0, step |-> c0, onHost |-> d0] BY DEF IsOptState
  <2> HIDE DEF a0, b0, c0, d0, zero, o2
  <2>2. o.avg = b0 BY <2>1
  <2>3. o2 = [master |-> a0, avg |-> IF b0 = NoTensor THEN zero ELSE b0, step |-> c0, onHost |-> FALSE] BY <1>1, <2>1
  <2> QED BY <2>2, <2>3 DEF a0, c0
<1>3. o3 = [o2 EXCEPT !.master = IF l.kind = "fp32" /\ @ = NoTensor THEN made ELSE @] BY Zenon DEF Ensure
<1> HIDE DEF o2, o3, made, zero
<1>4. o3 = [master |-> master, avg |-> avg, step |-> o2.step, onHost |-> o2.onHost]
  <2>1. IsOptState(o2) /\ o2.master = o.master /\ o2.avg = avg BY <1>2 DEF IsOptState
  <2>2. o3 = [o2 EXCEPT !.master = master] BY <1>3, <2>1
  <2> HIDE DEF master, avg
  <2> QED BY <2>1, <2>2, OptStateSet
<1> DEFINE n == o3.step + 1
<1>5. t = [master |-> master, avg |-> avg, step |-> n, onHost |-> o3.onHost]
  <2> HIDE DEF master, avg
  <2>1. IsOptState(o3) /\ o3.master = master /\ o3.avg = avg BY <1>4 DEF IsOptState
  <2>2. t = [o3 EXCEPT !.step = n] BY Zenon DEF o3, Begun
  <2> HIDE DEF n
  <2> QED BY ONLY <2>1, <2>2, OptStateSet
<1>6. IsOptState(t) /\ t.avg = avg /\ t.master = master
  <2> HIDE DEF master, avg, n
  <2> QED BY ONLY <1>5 DEF IsOptState
<1>p. \A x \in Range(b.refs) : \A i \in Int : Has(l, b, r, x, i) => PlaceIn(l, b, r, x, i) \in BufferOf(l, b, r)
  BY SliceHits
<1>7. CASE Blank(b, E, A) /\ NoneHeld(o)
  <2>1. avg = zero /\ master = made BY <1>7 DEF NoneHeld
  <2>2. Full(l, b, r, made, E) BY <1>7, MasterIs DEF made
  <2>3. Full(l, b, r, zero, A)
    <3>2. \A x \in Range(b.refs) : \A i \in Int : Has(l, b, r, x, i) => A[x.p][i] = 0 BY <1>7 DEF Blank, Has
    <3>3. DOMAIN zero = BufferOf(l, b, r) /\ \A k \in BufferOf(l, b, r) : zero[k] = 0 BY DEF zero
    <3> QED BY <1>p, <3>2, <3>3 DEF Full
  <2> QED BY <1>6, <2>1, <2>2, <2>3 DEF FullHeld
<1>8. CASE FullHeld(l, b, r, o, E, A)
  <2>1. Full(l, b, r, o.avg, A) /\ Full(l, b, r, o.master, E) BY <1>8 DEF FullHeld
  <2>2. ASSUME NEW f, Full(l, b, r, f, A) \/ Full(l, b, r, f, E), f = NoTensor PROVE \A x \in Range(b.refs) : \A i \in Int : ~Has(l, b, r, x, i)
    <3>1. DOMAIN f = BufferOf(l, b, r) BY <2>2 DEF Full
    <3>2. DOMAIN f = {} BY <2>2 DEF NoTensor
    <3> QED BY <1>p, <3>1, <3>2
  <2>3. Full(l, b, r, avg, A)
    <3>1. CASE o.avg = NoTensor
      <4>1. \A x \in Range(b.refs) : \A i \in Int : ~Has(l, b, r, x, i) BY <2>1, <2>2, <3>1
      <4>2. DOMAIN zero = BufferOf(l, b, r) BY DEF zero
      <4> QED BY <3>1, <4>1, <4>2 DEF Full
    <3>2. CASE o.avg # NoTensor BY <2>1, <3>2
    <3> QED BY <3>1, <3>2
  <2>4. Full(l, b, r, master, E)
    <3>1. CASE o.master = NoTensor
      <4>1. \A x \in Range(b.refs) : \A i \in Int : ~Has(l, b, r, x, i) BY <2>1, <2>2, <3>1
      <4>2. DOMAIN made = BufferOf(l, b, r) BY DEF made, MasterFromModel, BufferOf
      <4> QED BY <3>1, <4>1, <4>2 DEF Full
    <3>2. CASE o.master # NoTensor BY <2>1, <3>2
    <3> QED BY <3>1, <3>2
  <2> QED BY <1>6, <2>3, <2>4 DEF FullHeld
<1> QED BY <1>6, <1>7, <1>8

-----------------------------------------------------------------------------
(* A group that holds the tables                                           *)

\* Every rank's model is the rounded table.
ModelIs(sh, l, models, E) == \A r \in RanksOf(l) : Rounded(sh, models[r], E)
\* There is a state for every rank and bucket.
OptIs(sh, l, opt) == opt = [r \in RanksOf(l) |-> [k \in DOMAIN Buckets(sh, l) |-> opt[r][k]]]
AllHeld(sh, l, opt, E, A) == \A k \in DOMAIN Buckets(sh, l) : Held(l, Buckets(sh, l)[k], k, opt, E, A)
StateOk(sh, l, state, E, A) ==
  /\ GroupOk(sh, l, state) /\ OptIs(sh, l, state.opt)
  /\ ModelIs(sh, l, state.model, E) /\ AllHeld(sh, l, state.opt, E, A)
Ints(b, grads) == \A x \in Range(b.refs) : grads[x.p] # NoTensor => grads[x.p][1] \in Int

\* A rank steps its slice of a bucket.
LEMMA RankStepped ==
  ASSUME NEW sh, IsShape(sh), NEW l, IsLayout(l), l.kind = "fp32", NEW b, BucketIs(sh, b), NEW r \in RanksOf(l),
         NEW A, NEW B, NEW E, NEW F, AreTables(sh, A, B, E, F),
         NEW m, IsModel(sh, m), Rounded(sh, m, E),
         NEW o, IsOptState(o), (Blank(b, E, A) /\ NoneHeld(o)) \/ FullHeld(l, b, r, o, E, A),
         NEW grads, Ints(b, grads), Followed(b, grads, A, B, E, F),
         NEW refs, refs = RefsOf(b, grads),
         NEW st0, st0.model = m, st0.o = Begun(l, b, r, m, o),
         NEW t, t = StepRefs(l, b, r, st0, refs, grads)
  PROVE  IsOptState(t.o) /\ FullHeld(l, b, r, t.o, F, B) /\ RoundedIn(l, b, r, Range(refs), t.model, F)
<1> DEFINE o0 == st0.o
<1>1. IsOptState(o0) /\ FullHeld(l, b, r, o0, E, A)
  <2>1. o0 = Begun(l, b, r, m, o) OBVIOUS
  <2> HIDE DEF o0
  <2> QED BY <2>1, Ensured
<1>2. Follow(l, b, r, o0, {}, A, B, E, F)
  <2> HIDE DEF o0
  <2>1. Full(l, b, r, o0.avg, A) /\ Full(l, b, r, o0.master, E) BY <1>1 DEF FullHeld
  <2>2. Half(l, b, r, o0.avg, {}, B, A) BY <2>1 DEF Full, Half
  <2>3. Half(l, b, r, o0.master, {}, F, E) BY <2>1 DEF Full, Half
  <2> QED BY <1>1, <2>2, <2>3 DEF Follow
<1>3. /\ AreRefs(b, refs)
      /\ Range(refs) = {x \in Range(b.refs) : grads[x.p] # NoTensor}
  BY RefsOfFacts DEF AreRefs
<1>4. HaveGradients(refs, grads) BY <1>3 DEF Ints, HaveGradients
<1>5. l.kind # "8bit" /\ IsModel(sh, st0.model) /\ Follow(l, b, r, st0.o, {}, A, B, E, F) BY <1>2
<1>6. Follow(l, b, r, t.o, Range(refs), A, B, E, F) /\ RoundedIn(l, b, r, Range(refs), t.model, F)
  <2>1. /\ IsShape(sh) /\ IsLayout(l) /\ BucketIs(sh, b) /\ r \in RanksOf(l) /\ AreTables(sh, A, B, E, F)
        /\ Followed(b, grads, A, B, E, F) /\ t = StepRefs(l, b, r, st0, refs, grads)
    OBVIOUS
  <2> QED BY ONLY <1>3, <1>4, <1>5, <2>1, Sweep
<1>7. IsOptState(t.o) /\ Half(l, b, r, t.o.avg, Range(refs), B, A) /\ Half(l, b, r, t.o.master, Range(refs), F, E)
  BY <1>6 DEF Follow
<1>8. \A x \in Range(b.refs) : x \notin Range(refs) =>
        \A i \in Int : Has(l, b, r, x, i) => B[x.p][i] = A[x.p][i] /\ F[x.p][i] = E[x.p][i]
  BY <1>3 DEF Followed, Has
<1>9. Full(l, b, r, t.o.avg, B)
  <2> DEFINE f == t.o.avg
  <2>1. Half(l, b, r, f, Range(refs), B, A) BY <1>7
  <2> HIDE DEF f
  <2>2. Full(l, b, r, f, B) BY ONLY <1>8, <2>1 DEF Half, Full
  <2> QED BY <2>2 DEF f
<1>10. Full(l, b, r, t.o.master, F)
  <2> DEFINE f == t.o.master
  <2>1. Half(l, b, r, f, Range(refs), F, E) BY <1>7
  <2> HIDE DEF f
  <2>2. Full(l, b, r, f, F) BY ONLY <1>8, <2>1 DEF Half, Full
  <2> QED BY <2>2 DEF f
<1> QED BY <1>6, <1>7, <1>9, <1>10 DEF FullHeld

-----------------------------------------------------------------------------
(* A step keeps the tables                                                 *)

\* Elements of two buckets are not the same.
LEMMA OtherBucket ==
  ASSUME NEW sh, IsShape(sh), NEW l, IsLayout(l), NEW k \in DOMAIN Buckets(sh, l), NEW j \in DOMAIN Buckets(sh, l), j # k,
         NEW E, NEW F, Apart(sh, F, E, Range(Buckets(sh, l)[k].refs))
  PROVE  AgreeOn(Buckets(sh, l)[j], F, E)
<1> DEFINE bs == Buckets(sh, l)
<1>1. LayoutOk(sh, bs) BY LayoutIsOk
<1>2. BucketIs(sh, bs[j]) BY <1>1 DEF LayoutOk
<1>3. \A x \in Range(bs[k].refs) : \A y \in Range(bs[j].refs) : \A p, i \in Int : ~(InRef(x, p, i) /\ InRef(y, p, i))
  BY <1>1 DEF LayoutOk
<1> HIDE DEF bs
<1>4. ASSUME NEW y \in Range(bs[j].refs), NEW i \in Int, i - y.start \in 0 .. y.numel - 1 PROVE F[y.p][i] = E[y.p][i]
  <2>1. IsRef(y) /\ y.p \in DOMAIN sh /\ y.start + y.numel <= sh[y.p].numel BY <1>2 DEF BucketIs
  <2>2. y.start \in Nat /\ y.numel \in Nat /\ sh[y.p].numel \in Nat /\ y.p \in Int BY <2>1 DEF IsRef, IsShape
  <2>3. i \in 0 .. sh[y.p].numel - 1 BY <1>4, <2>1, <2>2
  <2>4. InRef(y, y.p, i) BY <1>4 DEF InRef
  <2>5. \A x \in Range(bs[k].refs) : ~InRef(x, y.p, i) BY <1>3, <2>2, <2>4
  <2> QED BY <2>1, <2>3, <2>5 DEF Apart, bs
<1> QED BY <1>4 DEF AgreeOn, bs

\* A step of one bucket.
LEMMA StepBucketHolds ==
  ASSUME NEW sh, IsShape(sh), NEW l, IsLayout(l), l.kind = "fp32", NEW k \in DOMAIN Buckets(sh, l),
         NEW b, b = Buckets(sh, l)[k], NEW A, NEW B, NEW E, NEW F, AreTables(sh, A, B, E, F),
         NEW acc, StateOk(sh, l, acc.state, E, A), Ints(b, acc.grads), Followed(b, acc.grads, A, B, E, F),
         Apart(sh, F, E, Range(b.refs)), Apart(sh, B, A, Range(b.refs)),
         NEW t, t = StepBucket(sh, l, acc, k)
  PROVE  StateOk(sh, l, t.state, F, B)
<1> DEFINE refs == RefsOf(b, acc.grads)  swept == SweptOf(l, b, k, acc)  new == ModelsOf(l, swept)
           models == acc.state.model  opt == acc.state.opt  G == AllGathered(l, b, Range(refs), new)  O == OptsOf(l, opt, k, swept)
<1>b. BucketIs(sh, b) BY LayoutIsOk DEF LayoutOk
<1>0. /\ GroupOk(sh, l, acc.state) /\ OptIs(sh, l, opt) /\ ModelIs(sh, l, models, E) /\ AllHeld(sh, l, opt, E, A)
  BY DEF StateOk
<1>g. GroupOk(sh, l, t.state) BY <1>0, StepBucketGroup
<1>m. OverRanks(l, models) /\ \A r \in RanksOf(l) : IsModel(sh, models[r]) BY <1>0 DEF GroupOk, Agreed
<1>h. Held(l, b, k, opt, E, A) BY <1>0 DEF AllHeld
<1>o. \A j \in DOMAIN Buckets(sh, l) : j # k => AgreeOn(Buckets(sh, l)[j], F, E) /\ AgreeOn(Buckets(sh, l)[j], B, A)
  BY OtherBucket
<1>r. /\ AreRefs(b, refs) /\ Range(refs) = {x \in Range(b.refs) : acc.grads[x.p] # NoTensor}
      /\ refs = << >> => \A x \in Range(b.refs) : acc.grads[x.p] = NoTensor
  BY <1>b, RefsOfFacts DEF AreRefs
<1>i. \A p \in DOMAIN sh : \A i \in 0 .. sh[p].numel - 1 : i \in Int BY DEF IsShape
<1>e. ASSUME NEW p \in DOMAIN sh, NEW i \in 0 .. sh[p].numel - 1, \A x \in Range(refs) : ~InRef(x, p, i)
      PROVE  F[p][i] = E[p][i] /\ B[p][i] = A[p][i]
  <2>1. CASE \A x \in Range(b.refs) : ~InRef(x, p, i) BY <2>1 DEF Apart
  <2>2. ASSUME NEW x \in Range(b.refs), InRef(x, p, i) PROVE F[p][i] = E[p][i] /\ B[p][i] = A[p][i]
    <3>1. x \notin Range(refs) BY <1>e, <2>2
    <3> HIDE DEF refs
    <3>2. acc.grads[x.p] = NoTensor BY <1>r, <3>1
    <3>3. x.p = p /\ i - x.start \in 0 .. x.numel - 1 /\ i \in Int BY ONLY <1>i, <2>2, p \in DOMAIN sh, i \in 0 .. sh[p].numel - 1 DEF InRef
    <3> QED BY <3>2, <3>3 DEF Followed
  <2> QED BY <2>1, <2>2
<1>1. CASE refs = << >>
  <2>1. t = acc
    <3>1. /\ DOMAIN acc.state.model = RanksOf(l) /\ b = Buckets(sh, l)[k] /\ refs = RefsOf(b, acc.grads)
          /\ swept = SweptOf(l, b, k, acc)
      BY <1>m DEF OverRanks
    <3> HIDE DEF refs, swept
    <3>2. IsStepped(sh, l, b, k, acc, refs, swept, t) BY <3>1, StepBucketIs
    <3> QED BY <1>1, <3>2, Zenon DEF IsStepped
  <2>2. AgreeOn(b, F, E) /\ AgreeOn(b, B, A) BY <1>1, <1>r DEF Followed, AgreeOn
  <2>3. ModelIs(sh, l, models, F)
    <3>1. Range(refs) = {} BY <1>1 DEF Range
    <3>2. \A p \in DOMAIN sh : \A i \in 0 .. sh[p].numel - 1 : F[p][i] = E[p][i] BY <1>e, <3>1
    <3> QED BY <1>0, <3>2 DEF ModelIs, Rounded
  <2>4. AllHeld(sh, l, opt, F, B)
    <3> SUFFICES ASSUME NEW j \in DOMAIN Buckets(sh, l) PROVE Held(l, Buckets(sh, l)[j], j, opt, F, B) BY DEF AllHeld
    <3>1. AgreeOn(Buckets(sh, l)[j], F, E) /\ AgreeOn(Buckets(sh, l)[j], B, A) BY <1>o, <2>2
    <3>2. Held(l, Buckets(sh, l)[j], j, opt, E, A) BY <1>0 DEF AllHeld
    <3>3. \A r \in RanksOf(l) : opt[r][j] = opt[r][j] OBVIOUS
    <3> HIDE DEF opt
    <3> QED BY ONLY <3>1, <3>2, <3>3, HeldSame
  <2> QED BY <1>0, <2>1, <2>3, <2>4 DEF StateOk
<1>2. CASE refs # << >>
  <2>1. t.state = [model |-> G, opt |-> O]
    <3>1. /\ DOMAIN acc.state.model = RanksOf(l) /\ b = Buckets(sh, l)[k] /\ refs = RefsOf(b, acc.grads)
          /\ swept = SweptOf(l, b, k, acc)
      BY <1>m DEF OverRanks
    <3> HIDE DEF refs, swept
    <3>2. IsStepped(sh, l, b, k, acc, refs, swept, t) BY <3>1, StepBucketIs
    <3>3. t = [grads |-> UsedUp(sh, acc.grads, Range(refs)), state |-> [model |-> G, opt |-> O]]
      BY <1>2, <3>2, Zenon DEF IsStepped
    <3> HIDE DEF G, O
    <3> QED BY <3>3
  <2>s. ASSUME NEW r \in RanksOf(l)
        PROVE  /\ IsOptState(swept[r].o) /\ FullHeld(l, b, r, swept[r].o, F, B)
               /\ RoundedIn(l, b, r, Range(refs), swept[r].model, F)
               /\ IsModel(sh, new[r]) /\ Apart(sh, new[r], models[r], Range(refs)) /\ new[r] = swept[r].model
    <3> DEFINE st0 == StartOf(l, b, r, acc.state, k)  u == swept[r]  m == models[r]  o == opt[r][k]
    <3>1. u = StepRefs(l, b, r, st0, refs, acc.grads) BY DEF SweptOf
    <3>2. st0.model = m /\ st0.o = Begun(l, b, r, m, o) BY DEF StartOf
    <3>3. IsModel(sh, m) /\ Rounded(sh, m, E) BY <1>0, <1>m DEF ModelIs
    <3>4. IsOptState(o) /\ ((Blank(b, E, A) /\ NoneHeld(o)) \/ FullHeld(l, b, r, o, E, A)) BY <1>h DEF Held
    <3>5. /\ IsShape(sh) /\ IsLayout(l) /\ l.kind = "fp32" /\ BucketIs(sh, b) /\ r \in RanksOf(l) /\ AreTables(sh, A, B, E, F)
          /\ Ints(b, acc.grads) /\ Followed(b, acc.grads, A, B, E, F) /\ refs = RefsOf(b, acc.grads)
      BY <1>b
    <3>6. new[r] = u.model BY DEF ModelsOf
    <3>7. refs \in Seq(Range(b.refs)) BY <1>r DEF AreRefs
    <3> HIDE DEF st0, u, m, o, refs, new
    <3>8. IsOptState(u.o) /\ FullHeld(l, b, r, u.o, F, B) /\ RoundedIn(l, b, r, Range(refs), u.model, F)
      BY ONLY <3>1, <3>2, <3>3, <3>4, <3>5, RankStepped
    <3>9. IsModel(sh, u.model) /\ Apart(sh, u.model, st0.model, Range(refs))
      BY ONLY <3>1, <3>2, <3>3, <3>5, <3>7, SweepModel
    <3> QED BY <3>2, <3>6, <3>8, <3>9 DEF u, m
  <2>o. OverRanks(l, new) BY DEF OverRanks, ModelsOf
  <2>2. /\ FromKeeper(sh, l, b, Range(refs), G, new) /\ \A r \in RanksOf(l) : Apart(sh, G[r], new[r], Range(refs))
    <3>1. Range(refs) \subseteq Range(b.refs) BY <1>r
    <3>2. \A r \in RanksOf(l) : IsModel(sh, new[r]) BY <2>s
    <3>3. G = AllGathered(l, b, Range(refs), new) OBVIOUS
    <3>4. IsShape(sh) /\ IsLayout(l) /\ BucketIs(sh, b) BY <1>b
    <3> DEFINE S == Range(refs)
    <3> HIDE DEF refs, new, G, S
    <3>5. S \subseteq Range(b.refs) /\ G = AllGathered(l, b, S, new) BY <3>1, <3>3 DEF S
    <3>6. FromKeeper(sh, l, b, S, G, new) /\ \A r \in RanksOf(l) : Apart(sh, G[r], new[r], S)
      BY ONLY <2>o, <3>2, <3>4, <3>5, GatherIs
    <3> QED BY <3>6 DEF S
  <2>3. ModelIs(sh, l, G, F)
    <3> SUFFICES ASSUME NEW r \in RanksOf(l), NEW p \in DOMAIN sh, NEW i \in 0 .. sh[p].numel - 1
        PROVE  G[r][p][i] = Round(F[p][i])
      BY DEF ModelIs, Rounded
    <3> HIDE DEF G, new, refs, swept, models
    <3>1. CASE \A x \in Range(refs) : ~InRef(x, p, i)
      <4>1. G[r][p][i] = new[r][p][i] BY <2>2, <3>1 DEF Apart
      <4>2. new[r][p][i] = models[r][p][i] BY <2>s, <3>1 DEF Apart
      <4>3. models[r][p][i] = Round(E[p][i]) BY <1>0 DEF ModelIs, Rounded
      <4>4. F[p][i] = E[p][i] BY <1>e, <3>1
      <4> QED BY <4>1, <4>2, <4>3, <4>4
    <3>2. ASSUME NEW x \in Range(refs), InRef(x, p, i) PROVE G[r][p][i] = Round(F[p][i])
      <4>1. i \in Int /\ i - x.start \in 0 .. x.numel - 1 /\ x.p = p BY <3>2 DEF InRef, IsShape
      <4>2. x \in Range(b.refs) BY <1>r
      <4>3. PICK q \in RanksOf(l) : Has(l, b, q, x, i) BY <1>b, <4>1, <4>2, ElementKept
      <4>4. G[r][p][i] = new[q][p][i] BY <2>2, <3>2, <4>3 DEF FromKeeper
      <4>5. new[q][x.p][i] = Round(F[x.p][i]) BY <2>s, <4>1, <4>3 DEF RoundedIn
      <4> QED BY <4>1, <4>4, <4>5
    <3> QED BY <3>1, <3>2
  <2>4. \A r \in RanksOf(l) : O[r] = [opt[r] EXCEPT ![k] = swept[r].o] BY DEF OptsOf, Stored
  <2>5. O = [r \in RanksOf(l) |-> O[r]] BY DEF OptsOf
  <2>6. \A r \in RanksOf(l) : opt[r] = [j \in DOMAIN Buckets(sh, l) |-> opt[r][j]] BY <1>0 DEF OptIs
  <2> HIDE DEF O, opt, swept
  <2>7. OptIs(sh, l, O)
    <3>1. \A r \in RanksOf(l) : O[r] = [j \in DOMAIN Buckets(sh, l) |-> O[r][j]] BY <2>4, <2>6
    <3> DEFINE P == [r \in RanksOf(l) |-> [j \in DOMAIN Buckets(sh, l) |-> O[r][j]]]
    <3>2. P = [r \in RanksOf(l) |-> O[r]] BY <3>1
    <3> QED BY <2>5, <3>2 DEF OptIs
  <2>8. \A r \in RanksOf(l) : O[r][k] = swept[r].o /\ \A j \in DOMAIN Buckets(sh, l) : j # k => O[r][j] = opt[r][j]
    BY <2>4, <2>6
  <2>9. AllHeld(sh, l, O, F, B)
    <3> SUFFICES ASSUME NEW j \in DOMAIN Buckets(sh, l) PROVE Held(l, Buckets(sh, l)[j], j, O, F, B) BY DEF AllHeld
    <3>1. CASE j = k
      <4>1. \A r \in RanksOf(l) : IsOptState(O[r][k]) /\ FullHeld(l, b, r, O[r][k], F, B) BY <2>8, <2>s
      <4> QED BY <3>1, <4>1 DEF Held
    <3>2. CASE j # k
      <4>1. AgreeOn(Buckets(sh, l)[j], F, E) /\ AgreeOn(Buckets(sh, l)[j], B, A) BY <1>o, <3>2
      <4>2. Held(l, Buckets(sh, l)[j], j, opt, E, A) BY <1>0 DEF AllHeld, opt
      <4>3. \A r \in RanksOf(l) : O[r][j] = opt[r][j] BY <2>8, <3>2
      <4> QED BY ONLY <4>1, <4>2, <4>3, HeldSame
    <3> QED BY <3>1, <3>2
  <2> HIDE DEF G
  <2> QED BY <1>g, <2>1, <2>3, <2>7, <2>9 DEF StateOk
<1> QED BY <1>1, <1>2

-----------------------------------------------------------------------------
(* A step of all buckets                                                   *)

\* Two tables are one.
SameTable(sh, S, T) == \A p \in DOMAIN sh : \A i \in 0 .. sh[p].numel - 1 : S[p][i] = T[p][i]
\* The element is in one of the first m buckets; the table new there and old elsewhere.
Past(sh, l, m, p, i) == \E k \in 1 .. m : \E x \in Range(Buckets(sh, l)[k].refs) : InRef(x, p, i)
Mixed(sh, l, m, new, old) ==
  [p \in DOMAIN sh |-> [i \in 0 .. sh[p].numel - 1 |-> IF Past(sh, l, m, p, i) THEN new[p][i] ELSE old[p][i]]]
\* The tables after a step: the parameters that have a gradient change.
TablesStep(sh, grads, A, B, E, F) ==
  \A p \in DOMAIN sh : \A i \in 0 .. sh[p].numel - 1 :
    /\ grads[p] = NoTensor => B[p][i] = A[p][i] /\ F[p][i] = E[p][i]
    /\ grads[p] # NoTensor => B[p][i] = A[p][i] + grads[p][1] /\ F[p][i] = E[p][i] + B[p][i]
\* The gradients of the chunks after the first m buckets are there still.
GradsLeft(sh, l, m, left, grads) ==
  /\ DOMAIN left = DOMAIN sh
  /\ \A j \in DOMAIN Buckets(sh, l) : j > m => \A x \in Range(Buckets(sh, l)[j].refs) : left[x.p] = grads[x.p]

\* An element of a chunk is one of the model.
LEMMA ChunkElement ==
  ASSUME NEW sh, IsShape(sh), NEW b, BucketIs(sh, b), NEW x \in Range(b.refs), NEW i \in Int, i - x.start \in 0 .. x.numel - 1
  PROVE  x.p \in DOMAIN sh /\ i \in 0 .. sh[x.p].numel - 1 /\ InRef(x, x.p, i)
<1>1. IsRef(x) /\ x.p \in DOMAIN sh /\ x.start + x.numel <= sh[x.p].numel BY DEF BucketIs
<1>2. x.start \in Nat /\ x.numel \in Nat /\ sh[x.p].numel \in Nat BY <1>1 DEF IsRef, IsShape
<1>4. i \in 0 .. sh[x.p].numel - 1 BY <1>1, <1>2
<1> QED BY <1>1, <1>4 DEF InRef

\* A group holds other tables that are the same.
LEMMA StateSame ==
  ASSUME NEW sh, IsShape(sh), NEW l, IsLayout(l), NEW state, NEW E, NEW A, StateOk(sh, l, state, E, A),
         NEW F, SameTable(sh, F, E), NEW B, SameTable(sh, B, A)
  PROVE  StateOk(sh, l, state, F, B)
<1>1. ModelIs(sh, l, state.model, F) BY DEF StateOk, ModelIs, Rounded, SameTable
<1>2. AllHeld(sh, l, state.opt, F, B)
  <2> SUFFICES ASSUME NEW j \in DOMAIN Buckets(sh, l) PROVE Held(l, Buckets(sh, l)[j], j, state.opt, F, B) BY DEF AllHeld
  <2> DEFINE b == Buckets(sh, l)[j]  opt == state.opt
  <2>1. BucketIs(sh, b) BY LayoutIsOk DEF LayoutOk
  <2> HIDE DEF b
  <2>2. AgreeOn(b, F, E) /\ AgreeOn(b, B, A) BY <2>1, ChunkElement DEF SameTable, AgreeOn
  <2>3. Held(l, b, j, opt, E, A) BY DEF StateOk, AllHeld, b
  <2>4. \A r \in RanksOf(l) : opt[r][j] = opt[r][j] OBVIOUS
  <2> HIDE DEF opt
  <2>5. Held(l, b, j, opt, F, B) BY ONLY <2>2, <2>3, <2>4, HeldSame
  <2> QED BY <2>5 DEF b, opt
<1> QED BY <1>1, <1>2 DEF StateOk

\* Tables for the mixed tables.
LEMMA MixedIs ==
  ASSUME NEW sh, NEW l, NEW m, NEW new, NEW old, IsTable(sh, new), IsTable(sh, old), NEW T, T = Mixed(sh, l, m, new, old)
  PROVE  /\ IsTable(sh, T)
         /\ \A p \in DOMAIN sh : \A i \in 0 .. sh[p].numel - 1 :
              T[p][i] = IF Past(sh, l, m, p, i) THEN new[p][i] ELSE old[p][i]
<1>1. \A p \in DOMAIN sh : \A i \in 0 .. sh[p].numel - 1 :
        T[p][i] = IF Past(sh, l, m, p, i) THEN new[p][i] ELSE old[p][i]
  BY DEF Mixed
<1> QED BY <1>1 DEF IsTable

\* Of the mixed tables, those after the next bucket.
LEMMA MixedStep ==
  ASSUME NEW sh, IsShape(sh), NEW l, IsLayout(l), NEW m \in Nat, m + 1 \in DOMAIN Buckets(sh, l),
         NEW new, NEW old, IsTable(sh, new), IsTable(sh, old),
         NEW S, S = Mixed(sh, l, m, new, old), NEW T, T = Mixed(sh, l, m + 1, new, old), NEW b, b = Buckets(sh, l)[m + 1]
  PROVE  Apart(sh, T, S, Range(b.refs)) /\ AgreeOn(b, S, old) /\ AgreeOn(b, T, new)
<1> DEFINE bs == Buckets(sh, l)
<1>1. LayoutOk(sh, bs) BY LayoutIsOk
<1>b. BucketIs(sh, b) BY <1>1 DEF LayoutOk
<1>d. DOMAIN bs = 1 .. Len(bs) /\ Len(bs) \in Nat BY <1>1 DEF LayoutOk
<1>2. \A k, o \in DOMAIN bs : \A x \in Range(bs[k].refs) : \A y \in Range(bs[o].refs) : \A p, i \in Int :
        InRef(x, p, i) /\ InRef(y, p, i) => k = o
  BY <1>1 DEF LayoutOk
<1>3. b = bs[m + 1] /\ m + 1 \in DOMAIN bs OBVIOUS
<1>4. /\ \A p \in DOMAIN sh : \A i \in 0 .. sh[p].numel - 1 : S[p][i] = IF Past(sh, l, m, p, i) THEN new[p][i] ELSE old[p][i]
      /\ \A p \in DOMAIN sh : \A i \in 0 .. sh[p].numel - 1 : T[p][i] = IF Past(sh, l, m + 1, p, i) THEN new[p][i] ELSE old[p][i]
  BY MixedIs
<1>5. \A p, i : Past(sh, l, m + 1, p, i) <=> Past(sh, l, m, p, i) \/ \E x \in Range(b.refs) : InRef(x, p, i)
  <2>1. 1 .. m + 1 = (1 .. m) \cup {m + 1} OBVIOUS
  <2> QED BY <1>3, <2>1 DEF Past
<1>6. Apart(sh, T, S, Range(b.refs)) BY <1>4, <1>5 DEF Apart
<1> HIDE DEF bs
<1>7. ASSUME NEW x \in Range(b.refs), NEW i \in Int, i - x.start \in 0 .. x.numel - 1
      PROVE  S[x.p][i] = old[x.p][i] /\ T[x.p][i] = new[x.p][i]
  <2>1. x.p \in DOMAIN sh /\ i \in 0 .. sh[x.p].numel - 1 /\ InRef(x, x.p, i) BY <1>b, <1>7, ChunkElement
  <2>2. x.p \in Int BY <2>1 DEF IsShape
  <2>3. ~Past(sh, l, m, x.p, i)
    <3> SUFFICES ASSUME NEW k \in 1 .. m, NEW y \in Range(bs[k].refs), InRef(y, x.p, i) PROVE FALSE BY DEF Past, bs
    <3>1. k \in DOMAIN bs /\ k # m + 1 BY <1>3, <1>d
    <3> QED BY <1>2, <1>3, <2>1, <2>2, <3>1
  <2>4. Past(sh, l, m + 1, x.p, i) BY <1>5, <2>1
  <2> QED BY <1>4, <2>1, <2>3, <2>4
<1> QED BY <1>6, <1>7 DEF AgreeOn

\* A gradient is there until its parameter's last chunk.
LEMMA GradsStay ==
  ASSUME NEW sh, IsShape(sh), NEW l, IsLayout(l), NEW m \in Nat, m + 1 \in DOMAIN Buckets(sh, l), NEW grads,
         NEW acc, GradsLeft(sh, l, m, acc.grads, grads), DOMAIN acc.state.model = RanksOf(l)
  PROVE  GradsLeft(sh, l, m + 1, StepBucket(sh, l, acc, m + 1).grads, grads)
<1> DEFINE bs == Buckets(sh, l)  k == m + 1  b == bs[k]  refs == RefsOf(b, acc.grads)  swept == SweptOf(l, b, k, acc)
           left == acc.grads  t == StepBucket(sh, l, acc, k)
<1>1. LayoutOk(sh, bs) BY LayoutIsOk
<1>b. BucketIs(sh, b) BY <1>1 DEF LayoutOk
<1>2. /\ DOMAIN bs = 1 .. Len(bs) /\ Len(bs) \in Nat /\ \A j \in DOMAIN bs : BucketIs(sh, bs[j])
      /\ \A o, j \in DOMAIN bs : \A x \in Range(bs[o].refs) : \A y \in Range(bs[j].refs) :
           o < j /\ x.p = y.p => x.start + x.numel # sh[x.p].numel
  BY <1>1 DEF LayoutOk
<1>3. IsStepped(sh, l, b, k, acc, refs, swept, t)
  <2>1. b = Buckets(sh, l)[k] /\ refs = RefsOf(b, acc.grads) /\ swept = SweptOf(l, b, k, acc) /\ t = StepBucket(sh, l, acc, k)
    OBVIOUS
  <2> HIDE DEF b, refs, swept, t
  <2> QED BY <2>1, StepBucketIs
<1>4. Range(refs) \subseteq Range(b.refs) BY <1>b, RefsOfFacts
<1> HIDE DEF refs, swept, t
<1>5. t.grads = left \/ t.grads = UsedUp(sh, left, Range(refs)) BY <1>3 DEF IsStepped
<1>6. DOMAIN left = DOMAIN sh /\ \A j \in DOMAIN bs : j > m => \A y \in Range(bs[j].refs) : left[y.p] = grads[y.p]
  BY DEF GradsLeft
<1> HIDE DEF left
<1>7. DOMAIN t.grads = DOMAIN sh BY <1>5, <1>6 DEF UsedUp
<1>8. ASSUME NEW j \in DOMAIN bs, j > k, NEW y \in Range(bs[j].refs) PROVE t.grads[y.p] = grads[y.p]
  <2>1. left[y.p] = grads[y.p] BY <1>2, <1>6, <1>8
  <2>2. y.p \in DOMAIN left
    <3>1. BucketIs(sh, bs[j]) BY <1>2
    <3> QED BY <1>6, <3>1 DEF BucketIs
  <2>3. k \in DOMAIN bs /\ k < j BY <1>2, <1>8
  <2>4. \A x \in Range(refs) : x.p = y.p => x.start + x.numel # sh[y.p].numel BY <1>2, <1>4, <2>3
  <2>5. UsedUp(sh, left, Range(refs))[y.p] = left[y.p] BY <2>2, <2>4 DEF UsedUp
  <2> QED BY <1>5, <2>1, <2>5
<1> QED BY <1>7, <1>8 DEF GradsLeft, t

\* A step of all buckets.
LEMMA SteppedHolds ==
  ASSUME NEW sh, IsShape(sh), NEW l, IsLayout(l), l.kind = "fp32",
         NEW A, NEW B, NEW E, NEW F, AreTables(sh, A, B, E, F),
         NEW state, StateOk(sh, l, state, E, A),
         NEW grads, DOMAIN grads = DOMAIN sh, \A p \in DOMAIN sh : grads[p] # NoTensor => grads[p][1] \in Int,
         TablesStep(sh, grads, A, B, E, F)
  PROVE  StateOk(sh, l, Stepped(sh, l, state, grads), F, B)
<1> DEFINE bs == Buckets(sh, l)  e(m) == Mixed(sh, l, m, F, E)  a(m) == Mixed(sh, l, m, B, A)
<1>1. LayoutOk(sh, bs) BY LayoutIsOk
<1>2. Len(bs) \in Nat /\ DOMAIN bs = 1 .. Len(bs) BY <1>1 DEF LayoutOk
<1>3. PICK n \in Nat : n = Len(bs) BY <1>2
<1>4. PICK f : /\ f[0] = [state |-> state, grads |-> grads] /\ Stepped(sh, l, state, grads) = f[n].state
               /\ \A i \in 1 .. n : f[i] = StepBucket(sh, l, f[i - 1], i)
  BY <1>3, SteppedStep
<1>t. IsTable(sh, A) /\ IsTable(sh, B) /\ IsTable(sh, E) /\ IsTable(sh, F) BY DEF AreTables
<1>5. ASSUME NEW m
      PROVE  /\ IsTable(sh, e(m)) /\ IsTable(sh, a(m))
             /\ \A p \in DOMAIN sh : \A i \in 0 .. sh[p].numel - 1 : e(m)[p][i] = IF Past(sh, l, m, p, i) THEN F[p][i] ELSE E[p][i]
             /\ \A p \in DOMAIN sh : \A i \in 0 .. sh[p].numel - 1 : a(m)[p][i] = IF Past(sh, l, m, p, i) THEN B[p][i] ELSE A[p][i]
  BY <1>t, MixedIs
<1> DEFINE Good(m) == StateOk(sh, l, f[m].state, e(m), a(m)) /\ GradsLeft(sh, l, m, f[m].grads, grads)
           T == {m \in 0 .. n : Good(m)}
<1>6. 0 \in T
  <2>1. f[0].state = state /\ f[0].grads = grads BY <1>4
  <2>2. \A p, i : ~Past(sh, l, 0, p, i) BY DEF Past
  <2>3. SameTable(sh, e(0), E) /\ SameTable(sh, a(0), A) BY <1>5, <2>2 DEF SameTable
  <2> HIDE DEF e, a
  <2>4. StateOk(sh, l, state, e(0), a(0)) BY <2>3, StateSame
  <2>5. GradsLeft(sh, l, 0, grads, grads) BY DEF GradsLeft
  <2> QED BY <2>1, <2>4, <2>5
<1>7. ASSUME NEW m \in 0 .. n - 1, m \in T PROVE m + 1 \in T
  <2>1. m + 1 \in 1 .. n /\ (m + 1) - 1 = m /\ m + 1 \in 0 .. n /\ m \in Nat OBVIOUS
  <2>2. f[m + 1] = StepBucket(sh, l, f[m], m + 1) BY <1>4, <2>1
  <2>3. Good(m) BY <1>7
  <2>4. m + 1 \in DOMAIN bs BY <1>2, <1>3, <2>1
  <2> DEFINE acc == f[m]  t == f[m + 1]  b == bs[m + 1]  k == m + 1  E1 == e(m)  A1 == a(m)  E2 == e(m + 1)  A2 == a(m + 1)
  <2>5. /\ Apart(sh, E2, E1, Range(b.refs)) /\ AgreeOn(b, E1, E) /\ AgreeOn(b, E2, F)
        /\ Apart(sh, A2, A1, Range(b.refs)) /\ AgreeOn(b, A1, A) /\ AgreeOn(b, A2, B)
    BY <1>t, <2>1, <2>4, MixedStep
  <2>6. AreTables(sh, A1, A2, E1, E2) BY <1>5 DEF AreTables
  <2>b. BucketIs(sh, b) BY <1>1, <2>4 DEF LayoutOk
  <2>7. StateOk(sh, l, acc.state, E1, A1) /\ GradsLeft(sh, l, m, acc.grads, grads) BY <2>3
  <2>8. \A x \in Range(b.refs) : acc.grads[x.p] = grads[x.p] BY <2>1, <2>4, <2>7 DEF GradsLeft
  <2>e. /\ t = StepBucket(sh, l, acc, k) /\ k \in DOMAIN Buckets(sh, l) /\ b = Buckets(sh, l)[k] BY <2>2, <2>4
  <2> HIDE DEF acc, t, b, E1, E2, A1, A2, bs, k
  <2>9. \A x \in Range(b.refs) : x.p \in DOMAIN sh BY <2>b DEF BucketIs
  <2>10. Ints(b, acc.grads) BY <2>8, <2>9 DEF Ints
  <2>11. Followed(b, acc.grads, A1, A2, E1, E2)
    <3> SUFFICES ASSUME NEW x \in Range(b.refs), NEW i \in Int, i - x.start \in 0 .. x.numel - 1
        PROVE  /\ acc.grads[x.p] = NoTensor => A2[x.p][i] = A1[x.p][i] /\ E2[x.p][i] = E1[x.p][i]
               /\ acc.grads[x.p] # NoTensor => A2[x.p][i] = A1[x.p][i] + acc.grads[x.p][1] /\ E2[x.p][i] = E1[x.p][i] + A2[x.p][i]
      BY DEF Followed
    <3>1. E1[x.p][i] = E[x.p][i] /\ E2[x.p][i] = F[x.p][i] /\ A1[x.p][i] = A[x.p][i] /\ A2[x.p][i] = B[x.p][i]
      BY <2>5 DEF AgreeOn
    <3>2. x.p \in DOMAIN sh /\ i \in 0 .. sh[x.p].numel - 1 BY <2>b, ChunkElement
    <3>3. acc.grads[x.p] = grads[x.p] BY <2>8
    <3>4. /\ grads[x.p] = NoTensor => B[x.p][i] = A[x.p][i] /\ F[x.p][i] = E[x.p][i]
          /\ grads[x.p] # NoTensor => B[x.p][i] = A[x.p][i] + grads[x.p][1] /\ F[x.p][i] = E[x.p][i] + B[x.p][i]
      BY <3>2 DEF TablesStep
    <3> QED BY <3>1, <3>3, <3>4
  <2>12. StateOk(sh, l, t.state, E2, A2)
    <3>1. IsShape(sh) /\ IsLayout(l) /\ l.kind = "fp32" OBVIOUS
    <3> QED BY ONLY <2>5, <2>6, <2>7, <2>10, <2>11, <2>e, <3>1, StepBucketHolds
  <2>13. GradsLeft(sh, l, m + 1, t.grads, grads)
    <3>1. DOMAIN acc.state.model = RanksOf(l) BY <2>7 DEF StateOk, GroupOk, Agreed, OverRanks
    <3>2. m + 1 \in DOMAIN Buckets(sh, l) /\ t = StepBucket(sh, l, acc, m + 1) BY <2>e DEF k
    <3> QED BY <2>1, <2>7, <3>1, <3>2, GradsStay
  <2>14. Good(m + 1) BY <2>12, <2>13 DEF t, E2, A2
  <2> QED BY <2>1, <2>14
<1> HIDE DEF T
<1>8. 0 .. n \subseteq T BY <1>6, <1>7, IntervalInduction
<1>9. Good(n) BY <1>8 DEF T
<1>10. \A p \in DOMAIN sh : \A i \in 0 .. sh[p].numel - 1 : Past(sh, l, n, p, i)
  BY <1>1, <1>2, <1>3 DEF LayoutOk, Past
<1>11. SameTable(sh, F, e(n)) /\ SameTable(sh, B, a(n)) BY <1>5, <1>10 DEF SameTable
<1> DEFINE s == f[n].state  E2 == e(n)  A2 == a(n)
<1>12. StateOk(sh, l, s, E2, A2) /\ SameTable(sh, F, E2) /\ SameTable(sh, B, A2) BY <1>9, <1>11
<1> HIDE DEF s, E2, A2
<1>13. StateOk(sh, l, s, F, B) BY <1>12, StateSame
<1> QED BY <1>4, <1>13 DEF s
-----------------------------------------------------------------------------
(* The other operations                                                    *)

\* The masters of a bucket copied into the model that is the rounded table: it stays.
LEMMA CopyHolds ==
  ASSUME NEW sh, IsShape(sh), NEW l, IsLayout(l), NEW k \in DOMAIN Buckets(sh, l), NEW E, NEW A,
         NEW state, StateOk(sh, l, state, E, A), NEW t, t = CopyMasterToModel(l, Buckets(sh, l)[k], state, k)
  PROVE  StateOk(sh, l, t, E, A)
<1> DEFINE b == Buckets(sh, l)[k]  new == BacksOf(l, b, state, k)  models == state.model  opt == state.opt
           G == AllGathered(l, b, Range(b.refs), new)
<1>b. BucketIs(sh, b) BY LayoutIsOk DEF LayoutOk
<1>0. /\ GroupOk(sh, l, state) /\ OptIs(sh, l, opt) /\ ModelIs(sh, l, models, E) /\ AllHeld(sh, l, opt, E, A)
  BY DEF StateOk
<1>g. GroupOk(sh, l, t) /\ t.opt = opt BY <1>0, CopyGroup
<1>m. OverRanks(l, models) /\ (\A r \in RanksOf(l) : IsModel(sh, models[r])) /\ IsState(state) BY <1>0 DEF GroupOk, Agreed
<1>c. IsCopy(l, b, state, k, t)
  <2>1. t = CopyMasterToModel(l, b, state, k) /\ DOMAIN state.model = RanksOf(l) /\ IsState(state) BY <1>m DEF OverRanks
  <2> HIDE DEF b
  <2> QED BY ONLY <2>1, CopyIs
<1>h. Held(l, b, k, opt, E, A) BY <1>0 DEF AllHeld
<1>s. IsShape(sh) /\ IsLayout(l) OBVIOUS
<1> HIDE DEF b
<1>1. CASE state.opt[0][k].master = NoTensor
  <2>1. t = state BY <1>1, <1>c DEF IsCopy
  <2> QED BY <2>1
<1>2. CASE state.opt[0][k].master # NoTensor
  <2>1. t = [model |-> G, opt |-> opt] BY <1>2, <1>c DEF IsCopy
  <2>2. \A r \in RanksOf(l) : FullHeld(l, b, r, opt[r][k], E, A)
    <3>1. 0 \in RanksOf(l) BY DEF RanksOf, IsLayout
    <3>2. opt[0][k].master # NoTensor BY <1>2
    <3> HIDE DEF opt
    <3>3. ~NoneHeld(opt[0][k]) BY <3>2 DEF NoneHeld
    <3> QED BY <1>h, <3>1, <3>3 DEF Held
  <2>o. OverRanks(l, new) /\ \A r \in RanksOf(l) : new[r] = BackOf(l, b, state, k, r) BY DEF OverRanks, BacksOf
  <2> HIDE DEF new
  <2>3. ASSUME NEW r \in RanksOf(l)
        PROVE  /\ IsModel(sh, new[r]) /\ Apart(sh, new[r], models[r], Range(b.refs))
               /\ \A p \in DOMAIN sh : \A i \in 0 .. sh[p].numel - 1 : \A x \in Range(b.refs) :
                    InRef(x, p, i) /\ Has(l, b, r, x, i) => new[r][p][i] = Round(E[p][i])
    <3> DEFINE m == new[r]  f == opt[r][k].master
    <3>1. m = BackOf(l, b, state, k, r) /\ IsModel(sh, state.model[r]) BY <1>m, <2>o
    <3>2. Full(l, b, r, f, E) BY <2>2 DEF FullHeld
    <3> HIDE DEF m
    <3>3. /\ IsModel(sh, m) /\ Apart(sh, m, state.model[r], Range(b.refs))
          /\ \A p \in DOMAIN sh : \A i \in 0 .. sh[p].numel - 1 : \A x \in Range(b.refs) :
               InRef(x, p, i) /\ Has(l, b, r, x, i) => m[p][i] = Round(state.opt[r][k].master[PlaceIn(l, b, r, x, i)])
      BY <1>b, <3>1, BackIs
    <3>4. \A p \in DOMAIN sh : \A i \in 0 .. sh[p].numel - 1 : \A x \in Range(b.refs) :
               InRef(x, p, i) /\ Has(l, b, r, x, i) => m[p][i] = Round(f[PlaceIn(l, b, r, x, i)])
      BY <3>3
    <3> HIDE DEF f
    <3>5. \A p \in DOMAIN sh : \A i \in 0 .. sh[p].numel - 1 : \A x \in Range(b.refs) :
            InRef(x, p, i) /\ Has(l, b, r, x, i) => m[p][i] = Round(E[p][i])
      <4>1. \A p \in DOMAIN sh : \A i \in 0 .. sh[p].numel - 1 : i \in Int BY DEF IsShape
      <4> QED BY <3>2, <3>4, <4>1 DEF Full, InRef
    <3> QED BY <3>3, <3>5 DEF m
  <2>4. FromKeeper(sh, l, b, Range(b.refs), G, new) /\ \A r \in RanksOf(l) : Apart(sh, G[r], new[r], Range(b.refs))
    <3>1. \A r \in RanksOf(l) : IsModel(sh, new[r]) BY <2>3
    <3> DEFINE S == Range(b.refs)
    <3>2. G = AllGathered(l, b, S, new) /\ S \subseteq Range(b.refs) OBVIOUS
    <3> HIDE DEF G, S
    <3>3. FromKeeper(sh, l, b, S, G, new) /\ \A r \in RanksOf(l) : Apart(sh, G[r], new[r], S)
      BY ONLY <1>b, <1>s, <2>o, <3>1, <3>2, GatherIs
    <3> QED BY <3>3 DEF S
  <2> HIDE DEF G, models, opt
  <2>5. ModelIs(sh, l, G, E)
    <3> SUFFICES ASSUME NEW r \in RanksOf(l), NEW p \in DOMAIN sh, NEW i \in 0 .. sh[p].numel - 1
        PROVE  G[r][p][i] = Round(E[p][i])
      BY DEF ModelIs, Rounded
    <3>1. CASE \A x \in Range(b.refs) : ~InRef(x, p, i)
      <4>1. G[r][p][i] = new[r][p][i] BY <2>4, <3>1 DEF Apart
      <4>2. new[r][p][i] = models[r][p][i] BY <2>3, <3>1 DEF Apart
      <4>3. models[r][p][i] = Round(E[p][i]) BY <1>0 DEF ModelIs, Rounded
      <4> QED BY <4>1, <4>2, <4>3
    <3>2. ASSUME NEW x \in Range(b.refs), InRef(x, p, i) PROVE G[r][p][i] = Round(E[p][i])
      <4>1. i \in Int /\ i - x.start \in 0 .. x.numel - 1 BY <3>2 DEF InRef, IsShape
      <4>2. PICK q \in RanksOf(l) : Has(l, b, q, x, i) BY <1>b, <4>1, ElementKept
      <4>3. G[r][p][i] = new[q][p][i] BY <2>4, <3>2, <4>2 DEF FromKeeper
      <4> QED BY <2>3, <3>2, <4>2, <4>3
    <3> QED BY <3>1, <3>2
  <2>6. t.model = G BY <2>1
  <2> QED BY <1>0, <1>g, <2>5, <2>6 DEF StateOk
<1> QED BY <1>1, <1>2

\* The masters of all buckets.
LEMMA CopiedHolds ==
  ASSUME NEW sh, IsShape(sh), NEW l, IsLayout(l), NEW E, NEW A, NEW state, StateOk(sh, l, state, E, A)
  PROVE  StateOk(sh, l, AllCopied(sh, l, state), E, A)
<1> DEFINE bs == Buckets(sh, l)
<1>1. Len(bs) \in Nat /\ DOMAIN bs = 1 .. Len(bs) BY LayoutIsOk DEF LayoutOk
<1>2. PICK n \in Nat : n = Len(bs) BY <1>1
<1>3. PICK f : /\ f[0] = state /\ AllCopied(sh, l, state) = f[n]
               /\ \A i \in 1 .. n : f[i] = CopyMasterToModel(l, bs[i], f[i - 1], i)
  BY <1>2, CopiedStep
<1> DEFINE T == {m \in 0 .. n : StateOk(sh, l, f[m], E, A)}
<1>4. 0 \in T BY <1>3
<1>5. ASSUME NEW m \in 0 .. n - 1, m \in T PROVE m + 1 \in T
  <2>1. m + 1 \in 1 .. n /\ (m + 1) - 1 = m /\ m + 1 \in 0 .. n OBVIOUS
  <2>2. f[m + 1] = CopyMasterToModel(l, bs[m + 1], f[m], m + 1) BY <1>3, <2>1
  <2>3. StateOk(sh, l, f[m], E, A) BY <1>5
  <2>4. m + 1 \in DOMAIN bs BY <1>1, <1>2, <2>1
  <2>5. StateOk(sh, l, f[m + 1], E, A)
    <3> DEFINE t == f[m + 1]
    <3>1. t = CopyMasterToModel(l, Buckets(sh, l)[m + 1], f[m], m + 1) BY <2>2
    <3> HIDE DEF t
    <3>2. StateOk(sh, l, t, E, A) BY <2>3, <2>4, <3>1, CopyHolds
    <3> QED BY <3>2 DEF t
  <2> QED BY <2>1, <2>5
<1> HIDE DEF T
<1>6. 0 .. n \subseteq T BY <1>4, <1>5, IntervalInduction
<1>7. StateOk(sh, l, f[n], E, A) BY <1>6 DEF T
<1> QED BY <1>3, <1>7

\* A state for the same ranks and buckets.
LikeOpt(opt, O) ==
  /\ O = [r \in DOMAIN opt |-> O[r]]
  /\ \A r \in DOMAIN opt : O[r] = [k \in DOMAIN opt[r] |-> O[r][k]]

\* It is a state of the same layout.
LEMMA OptMapped ==
  ASSUME NEW sh, NEW l, NEW opt, OptIs(sh, l, opt), NEW O, LikeOpt(opt, O)
  PROVE  /\ DOMAIN opt = RanksOf(l) /\ \A r \in RanksOf(l) : DOMAIN opt[r] = DOMAIN Buckets(sh, l)
         /\ OptIs(sh, l, O)
<1> DEFINE K == DOMAIN Buckets(sh, l)  R == RanksOf(l)
<1>1. opt = [r \in R |-> [k \in K |-> opt[r][k]]] BY DEF OptIs
<1> HIDE DEF K, R
<1>2. DOMAIN opt = R /\ \A r \in R : DOMAIN opt[r] = K BY ONLY <1>1
<1>3. O = [r \in R |-> O[r]] /\ \A r \in R : O[r] = [k \in K |-> O[r][k]] BY <1>2 DEF LikeOpt
<1> DEFINE P == [r \in R |-> [k \in K |-> O[r][k]]]
<1>7. P = [r \in R |-> O[r]] BY ONLY <1>3
<1>8. O = [r \in R |-> [k \in K |-> O[r][k]]] BY <1>3, <1>7
<1> QED BY <1>2, <1>8 DEF OptIs, R, K

\* A group with other states of its buckets.
LEMMA WithOpt ==
  ASSUME NEW sh, NEW l, NEW state, GroupOk(sh, l, state), NEW O, NEW t, t = [state EXCEPT !.opt = O]
  PROVE  GroupOk(sh, l, t) /\ t.model = state.model /\ t.opt = O
<1>1. IsState(state) BY DEF GroupOk
<1>2. t = [model |-> state.model, opt |-> O] BY <1>1, StateSet
<1>3. t.model = state.model /\ t.opt = O /\ t = [model |-> t.model, opt |-> t.opt] BY <1>2
<1> QED BY <1>3 DEF GroupOk, IsState

\* States that differ in where they are hold the same.
Elsewhere(o, u) == \E v : u = [o EXCEPT !.onHost = v]

\* A move to the host or back changes nothing that is held.
LEMMA HeldElsewhere ==
  ASSUME NEW sh, NEW l, NEW opt, NEW E, NEW A, AllHeld(sh, l, opt, E, A), NEW O,
         \A r \in RanksOf(l) : \A k \in DOMAIN Buckets(sh, l) : Elsewhere(opt[r][k], O[r][k])
  PROVE  AllHeld(sh, l, O, E, A)
<1> SUFFICES ASSUME NEW k \in DOMAIN Buckets(sh, l), NEW b, b = Buckets(sh, l)[k] PROVE Held(l, b, k, O, E, A)
  BY DEF AllHeld
<1>1. Held(l, b, k, opt, E, A) BY DEF AllHeld
<1>2. ASSUME NEW r \in RanksOf(l)
      PROVE  IsOptState(O[r][k]) /\ O[r][k].avg = opt[r][k].avg /\ O[r][k].master = opt[r][k].master
  <2> DEFINE o == opt[r][k]  u == O[r][k]
  <2>0. Elsewhere(o, u) OBVIOUS
  <2>2. IsOptState(o) BY <1>1 DEF Held
  <2> HIDE DEF o, u
  <2>1. PICK v : u = [o EXCEPT !.onHost = v] BY ONLY <2>0 DEF Elsewhere
  <2>3. u = [master |-> o.master, avg |-> o.avg, step |-> o.step, onHost |-> v] BY ONLY <2>1, <2>2, OptStateSet
  <2>4. IsOptState(u) /\ u.avg = o.avg /\ u.master = o.master BY ONLY <2>3 DEF IsOptState
  <2> QED BY <2>4 DEF o, u
<1>3. CASE Blank(b, E, A) /\ \A r \in RanksOf(l) : NoneHeld(opt[r][k])
  <2>1. \A r \in RanksOf(l) : NoneHeld(O[r][k]) BY <1>2, <1>3 DEF NoneHeld
  <2> QED BY <1>2, <1>3, <2>1 DEF Held
<1>4. CASE \A r \in RanksOf(l) : FullHeld(l, b, r, opt[r][k], E, A)
  <2>1. \A r \in RanksOf(l) : FullHeld(l, b, r, O[r][k], E, A) BY <1>2, <1>4 DEF FullHeld
  <2> QED BY <1>2, <2>1 DEF Held
<1> QED BY <1>1, <1>3, <1>4 DEF Held

\* offload_state, onload_state, and the state taken back from a checkpoint.
Moved(opt, v) == [r \in DOMAIN opt |-> [k \in DOMAIN opt[r] |-> [opt[r][k] EXCEPT !.onHost = v[r][k]]]]

\* What is moved holds the same masters and moments.
LEMMA MovedHolds ==
  ASSUME NEW sh, NEW l, NEW state, NEW E, NEW A, StateOk(sh, l, state, E, A), NEW v,
         NEW t, t = [state EXCEPT !.opt = Moved(state.opt, v)]
  PROVE  StateOk(sh, l, t, E, A)
<1> DEFINE opt == state.opt  O == Moved(opt, v)
<1>0. /\ GroupOk(sh, l, state) /\ OptIs(sh, l, opt) /\ ModelIs(sh, l, state.model, E) /\ AllHeld(sh, l, opt, E, A)
  BY DEF StateOk
<1>3. t = [state EXCEPT !.opt = O] OBVIOUS
<1> HIDE DEF opt
<1>f. /\ LikeOpt(opt, O)
      /\ \A r \in DOMAIN opt : \A k \in DOMAIN opt[r] : O[r][k] = [opt[r][k] EXCEPT !.onHost = v[r][k]]
  <2> DEFINE one(r, k) == [opt[r][k] EXCEPT !.onHost = v[r][k]]  row(r) == [k \in DOMAIN opt[r] |-> one(r, k)]
  <2>1. O = [r \in DOMAIN opt |-> row(r)] BY Zenon DEF Moved
  <2>2. \A r : row(r) = [k \in DOMAIN opt[r] |-> one(r, k)] OBVIOUS
  <2> HIDE DEF one, row, O
  <2>3. \A r \in DOMAIN opt : O[r] = row(r) BY ONLY <2>1
  <2>4. \A r \in DOMAIN opt : O[r] = [k \in DOMAIN opt[r] |-> one(r, k)] BY <2>2, <2>3
  <2>5. \A r \in DOMAIN opt : \A k \in DOMAIN opt[r] : O[r][k] = one(r, k) BY ONLY <2>4
  <2>6. \A r \in DOMAIN opt : O[r] = [k \in DOMAIN opt[r] |-> O[r][k]] BY ONLY <2>4
  <2>7. O = [r \in DOMAIN opt |-> O[r]] BY ONLY <2>1
  <2>8. LikeOpt(opt, O) BY <2>6, <2>7 DEF LikeOpt
  <2> QED BY <2>5, <2>8 DEF one
<1> HIDE DEF O
<1>4. /\ DOMAIN opt = RanksOf(l) /\ \A r \in RanksOf(l) : DOMAIN opt[r] = DOMAIN Buckets(sh, l)
      /\ OptIs(sh, l, O)
  BY <1>0, <1>f, OptMapped
<1>5. ASSUME NEW r \in RanksOf(l), NEW k \in DOMAIN Buckets(sh, l) PROVE Elsewhere(opt[r][k], O[r][k])
  <2>1. r \in DOMAIN opt /\ k \in DOMAIN opt[r] BY <1>4
  <2>2. O[r][k] = [opt[r][k] EXCEPT !.onHost = v[r][k]] BY <1>f, <2>1, Zenon
  <2> QED BY <2>2, Zenon DEF Elsewhere
<1>6. AllHeld(sh, l, O, E, A) BY ONLY <1>0, <1>5, HeldElsewhere
<1>7. GroupOk(sh, l, t) /\ t.model = state.model /\ t.opt = O BY ONLY <1>0, <1>3, WithOpt
<1> QED BY <1>0, <1>4, <1>6, <1>7 DEF StateOk, opt

\* clear_state: the moments go, and of the masters what BF16 drops.
Cleared(opt) == [r \in DOMAIN opt |-> [k \in DOMAIN opt[r] |-> NoState]]
RoundedTable(sh, E) == [p \in DOMAIN sh |-> [i \in 0 .. sh[p].numel - 1 |-> Widen(Round(E[p][i]))]]
ZeroTable(sh) == [p \in DOMAIN sh |-> [i \in 0 .. sh[p].numel - 1 |-> 0]]
\* BF16 to FP32 and back is the same.
LEMMA WidenRound == ASSUME NEW x \in Int PROVE Round(x) \in Int /\ Round(Widen(x)) = x
BY DEF Round, Widen
\* Tables of a model without optimizer state.
LEMMA BlankTables ==
  ASSUME NEW sh, IsShape(sh), NEW E, IsTable(sh, E)
  PROVE  /\ IsTable(sh, RoundedTable(sh, E)) /\ IsTable(sh, ZeroTable(sh))
         /\ \A b : BucketIs(sh, b) => Blank(b, RoundedTable(sh, E), ZeroTable(sh))
         /\ \A p \in DOMAIN sh : \A i \in 0 .. sh[p].numel - 1 : Round(RoundedTable(sh, E)[p][i]) = Round(E[p][i])
<1> DEFINE F == RoundedTable(sh, E)  Z == ZeroTable(sh)
<1>1. \A p \in DOMAIN sh : \A i \in 0 .. sh[p].numel - 1 : F[p][i] = Widen(Round(E[p][i])) /\ Z[p][i] = 0
  BY DEF RoundedTable, ZeroTable
<1>2. \A p \in DOMAIN sh : \A i \in 0 .. sh[p].numel - 1 : Round(E[p][i]) \in Int /\ Round(Widen(Round(E[p][i]))) = Round(E[p][i])
  BY WidenRound DEF IsTable
<1> HIDE DEF F, Z
<1>3. \A p \in DOMAIN sh : \A i \in 0 .. sh[p].numel - 1 : F[p][i] \in Int /\ Round(F[p][i]) = Round(E[p][i])
  BY <1>1, <1>2 DEF Widen
<1>4. IsTable(sh, F) /\ IsTable(sh, Z) BY <1>1, <1>3 DEF IsTable
<1>5. ASSUME NEW b, BucketIs(sh, b) PROVE Blank(b, F, Z)
  <2> SUFFICES ASSUME NEW x \in Range(b.refs), NEW i \in Int, i - x.start \in 0 .. x.numel - 1
      PROVE  Z[x.p][i] = 0 /\ F[x.p][i] = Widen(Round(F[x.p][i]))
    BY DEF Blank
  <2>1. x.p \in DOMAIN sh /\ i \in 0 .. sh[x.p].numel - 1 BY <1>5, ChunkElement
  <2> QED BY <1>1, <1>3, <2>1
<1> QED BY <1>3, <1>4, <1>5 DEF F, Z

\* Without state, every bucket is blank.
LEMMA NothingHeld ==
  ASSUME NEW sh, IsShape(sh), NEW l, IsLayout(l), NEW O, NEW E, NEW A,
         \A b : BucketIs(sh, b) => Blank(b, E, A),
         \A r \in RanksOf(l) : \A k \in DOMAIN Buckets(sh, l) : O[r][k] = NoState
  PROVE  AllHeld(sh, l, O, E, A)
<1> SUFFICES ASSUME NEW k \in DOMAIN Buckets(sh, l), NEW b, b = Buckets(sh, l)[k] PROVE Held(l, b, k, O, E, A)
  BY DEF AllHeld
<1>1. Blank(b, E, A)
  <2>1. BucketIs(sh, b) BY LayoutIsOk DEF LayoutOk
  <2> QED BY <2>1
<1>2. \A r \in RanksOf(l) : O[r][k] = NoState OBVIOUS
<1>3. IsOptState(NoState) /\ NoneHeld(NoState) BY DEF NoState, IsOptState, NoneHeld
<1> QED BY <1>1, <1>2, <1>3 DEF Held

\* What is cleared holds the masters that the model rounds to, and no moments.
LEMMA ClearedHolds ==
  ASSUME NEW sh, IsShape(sh), NEW l, IsLayout(l), NEW state, NEW E, NEW A, IsTable(sh, E), StateOk(sh, l, state, E, A),
         NEW t, t = [state EXCEPT !.opt = Cleared(state.opt)]
  PROVE  StateOk(sh, l, t, RoundedTable(sh, E), ZeroTable(sh))
<1> DEFINE opt == state.opt  O == Cleared(opt)  F == RoundedTable(sh, E)  Z == ZeroTable(sh)
<1>0. GroupOk(sh, l, state) /\ OptIs(sh, l, opt) /\ ModelIs(sh, l, state.model, E) BY DEF StateOk
<1>3. t = [state EXCEPT !.opt = O] OBVIOUS
<1> HIDE DEF opt
<1>f. LikeOpt(opt, O) /\ \A r \in DOMAIN opt : \A k \in DOMAIN opt[r] : O[r][k] = NoState
  <2> DEFINE row(r) == [k \in DOMAIN opt[r] |-> NoState]
  <2>1. O = [r \in DOMAIN opt |-> row(r)] BY Zenon DEF Cleared
  <2>2. \A r : row(r) = [k \in DOMAIN opt[r] |-> NoState] OBVIOUS
  <2> HIDE DEF row, O
  <2>3. \A r \in DOMAIN opt : O[r] = row(r) BY ONLY <2>1
  <2>4. \A r \in DOMAIN opt : O[r] = [k \in DOMAIN opt[r] |-> NoState] BY <2>2, <2>3
  <2>5. \A r \in DOMAIN opt : \A k \in DOMAIN opt[r] : O[r][k] = NoState BY ONLY <2>4
  <2>6. \A r \in DOMAIN opt : O[r] = [k \in DOMAIN opt[r] |-> O[r][k]] BY ONLY <2>4
  <2>7. O = [r \in DOMAIN opt |-> O[r]] BY ONLY <2>1
  <2> QED BY <2>5, <2>6, <2>7 DEF LikeOpt
<1>b. /\ \A b : BucketIs(sh, b) => Blank(b, F, Z)
      /\ \A p \in DOMAIN sh : \A i \in 0 .. sh[p].numel - 1 : Round(F[p][i]) = Round(E[p][i])
  BY BlankTables
<1> HIDE DEF O, F, Z
<1>4. /\ DOMAIN opt = RanksOf(l) /\ \A r \in RanksOf(l) : DOMAIN opt[r] = DOMAIN Buckets(sh, l)
      /\ OptIs(sh, l, O)
  BY <1>0, <1>f, OptMapped
<1>5. AllHeld(sh, l, O, F, Z)
  <2>1. \A r \in RanksOf(l) : \A k \in DOMAIN Buckets(sh, l) : O[r][k] = NoState BY <1>4, <1>f
  <2> QED BY <1>b, <2>1, NothingHeld
<1>6. ModelIs(sh, l, state.model, F) BY <1>0, <1>b DEF ModelIs, Rounded
<1>7. GroupOk(sh, l, t) /\ t.model = state.model /\ t.opt = O BY ONLY <1>0, <1>3, WithOpt
<1> QED BY <1>4, <1>5, <1>6, <1>7 DEF StateOk, F, Z

\* A group that starts.
WideTable(sh) == [p \in DOMAIN sh |-> [i \in 0 .. sh[p].numel - 1 |-> Widen(Weights(sh)[p][i])]]

\* It holds the weights, widened, and no moments.
LEMMA FreshHolds ==
  ASSUME NEW sh, IsShape(sh), NEW l, IsLayout(l)
  PROVE  /\ IsTable(sh, WideTable(sh)) /\ IsTable(sh, ZeroTable(sh))
         /\ StateOk(sh, l, Fresh(sh, l, Weights(sh)), WideTable(sh), ZeroTable(sh))
<1> DEFINE W == Weights(sh)  F == WideTable(sh)  Z == ZeroTable(sh)  t == Fresh(sh, l, W)
           M == [r \in RanksOf(l) |-> W]  O == [r \in RanksOf(l) |-> [k \in DOMAIN Buckets(sh, l) |-> NoState]]
<1>1. W = [p \in DOMAIN sh |-> [i \in 0 .. sh[p].numel - 1 |-> 10 * p + i]] BY DEF Weights
<1>2. \A p \in DOMAIN sh : \A i \in 0 .. sh[p].numel - 1 : W[p][i] \in Int
  <2>1. \A p \in DOMAIN sh : \A i \in 0 .. sh[p].numel - 1 : 10 * p + i \in Int BY DEF IsShape
  <2> HIDE DEF W
  <2> QED BY <1>1, <2>1
<1>3. IsModel(sh, W) BY <1>1 DEF IsModel
<1>4. \A p \in DOMAIN sh : \A i \in 0 .. sh[p].numel - 1 : F[p][i] = Widen(W[p][i]) /\ Z[p][i] = 0 BY DEF WideTable, ZeroTable
<1>5. t = [model |-> M, opt |-> O] BY Zenon DEF Fresh, RanksOf
<1> HIDE DEF W, F, Z, t
<1>6. \A p \in DOMAIN sh : \A i \in 0 .. sh[p].numel - 1 :
        F[p][i] \in Int /\ Round(F[p][i]) = W[p][i] /\ F[p][i] = Widen(Round(F[p][i]))
  <2>1. \A p \in DOMAIN sh : \A i \in 0 .. sh[p].numel - 1 : Round(Widen(W[p][i])) = W[p][i] /\ Widen(W[p][i]) \in Int
    BY <1>2, WidenRound DEF Widen
  <2> QED BY <1>4, <2>1
<1>7. IsTable(sh, F) /\ IsTable(sh, Z) BY <1>4, <1>6 DEF IsTable
<1>8. ASSUME NEW b, BucketIs(sh, b) PROVE Blank(b, F, Z)
  <2> SUFFICES ASSUME NEW x \in Range(b.refs), NEW i \in Int, i - x.start \in 0 .. x.numel - 1
      PROVE  Z[x.p][i] = 0 /\ F[x.p][i] = Widen(Round(F[x.p][i]))
    BY DEF Blank
  <2>1. x.p \in DOMAIN sh /\ i \in 0 .. sh[x.p].numel - 1 BY <1>8, ChunkElement
  <2> QED BY <1>4, <1>6, <2>1
<1>9. \A r \in RanksOf(l) : M[r] = W OBVIOUS
<1>10. OverRanks(l, M) BY DEF OverRanks
<1>11. \A r \in RanksOf(l) : \A k \in DOMAIN Buckets(sh, l) : O[r][k] = NoState OBVIOUS
<1>12. OptIs(sh, l, O) BY DEF OptIs
<1> HIDE DEF M, O
<1>13. t.model = M /\ t.opt = O /\ IsState(t) BY <1>5 DEF IsState
<1>14. Agreed(sh, l, M) BY <1>3, <1>9, <1>10 DEF Agreed
<1>15. ModelIs(sh, l, M, F) BY <1>6, <1>9 DEF ModelIs, Rounded
<1>16. AllHeld(sh, l, O, F, Z) BY <1>8, <1>11, NothingHeld
<1>17. StateOk(sh, l, t, F, Z) BY <1>12, <1>13, <1>14, <1>15, <1>16 DEF StateOk, GroupOk
<1> QED BY <1>7, <1>17 DEF t, F, Z, W

\* The states mapped by offload_state and onload_state.
ParkedAll(state, host) == MapOpt(state, LAMBDA o : Parked(o, host))

\* offload_state and onload_state only move states.
LEMMA ParkedIs ==
  ASSUME NEW state, NEW host
  PROVE  \E v : ParkedAll(state, host) = [state EXCEPT !.opt = Moved(state.opt, v)]
<1> DEFINE opt == state.opt  at(o) == host /\ o.avg # NoTensor
           v == [r \in DOMAIN opt |-> [k \in DOMAIN opt[r] |-> at(opt[r][k])]]
           one(o) == Parked(o, host)
           O == [r \in DOMAIN opt |-> [k \in DOMAIN opt[r] |-> one(opt[r][k])]]
           row(r) == [k \in DOMAIN opt[r] |-> one(opt[r][k])]
           rown(r) == [k \in DOMAIN opt[r] |-> [opt[r][k] EXCEPT !.onHost = v[r][k]]]
<1>1. ParkedAll(state, host) = [state EXCEPT !.opt = O] BY Zenon DEF ParkedAll, MapOpt
<1>2. \A o : one(o) = [o EXCEPT !.onHost = at(o)] BY Zenon DEF Parked
<1> HIDE DEF at, one
<1>3. \A r \in DOMAIN opt : \A k \in DOMAIN opt[r] : v[r][k] = at(opt[r][k])
  <2> HIDE DEF opt
  <2> QED OBVIOUS
<1> HIDE DEF v
<1>4. \A r \in DOMAIN opt : \A k \in DOMAIN opt[r] : one(opt[r][k]) = [opt[r][k] EXCEPT !.onHost = v[r][k]]
  BY <1>2, <1>3, Zenon
<1>5. \A r \in DOMAIN opt : row(r) = rown(r) BY <1>4, Zenon
<1>6. O = [r \in DOMAIN opt |-> row(r)] /\ Moved(opt, v) = [r \in DOMAIN opt |-> rown(r)] BY Zenon DEF Moved
<1> HIDE DEF row, rown, O
<1>7. O = Moved(opt, v) BY <1>5, <1>6, Zenon
<1> QED BY <1>1, <1>7, Zenon

\* The states mapped by clear_state.
ClearedAll(state) == MapOpt(state, LAMBDA o : NoState)

\* clear_state leaves every bucket without a state.
LEMMA ClearedIs ==
  ASSUME NEW state
  PROVE  ClearedAll(state) = [state EXCEPT !.opt = Cleared(state.opt)]
BY Zenon DEF ClearedAll, MapOpt, Cleared

\* The states of a checkpoint.
LEMMA RestoredIs ==
  ASSUME NEW sh, NEW l, IsLayout(l), saved # NoTensor, GroupOk(sh, l, saved.ranks)
  PROVE  \E v : Restored = [saved.ranks EXCEPT !.opt = Moved(saved.ranks.opt, v)]
<1> DEFINE s == saved.ranks  M == [r \in DOMAIN s.model |-> s.model[0]]  t == [s EXCEPT !.model = M]
<1>1. M = s.model
  <2> DEFINE m == s.model
  <2>1. Agreed(sh, l, m) BY DEF GroupOk
  <2>2. 0 \in RanksOf(l) BY DEF RanksOf, IsLayout
  <2> HIDE DEF m
  <2>3. DOMAIN m = RanksOf(l) /\ m = [r \in RanksOf(l) |-> m[r]] /\ \A r \in RanksOf(l) : m[r] = m[0]
    BY <2>1, <2>2 DEF Agreed, OverRanks
  <2>4. [r \in DOMAIN m |-> m[0]] = m BY ONLY <2>3
  <2> QED BY <2>4 DEF m
<1>2. t = s
  <2>1. IsState(s) BY DEF GroupOk
  <2>2. t = [s EXCEPT !.model = s.model] BY <1>1
  <2> HIDE DEF s
  <2>3. t = [model |-> s.model, opt |-> s.opt] BY <2>1, <2>2, StateSet
  <2> QED BY <2>1, <2>3 DEF IsState
<1>3. Restored = MapOpt(t, LAMBDA o : [o EXCEPT !.onHost = FALSE]) BY Zenon DEF Restored
<1> HIDE DEF t, s
<1>4. Restored = MapOpt(s, LAMBDA o : [o EXCEPT !.onHost = FALSE]) BY <1>2, <1>3, Zenon
<1> DEFINE opt == s.opt  no == FALSE  one(o) == [o EXCEPT !.onHost = no]
           O == [r \in DOMAIN opt |-> [k \in DOMAIN opt[r] |-> one(opt[r][k])]]
           v == [r \in DOMAIN opt |-> [k \in DOMAIN opt[r] |-> no]]
           row(r) == [k \in DOMAIN opt[r] |-> one(opt[r][k])]
           rown(r) == [k \in DOMAIN opt[r] |-> [opt[r][k] EXCEPT !.onHost = v[r][k]]]
<1>5. Restored = [s EXCEPT !.opt = O] BY <1>4, Zenon DEF MapOpt
<1> HIDE DEF no, opt
<1>6. \A r \in DOMAIN opt : \A k \in DOMAIN opt[r] : v[r][k] = no OBVIOUS
<1> HIDE DEF v
<1>7. \A r \in DOMAIN opt : \A k \in DOMAIN opt[r] : one(opt[r][k]) = [opt[r][k] EXCEPT !.onHost = v[r][k]] BY <1>6, Zenon
<1>8. \A r \in DOMAIN opt : row(r) = rown(r) BY <1>7, Zenon
<1>9. O = [r \in DOMAIN opt |-> row(r)] /\ Moved(opt, v) = [r \in DOMAIN opt |-> rown(r)] BY Zenon DEF Moved
<1> HIDE DEF row, rown, O
<1>10. O = Moved(opt, v) BY <1>8, <1>9, Zenon
<1> QED BY <1>5, <1>10, Zenon DEF s, opt

-----------------------------------------------------------------------------
(* The group and the optimizer that is not sharded                         *)

\* The group and the unsharded optimizer hold the same tables.
BothHold(sh, l, a, b) ==
  \E E, A : IsTable(sh, E) /\ IsTable(sh, A) /\ StateOk(sh, l, a, E, A) /\ StateOk(sh, WholeOf(l, sh), b, E, A)

\* The unsharded optimizer is of the same kind.
LEMMA WholeIs ==
  ASSUME NEW sh, NEW l, IsLayout(l)
  PROVE  IsLayout(WholeOf(l, sh)) /\ WholeOf(l, sh).kind = l.kind /\ WholeOf(l, sh).dp = 1
BY DEF IsLayout, WholeOf

\* At the start.
LEMMA BothFresh ==
  ASSUME NEW sh, IsShape(sh), NEW l, IsLayout(l)
  PROVE  BothHold(sh, l, Fresh(sh, l, Weights(sh)), Fresh(sh, WholeOf(l, sh), Weights(sh)))
<1> DEFINE u == WholeOf(l, sh)  E == WideTable(sh)  A == ZeroTable(sh)
           a == Fresh(sh, l, Weights(sh))  b == Fresh(sh, u, Weights(sh))
<1>1. IsLayout(u) BY WholeIs
<1> HIDE DEF u
<1>2. IsTable(sh, E) /\ IsTable(sh, A) /\ StateOk(sh, l, a, E, A) BY FreshHolds
<1>3. StateOk(sh, u, b, E, A) BY <1>1, FreshHolds
<1> HIDE DEF E, A, a, b
<1> QED BY <1>2, <1>3 DEF BothHold, u, a, b

\* After a step.
LEMMA BothStepped ==
  ASSUME NEW sh, IsShape(sh), NEW l, IsLayout(l), l.kind = "fp32", NEW a, NEW b, BothHold(sh, l, a, b),
         NEW grads, DOMAIN grads = DOMAIN sh, \A p \in DOMAIN sh : grads[p] # NoTensor => grads[p][1] \in Int
  PROVE  BothHold(sh, l, Stepped(sh, l, a, grads), Stepped(sh, WholeOf(l, sh), b, grads))
<1> DEFINE u == WholeOf(l, sh)
<1>1. PICK E, A : IsTable(sh, E) /\ IsTable(sh, A) /\ StateOk(sh, l, a, E, A) /\ StateOk(sh, u, b, E, A) BY DEF BothHold
<1>2. IsLayout(u) /\ u.kind = "fp32" BY WholeIs
<1> DEFINE B == [p \in DOMAIN sh |-> [i \in 0 .. sh[p].numel - 1 |-> IF grads[p] = NoTensor THEN A[p][i] ELSE A[p][i] + grads[p][1]]]
           F == [p \in DOMAIN sh |-> [i \in 0 .. sh[p].numel - 1 |-> IF grads[p] = NoTensor THEN E[p][i] ELSE E[p][i] + B[p][i]]]
<1>3. \A p \in DOMAIN sh : \A i \in 0 .. sh[p].numel - 1 : B[p][i] = IF grads[p] = NoTensor THEN A[p][i] ELSE A[p][i] + grads[p][1]
  OBVIOUS
<1> HIDE DEF B, u
<1>4. \A p \in DOMAIN sh : \A i \in 0 .. sh[p].numel - 1 : F[p][i] = IF grads[p] = NoTensor THEN E[p][i] ELSE E[p][i] + B[p][i]
  OBVIOUS
<1> HIDE DEF F
<1>5. IsTable(sh, B) BY <1>1, <1>3 DEF IsTable
<1>6. IsTable(sh, F) BY <1>1, <1>4, <1>5 DEF IsTable
<1>7. AreTables(sh, A, B, E, F) BY <1>1, <1>5, <1>6 DEF AreTables
<1>8. TablesStep(sh, grads, A, B, E, F) BY <1>3, <1>4 DEF TablesStep
<1>9. StateOk(sh, l, Stepped(sh, l, a, grads), F, B) BY <1>1, <1>7, <1>8, SteppedHolds
<1>10. StateOk(sh, u, Stepped(sh, u, b, grads), F, B) BY <1>1, <1>2, <1>7, <1>8, SteppedHolds
<1> QED BY <1>5, <1>6, <1>9, <1>10 DEF BothHold, u

\* After a move of the group's state.
LEMMA BothMoved ==
  ASSUME NEW sh, IsShape(sh), NEW l, IsLayout(l), NEW a, NEW b, BothHold(sh, l, a, b), NEW v,
         NEW t, t = [a EXCEPT !.opt = Moved(a.opt, v)]
  PROVE  BothHold(sh, l, t, b)
<1>1. PICK E, A : IsTable(sh, E) /\ IsTable(sh, A) /\ StateOk(sh, l, a, E, A) /\ StateOk(sh, WholeOf(l, sh), b, E, A)
  BY DEF BothHold
<1>2. StateOk(sh, l, t, E, A) BY <1>1, MovedHolds
<1> QED BY ONLY <1>1, <1>2 DEF BothHold

\* After a clear.
LEMMA BothCleared ==
  ASSUME NEW sh, IsShape(sh), NEW l, IsLayout(l), NEW a, NEW b, BothHold(sh, l, a, b),
         NEW t, t = [a EXCEPT !.opt = Cleared(a.opt)], NEW s, s = [b EXCEPT !.opt = Cleared(b.opt)]
  PROVE  BothHold(sh, l, t, s)
<1> DEFINE u == WholeOf(l, sh)
<1>1. PICK E, A : IsTable(sh, E) /\ IsTable(sh, A) /\ StateOk(sh, l, a, E, A) /\ StateOk(sh, u, b, E, A) BY DEF BothHold
<1>2. IsLayout(u) BY WholeIs
<1> HIDE DEF u
<1> DEFINE F == RoundedTable(sh, E)  Z == ZeroTable(sh)
<1>3. StateOk(sh, l, t, F, Z) BY <1>1, ClearedHolds
<1>4. StateOk(sh, u, s, F, Z) BY <1>1, <1>2, ClearedHolds
<1>5. IsTable(sh, F) /\ IsTable(sh, Z) BY <1>1, BlankTables
<1> HIDE DEF F, Z
<1> QED BY ONLY <1>3, <1>4, <1>5 DEF BothHold, u

\* After a reload.
LEMMA BothCopied ==
  ASSUME NEW sh, IsShape(sh), NEW l, IsLayout(l), NEW a, NEW b, BothHold(sh, l, a, b)
  PROVE  BothHold(sh, l, AllCopied(sh, l, a), b)
<1>1. PICK E, A : IsTable(sh, E) /\ IsTable(sh, A) /\ StateOk(sh, l, a, E, A) /\ StateOk(sh, WholeOf(l, sh), b, E, A)
  BY DEF BothHold
<1>2. StateOk(sh, l, AllCopied(sh, l, a), E, A) BY <1>1, CopiedHolds
<1> QED BY <1>1, <1>2 DEF BothHold

\* The models are the same then.
LEMMA BothShow ==
  ASSUME NEW sh, IsShape(sh), NEW l, IsLayout(l), NEW a, NEW b, BothHold(sh, l, a, b), NEW r \in RanksOf(l)
  PROVE  a.model[r] = b.model[0]
<1> DEFINE u == WholeOf(l, sh)
<1>1. PICK E, A : IsTable(sh, E) /\ IsTable(sh, A) /\ StateOk(sh, l, a, E, A) /\ StateOk(sh, u, b, E, A) BY DEF BothHold
<1>2. 0 \in RanksOf(u) BY WholeIs DEF RanksOf
<1> HIDE DEF u
<1> DEFINE m == a.model[r]  n == b.model[0]
<1>3. IsModel(sh, m) /\ Rounded(sh, m, E) BY <1>1 DEF StateOk, GroupOk, Agreed, ModelIs
<1>4. IsModel(sh, n) /\ Rounded(sh, n, E) BY <1>1, <1>2 DEF StateOk, GroupOk, Agreed, ModelIs
<1> HIDE DEF m, n
<1>5. \A p \in DOMAIN sh : \A i \in 0 .. sh[p].numel - 1 : m[p][i] = n[p][i] BY <1>3, <1>4 DEF Rounded
<1>6. m = n BY <1>3, <1>4, <1>5, ModelsAreEqual
<1> QED BY <1>6 DEF m, n

-----------------------------------------------------------------------------
(* The invariant                                                           *)

\* One pair of groups, in the running program or in a checkpoint.
PairOk(sh, l, a, b) == GroupOk(sh, l, a) /\ (l.kind = "fp32" => BothHold(sh, l, a, b))
OptimizerOk ==
  /\ shape \in Shapes /\ sharding \in Shardings
  /\ PairOk(shape, sharding, ranks, whole)
  /\ saved # NoTensor => PairOk(shape, sharding, saved.ranks, saved.whole)

\* What the assumptions say of a shape and a layout.
LEMMA ShapesAndLayouts ==
  ASSUME NEW sh \in Shapes, NEW l \in Shardings PROVE IsShape(sh) /\ IsLayout(l)
BY OptimizerAssumption DEF ShapesAssumption, ShardingsAssumption, IsShape, IsLayout

\* A step.
LEMMA PairStepped ==
  ASSUME NEW sh, IsShape(sh), NEW l, IsLayout(l), NEW a, NEW b, PairOk(sh, l, a, b),
         NEW grads \in [DOMAIN sh -> Gradients \cup {NoTensor}]
  PROVE  PairOk(sh, l, Stepped(sh, l, a, grads), Stepped(sh, WholeOf(l, sh), b, grads))
<1>1. DOMAIN grads = DOMAIN sh /\ \A p \in DOMAIN sh : grads[p] \in Gradients \cup {NoTensor} OBVIOUS
<1>2. \A p \in DOMAIN sh : grads[p] # NoTensor => grads[p][1] \in Int
  BY <1>1, OptimizerAssumption DEF GradientsAssumption
<1>3. GroupOk(sh, l, Stepped(sh, l, a, grads)) BY SteppedGroup DEF PairOk
<1>4. CASE l.kind = "fp32"
  <2>1. BothHold(sh, l, a, b) BY <1>4 DEF PairOk
  <2>2. BothHold(sh, l, Stepped(sh, l, a, grads), Stepped(sh, WholeOf(l, sh), b, grads)) BY <1>1, <1>2, <1>4, <2>1, BothStepped
  <2> QED BY <1>3, <2>2 DEF PairOk
<1> QED BY <1>3, <1>4 DEF PairOk

\* A move.
LEMMA PairMoved ==
  ASSUME NEW sh, IsShape(sh), NEW l, IsLayout(l), NEW a, NEW b, PairOk(sh, l, a, b), NEW v,
         NEW t, t = [a EXCEPT !.opt = Moved(a.opt, v)]
  PROVE  PairOk(sh, l, t, b)
<1> DEFINE O == Moved(a.opt, v)
<1>1. GroupOk(sh, l, a) BY DEF PairOk
<1>2. t = [a EXCEPT !.opt = O] OBVIOUS
<1>3. l.kind = "fp32" => BothHold(sh, l, t, b) BY BothMoved DEF PairOk
<1> HIDE DEF O
<1>4. GroupOk(sh, l, t) BY ONLY <1>1, <1>2, WithOpt
<1> QED BY ONLY <1>3, <1>4 DEF PairOk

\* A clear.
LEMMA PairCleared ==
  ASSUME NEW sh, IsShape(sh), NEW l, IsLayout(l), NEW a, NEW b, PairOk(sh, l, a, b),
         NEW t, t = [a EXCEPT !.opt = Cleared(a.opt)], NEW s, s = [b EXCEPT !.opt = Cleared(b.opt)]
  PROVE  PairOk(sh, l, t, s)
<1> DEFINE O == Cleared(a.opt)
<1>1. GroupOk(sh, l, a) BY DEF PairOk
<1>2. t = [a EXCEPT !.opt = O] OBVIOUS
<1>3. l.kind = "fp32" => BothHold(sh, l, t, s) BY BothCleared DEF PairOk
<1> HIDE DEF O
<1>4. GroupOk(sh, l, t) BY ONLY <1>1, <1>2, WithOpt
<1> QED BY ONLY <1>3, <1>4 DEF PairOk

\* It holds at the start.
LEMMA OptimizerStarts == OInit => OptimizerOk
<1> SUFFICES ASSUME OInit PROVE OptimizerOk OBVIOUS
<1> DEFINE sh == shape  l == sharding
<1>1. sh \in Shapes /\ l \in Shardings /\ saved = NoTensor BY DEF OInit
<1>2. ranks = Fresh(sh, l, Weights(sh)) /\ whole = Fresh(sh, WholeOf(l, sh), Weights(sh)) BY DEF OInit
<1> HIDE DEF sh, l
<1>3. IsShape(sh) /\ IsLayout(l) BY <1>1, ShapesAndLayouts
<1>4. BothHold(sh, l, ranks, whole) BY <1>2, <1>3, BothFresh
<1>5. GroupOk(sh, l, ranks) BY <1>4 DEF BothHold, StateOk
<1> QED BY <1>1, <1>4, <1>5 DEF OptimizerOk, PairOk, sh, l

\* Every step keeps it.
LEMMA OptimizerKeeps == OptimizerOk /\ [ONext]_ovars => OptimizerOk'
<1> SUFFICES ASSUME OptimizerOk, [ONext]_ovars PROVE OptimizerOk' OBVIOUS
<1>0. /\ shape \in Shapes /\ sharding \in Shardings /\ PairOk(shape, sharding, ranks, whole)
      /\ saved # NoTensor => PairOk(shape, sharding, saved.ranks, saved.whole)
  BY DEF OptimizerOk
<1>s. IsShape(shape) /\ IsLayout(sharding) BY <1>0, ShapesAndLayouts
<1>1. CASE OStep
  <2>1. PICK g \in [DOMAIN shape -> Gradients \cup {NoTensor}] :
          ranks' = Stepped(shape, sharding, ranks, g) /\ whole' = Stepped(shape, WholeOf(sharding, shape), whole, g)
    BY <1>1 DEF OStep
  <2>2. shape' = shape /\ sharding' = sharding /\ saved' = saved BY <1>1 DEF OStep
  <2>3. PairOk(shape, sharding, ranks', whole') BY ONLY <1>0, <1>s, <2>1, g \in [DOMAIN shape -> Gradients \cup {NoTensor}], PairStepped
  <2> QED BY <1>0, <2>2, <2>3 DEF OptimizerOk
<1>2. CASE OMove
  <2>1. PICK host \in BOOLEAN : ranks' = ParkedAll(ranks, host) BY <1>2, Zenon DEF OMove, ParkedAll
  <2>2. shape' = shape /\ sharding' = sharding /\ saved' = saved /\ whole' = whole BY <1>2, Zenon DEF OMove
  <2>3. PICK v : ranks' = [ranks EXCEPT !.opt = Moved(ranks.opt, v)]
    <3> DEFINE t == ranks'  a == ranks
    <3>1. t = ParkedAll(a, host) BY <2>1
    <3>2. \E v : ParkedAll(a, host) = [a EXCEPT !.opt = Moved(a.opt, v)] BY ParkedIs
    <3> HIDE DEF t
    <3>3. \E v : t = [a EXCEPT !.opt = Moved(a.opt, v)] BY <3>1, <3>2, Zenon
    <3> QED BY <3>3, Zenon DEF t
  <2>4. PairOk(shape, sharding, ranks', whole)
    <3> DEFINE t == ranks'
    <3>1. t = [ranks EXCEPT !.opt = Moved(ranks.opt, v)] BY <2>3
    <3> HIDE DEF t
    <3>2. PairOk(shape, sharding, t, whole) BY ONLY <1>0, <1>s, <3>1, PairMoved
    <3> QED BY <3>2 DEF t
  <2> QED BY ONLY <1>0, <2>2, <2>4 DEF OptimizerOk
<1>3. CASE OClear
  <2>1. ranks' = ClearedAll(ranks) /\ whole' = ClearedAll(whole) BY <1>3, Zenon DEF OClear, ClearedAll
  <2>2. shape' = shape /\ sharding' = sharding /\ saved' = saved BY <1>3, Zenon DEF OClear
  <2>3. ranks' = [ranks EXCEPT !.opt = Cleared(ranks.opt)] /\ whole' = [whole EXCEPT !.opt = Cleared(whole.opt)]
    <3>1. ClearedAll(ranks) = [ranks EXCEPT !.opt = Cleared(ranks.opt)] BY ClearedIs
    <3>2. ClearedAll(whole) = [whole EXCEPT !.opt = Cleared(whole.opt)] BY ClearedIs
    <3> QED BY <2>1, <3>1, <3>2, Zenon
  <2>4. PairOk(shape, sharding, ranks', whole')
    <3> DEFINE t == ranks'  s == whole'
    <3>1. t = [ranks EXCEPT !.opt = Cleared(ranks.opt)] /\ s = [whole EXCEPT !.opt = Cleared(whole.opt)] BY <2>3
    <3> HIDE DEF t, s
    <3>2. PairOk(shape, sharding, t, s) BY ONLY <1>0, <1>s, <3>1, PairCleared
    <3> QED BY <3>2 DEF t, s
  <2> QED BY ONLY <1>0, <2>2, <2>4 DEF OptimizerOk
<1>4. CASE OSave
  <2>1. /\ saved' = [ranks |-> ranks, whole |-> whole, updates |-> updates]
        /\ shape' = shape /\ sharding' = sharding /\ ranks' = ranks /\ whole' = whole
    BY <1>4 DEF OSave
  <2>2. saved'.ranks = ranks /\ saved'.whole = whole BY <2>1
  <2> QED BY <1>0, <2>1, <2>2 DEF OptimizerOk
<1>5. CASE OLoad
  <2>1. /\ saved # NoTensor /\ ranks' = AllCopied(shape, sharding, Restored) /\ whole' = saved.whole
        /\ shape' = shape /\ sharding' = sharding /\ saved' = saved
    BY <1>5 DEF OLoad
  <2>2. PairOk(shape, sharding, saved.ranks, saved.whole) BY <1>0, <2>1
  <2>3. GroupOk(shape, sharding, saved.ranks) BY <2>2 DEF PairOk
  <2>4. PICK v : Restored = [saved.ranks EXCEPT !.opt = Moved(saved.ranks.opt, v)] BY <1>s, <2>1, <2>3, RestoredIs
  <2> DEFINE t == Restored  a == saved.ranks  b == saved.whole
  <2>5. PairOk(shape, sharding, t, b)
    <3>1. t = [a EXCEPT !.opt = Moved(a.opt, v)] /\ PairOk(shape, sharding, a, b) BY <2>2, <2>4
    <3> HIDE DEF t, a, b
    <3> QED BY ONLY <1>s, <3>1, PairMoved
  <2> HIDE DEF t
  <2>6. PairOk(shape, sharding, AllCopied(shape, sharding, t), b)
    <3> HIDE DEF b
    <3>1. GroupOk(shape, sharding, AllCopied(shape, sharding, t)) BY <1>s, <2>5, CopiedGroup DEF PairOk
    <3>2. sharding.kind = "fp32" => BothHold(shape, sharding, AllCopied(shape, sharding, t), b) BY <1>s, <2>5, BothCopied DEF PairOk
    <3> QED BY <3>1, <3>2 DEF PairOk
  <2>7. PairOk(shape, sharding, ranks', whole') BY <2>1, <2>6 DEF t, b
  <2> QED BY ONLY <1>0, <2>1, <2>7 DEF OptimizerOk
<1>6. CASE UNCHANGED ovars BY <1>0, <1>6 DEF ovars, OptimizerOk
<1> QED BY <1>1, <1>2, <1>3, <1>4, <1>5, <1>6 DEF ONext

\* The shards do not show, for every shape, layout and history: after every step, move, clear,
\* save and reload all ranks hold one model (_all_gather_bucket), and with full state it is the
\* model of the optimizer that is not sharded (adamw_fp32_master.py).
THEOREM ShardingIsHidden == OSpec => []ShardingDoesNotShow
<1>1. OInit => OptimizerOk BY OptimizerStarts
<1>2. OptimizerOk /\ [ONext]_ovars => OptimizerOk' BY OptimizerKeeps
<1>3. OptimizerOk => ShardingDoesNotShow
  <2> SUFFICES ASSUME OptimizerOk PROVE ShardingDoesNotShow OBVIOUS
  <2>1. IsShape(shape) /\ IsLayout(sharding) BY ShapesAndLayouts DEF OptimizerOk
  <2>2. PairOk(shape, sharding, ranks, whole) BY DEF OptimizerOk
  <2>3. Agreed(shape, sharding, ranks.model) BY <2>2 DEF PairOk, GroupOk
  <2>4. DOMAIN ranks.model = RanksOf(sharding) BY <2>3 DEF Agreed, OverRanks
  <2>5. ReplicasAgree BY <2>3, <2>4 DEF ReplicasAgree, Agreed
  <2>6. UpdatesAreUnsharded
    <3> SUFFICES ASSUME sharding.kind = "fp32", NEW r \in DOMAIN ranks.model PROVE ranks.model[r] = whole.model[0]
      BY DEF UpdatesAreUnsharded
    <3>1. BothHold(shape, sharding, ranks, whole) BY <2>2 DEF PairOk
    <3> QED BY <2>1, <2>4, <3>1, BothShow
  <2> QED BY <2>5, <2>6 DEF ShardingDoesNotShow
<1> QED BY <1>1, <1>2, <1>3, PTL DEF OSpec

=============================================================================
