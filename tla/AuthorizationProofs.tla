--------------------------- MODULE AuthorizationProofs ---------------------------
(***************************************************************************)
(* Proofs about AuthorizationWorker, for any number of executions, any     *)
(* batch and any crashes: the awaiting rows are the queue of the polls, a  *)
(* decision is final, a promotion has the consent of the Safe, rounds do   *)
(* not overlap, and only the cancel of its row ends a tick early.          *)
(***************************************************************************)
EXTENDS AuthorizationWorker, SequenceTheorems, TLAPS

-----------------------------------------------------------------------------
(* The queue: sequences without repetition.                                *)

\* Taking one element out of such a sequence.
LEMMA RemovedAt ==
    ASSUME NEW S, NEW q \in Seq(S), IsInjective(q), NEW i \in 1..Len(q)
    PROVE  /\ RemoveAt(q, i) \in Seq(S) /\ Len(RemoveAt(q, i)) = Len(q) - 1
           /\ IsInjective(RemoveAt(q, i))
           /\ Range(RemoveAt(q, i)) = Range(q) \ {q[i]}
<1> DEFINE left  == SubSeq(q, 1, i - 1)
           right == SubSeq(q, i + 1, Len(q))
           r     == RemoveAt(q, i)
<1>1. Len(q) \in Nat /\ DOMAIN q = 1..Len(q) /\ \A j \in 1..Len(q) : q[j] \in S
  BY LenProperties, ElementOfSeq
<1>2. /\ left \in Seq(S) /\ Len(left) = i - 1 /\ \A j \in 1..(i - 1) : left[j] = q[j]
  <2>1. /\ left \in Seq(S)
        /\ Len(left) = IF 1 <= i - 1 THEN (i - 1) - 1 + 1 ELSE 0
        /\ \A j \in 1..((i - 1) - 1 + 1) : left[j] = q[1 + j - 1]
    BY <1>1, SubSeqProperties
  <2> HIDE DEF left
  <2> QED
    BY <1>1, <2>1
<1>3. /\ right \in Seq(S) /\ Len(right) = Len(q) - i
      /\ \A j \in 1..(Len(q) - i) : right[j] = q[i + j]
  <2>1. /\ right \in Seq(S)
        /\ Len(right) = IF i + 1 <= Len(q) THEN Len(q) - (i + 1) + 1 ELSE 0
        /\ \A j \in 1..(Len(q) - (i + 1) + 1) : right[j] = q[(i + 1) + j - 1]
    BY <1>1, SubSeqProperties
  <2> HIDE DEF right
  <2>2. ASSUME NEW j \in 1..(Len(q) - i) PROVE right[j] = q[i + j]
    <3>1. j \in 1..(Len(q) - (i + 1) + 1) /\ (i + 1) + j - 1 = i + j
      BY <1>1
    <3> QED
      BY <2>1, <3>1
  <2>3. Len(right) = Len(q) - i
    <3>1. Len(right) = IF i + 1 <= Len(q) THEN Len(q) - (i + 1) + 1 ELSE 0
      BY <2>1
    <3>2. CASE i + 1 <= Len(q)
      BY <1>1, <3>1, <3>2
    <3>3. CASE i = Len(q)
      BY <1>1, <3>1, <3>3
    <3>4. Len(q) \in Nat /\ i \in Int /\ i <= Len(q)
      BY LenProperties
    <3> QED
      BY <3>2, <3>3, <3>4
  <2>4. \A j \in 1..(Len(q) - i) : right[j] = q[i + j]
    BY <2>2
  <2> QED
    BY <2>1, <2>3, <2>4
<1>4. r \in Seq(S) /\ Len(r) = Len(q) - 1
  <2>1. r = left \o right
    BY DEF RemoveAt
  <2> HIDE DEF r, left, right
  <2>2. r \in Seq(S) /\ Len(r) = Len(left) + Len(right)
    BY <1>2, <1>3, <2>1, ConcatProperties
  <2> QED
    BY <1>1, <1>2, <1>3, <2>2
<1>5. /\ \A j \in 1..(i - 1) : r[j] = q[j]
      /\ \A j \in i..(Len(q) - 1) : r[j] = q[j + 1]
  <2>1. r = left \o right
    BY DEF RemoveAt
  <2> HIDE DEF r, left, right
  <2>2. \A j \in 1..(Len(left) + Len(right)) :
          r[j] = IF j <= Len(left) THEN left[j] ELSE right[j - Len(left)]
    BY <1>2, <1>3, <2>1, ConcatProperties
  <2>3. ASSUME NEW j \in 1..(i - 1) PROVE r[j] = q[j]
    <3>1. j \in 1..(Len(left) + Len(right)) /\ j <= Len(left)
      BY <1>1, <1>2, <1>3
    <3>2. r[j] = left[j]
      BY <2>2, <3>1
    <3> QED
      BY <1>2, <3>2
  <2>4. ASSUME NEW j \in i..(Len(q) - 1) PROVE r[j] = q[j + 1]
    <3>1. j \in 1..(Len(left) + Len(right)) /\ ~(j <= Len(left))
      BY <1>1, <1>2, <1>3
    <3>2. r[j] = right[j - Len(left)]
      BY <2>2, <3>1
    <3>3. j - Len(left) \in 1..(Len(q) - i) /\ i + (j - Len(left)) = j + 1
      BY <1>1, <1>2
    <3>4. right[j - Len(left)] = q[i + (j - Len(left))]
      BY <1>3, <3>3
    <3> QED
      BY <3>2, <3>3, <3>4
  <2> QED
    BY <2>3, <2>4
<1>6. DOMAIN r = 1..(Len(q) - 1)
  <2> HIDE DEF r
  <2> QED
    BY <1>4, LenProperties
<1> HIDE DEF r, left, right
\* The place in q of what is at a in r.
<1> DEFINE from(a) == IF a < i THEN a ELSE a + 1
<1>7. ASSUME NEW a \in 1..(Len(q) - 1)
      PROVE  from(a) \in 1..Len(q) /\ from(a) # i /\ r[a] = q[from(a)]
  <2>1. CASE a < i
    <3>1. a \in 1..(i - 1) /\ from(a) = a /\ a \in 1..Len(q)
      BY <1>1, <2>1
    <3> HIDE DEF from
    <3> QED
      BY <1>5, <2>1, <3>1
  <2>2. CASE ~(a < i)
    <3>1. a \in i..(Len(q) - 1) /\ from(a) = a + 1 /\ a + 1 \in 1..Len(q) /\ a + 1 # i
      BY <1>1, <2>2
    <3> HIDE DEF from
    <3> QED
      BY <1>5, <3>1
  <2> QED
    BY <2>1, <2>2
<1>8. \A j, k \in 1..Len(q) : q[j] = q[k] => j = k
  BY <1>1 DEF IsInjective
<1>9. IsInjective(r)
  <2> SUFFICES ASSUME NEW a \in 1..(Len(q) - 1), NEW b \in 1..(Len(q) - 1), r[a] = r[b]
               PROVE  a = b
    BY <1>6 DEF IsInjective
  <2>1. from(a) = from(b)
    <3> HIDE DEF from
    <3> QED
      BY <1>7, <1>8
  <2> QED
    BY <1>1, <2>1
<1>10. Range(r) = Range(q) \ {q[i]}
  <2>1. ASSUME NEW a \in 1..(Len(q) - 1) PROVE r[a] \in Range(q) \ {q[i]}
    <3> HIDE DEF from
    <3> QED
      BY <1>1, <1>7, <1>8 DEF Range
  <2>2. ASSUME NEW j \in 1..Len(q), j # i PROVE \E a \in 1..(Len(q) - 1) : r[a] = q[j]
    <3>1. CASE j < i
      <4>1. j \in 1..(Len(q) - 1) /\ j \in 1..(i - 1)
        BY <1>1, <3>1
      <4> QED
        BY <1>5, <4>1
    <3>2. CASE j > i
      <4>1. j - 1 \in 1..(Len(q) - 1) /\ j - 1 \in i..(Len(q) - 1) /\ (j - 1) + 1 = j
        BY <1>1, <3>2
      <4>2. r[j - 1] = q[(j - 1) + 1]
        BY <1>5, <4>1
      <4> QED
        BY <4>1, <4>2
    <3> QED
      BY <1>1, <2>2, <3>1, <3>2
  <2> HIDE DEF from
  <2> QED
    BY <1>1, <1>6, <2>1, <2>2 DEF Range
<1> QED
  BY <1>4, <1>9, <1>10 DEF r

\* Putting a new element into such a sequence.
LEMMA InsertedAt ==
    ASSUME NEW S, NEW q \in Seq(S), IsInjective(q), NEW i \in 1..(Len(q) + 1),
           NEW e \in S, e \notin Range(q)
    PROVE  /\ InsertAt(q, i, e) \in Seq(S) /\ Len(InsertAt(q, i, e)) = Len(q) + 1
           /\ IsInjective(InsertAt(q, i, e))
           /\ Range(InsertAt(q, i, e)) = Range(q) \cup {e}
<1> DEFINE left  == SubSeq(q, 1, i - 1)
           right == SubSeq(q, i, Len(q))
           r     == InsertAt(q, i, e)
<1>1. Len(q) \in Nat /\ DOMAIN q = 1..Len(q) /\ \A j \in 1..Len(q) : q[j] \in S
  BY LenProperties, ElementOfSeq
<1>2. /\ left \in Seq(S) /\ Len(left) = i - 1 /\ \A j \in 1..(i - 1) : left[j] = q[j]
  <2>1. /\ left \in Seq(S)
        /\ Len(left) = IF 1 <= i - 1 THEN (i - 1) - 1 + 1 ELSE 0
        /\ \A j \in 1..((i - 1) - 1 + 1) : left[j] = q[1 + j - 1]
    BY <1>1, SubSeqProperties
  <2> HIDE DEF left
  <2> QED
    BY <1>1, <2>1
<1>3. /\ right \in Seq(S) /\ Len(right) = Len(q) - i + 1
      /\ \A j \in 1..(Len(q) - i + 1) : right[j] = q[i + j - 1]
  <2>1. /\ right \in Seq(S)
        /\ Len(right) = IF i <= Len(q) THEN Len(q) - i + 1 ELSE 0
        /\ \A j \in 1..(Len(q) - i + 1) : right[j] = q[i + j - 1]
    BY <1>1, SubSeqProperties
  <2> HIDE DEF right
  <2> QED
    BY <1>1, <2>1
<1> DEFINE front == left \o <<e>>
<1>4. /\ front \in Seq(S) /\ Len(front) = i /\ front[i] = e
      /\ \A j \in 1..(i - 1) : front[j] = q[j]
  <2>1. front = Append(left, e)
    BY <1>2, AppendIsConcat
  <2> HIDE DEF front, left
  <2>2. /\ front \in Seq(S) /\ Len(front) = Len(left) + 1
        /\ \A j \in 1..Len(left) : front[j] = left[j]
        /\ front[Len(left) + 1] = e
    BY <1>2, <2>1, AppendProperties
  <2> QED
    BY <1>1, <1>2, <2>2
<1>5. /\ r \in Seq(S) /\ Len(r) = Len(q) + 1 /\ r[i] = e
      /\ \A j \in 1..(i - 1) : r[j] = q[j]
      /\ \A j \in (i + 1)..(Len(q) + 1) : r[j] = q[j - 1]
  <2>1. r = front \o right
    BY DEF InsertAt
  <2> HIDE DEF r, front, left, right
  <2>2. /\ r \in Seq(S) /\ Len(r) = Len(front) + Len(right)
        /\ \A j \in 1..(Len(front) + Len(right)) :
             r[j] = IF j <= Len(front) THEN front[j] ELSE right[j - Len(front)]
    BY <1>3, <1>4, <2>1, ConcatProperties
  <2>3. ASSUME NEW j \in 1..i PROVE r[j] = front[j]
    <3>1. j \in 1..(Len(front) + Len(right)) /\ j <= Len(front)
      BY <1>1, <1>3, <1>4
    <3> QED
      BY <2>2, <3>1
  <2>4. ASSUME NEW j \in (i + 1)..(Len(q) + 1) PROVE r[j] = q[j - 1]
    <3>1. j \in 1..(Len(front) + Len(right)) /\ ~(j <= Len(front))
      BY <1>1, <1>3, <1>4
    <3>2. r[j] = right[j - Len(front)]
      BY <2>2, <3>1
    <3>3. j - Len(front) \in 1..(Len(q) - i + 1) /\ i + (j - Len(front)) - 1 = j - 1
      BY <1>1, <1>4
    <3>4. right[j - Len(front)] = q[i + (j - Len(front)) - 1]
      BY <1>3, <3>3
    <3> QED
      BY <3>2, <3>3, <3>4
  <2>5. ASSUME NEW j \in 1..(i - 1) PROVE r[j] = q[j]
    <3>1. j \in 1..i
      BY <1>1
    <3> QED
      BY <1>4, <2>3, <3>1
  <2>6. Len(r) = Len(q) + 1
    BY <1>1, <1>3, <1>4, <2>2
  <2>7. r[i] = e
    BY <1>1, <1>4, <2>3
  <2> QED
    BY <2>2, <2>4, <2>5, <2>6, <2>7
<1>6. DOMAIN r = 1..(Len(q) + 1)
  <2> HIDE DEF r
  <2> QED
    BY <1>5, LenProperties
<1> HIDE DEF r, left, right, front
<1>7. \A j \in 1..Len(q) : q[j] # e
  BY <1>1 DEF Range
<1>8. \A j, k \in 1..Len(q) : q[j] = q[k] => j = k
  BY <1>1 DEF IsInjective
\* The place in q of what is at a in r.
<1> DEFINE from(a) == IF a < i THEN a ELSE a - 1
<1>9. ASSUME NEW a \in 1..(Len(q) + 1), a # i
      PROVE  from(a) \in 1..Len(q) /\ r[a] = q[from(a)]
  <2>1. CASE a < i
    <3>1. a \in 1..(i - 1) /\ from(a) = a /\ a \in 1..Len(q)
      BY <1>1, <2>1
    <3> HIDE DEF from
    <3> QED
      BY <1>5, <3>1
  <2>2. CASE ~(a < i)
    <3>1. a \in (i + 1)..(Len(q) + 1) /\ from(a) = a - 1 /\ a - 1 \in 1..Len(q)
      BY <1>1, <1>9, <2>2
    <3> HIDE DEF from
    <3> QED
      BY <1>5, <3>1
  <2> QED
    BY <2>1, <2>2
<1>10. IsInjective(r)
  <2> SUFFICES ASSUME NEW a \in 1..(Len(q) + 1), NEW b \in 1..(Len(q) + 1), r[a] = r[b]
               PROVE  a = b
    BY <1>6 DEF IsInjective
  <2>1. CASE a = i \/ b = i
    <3> HIDE DEF from
    <3> QED
      BY <1>5, <1>7, <1>9, <2>1
  <2>2. CASE a # i /\ b # i
    <3>1. from(a) = from(b)
      <4> HIDE DEF from
      <4> QED
        BY <1>8, <1>9, <2>2
    <3> QED
      BY <1>1, <2>2, <3>1
  <2> QED
    BY <2>1, <2>2
<1>11. Range(r) = Range(q) \cup {e}
  <2>1. ASSUME NEW a \in 1..(Len(q) + 1) PROVE r[a] \in Range(q) \cup {e}
    <3> HIDE DEF from
    <3> QED
      BY <1>1, <1>5, <1>9 DEF Range
  <2>2. i \in 1..(Len(q) + 1) /\ r[i] = e
    BY <1>1, <1>5
  <2>3. ASSUME NEW j \in 1..Len(q) PROVE \E a \in 1..(Len(q) + 1) : r[a] = q[j]
    <3>1. CASE j < i
      <4>1. j \in 1..(Len(q) + 1) /\ j \in 1..(i - 1)
        BY <1>1, <3>1
      <4> QED
        BY <1>5, <4>1
    <3>2. CASE ~(j < i)
      <4>1. /\ j + 1 \in 1..(Len(q) + 1) /\ j + 1 \in (i + 1)..(Len(q) + 1)
            /\ (j + 1) - 1 = j
        BY <1>1, <3>2
      <4>2. r[j + 1] = q[(j + 1) - 1]
        BY <1>5, <4>1
      <4> QED
        BY <4>1, <4>2
    <3> QED
      BY <3>1, <3>2
  <2> HIDE DEF from
  <2> QED
    BY <1>1, <1>6, <2>1, <2>2, <2>3 DEF Range
<1> QED
  BY <1>5, <1>10, <1>11 DEF r

-----------------------------------------------------------------------------
(* The invariant.                                                          *)

\* The awaiting rows are the queue, and its first rows are due.
QueueInv ==
    /\ queue \in Seq(Executions) /\ IsInjective(queue)
    /\ Range(queue) = { e \in Executions : state[e] = "awaiting_authorization" }
    /\ due \in 0..Len(queue)

Polling == { "signer", "validate", "preflight", "message" }

\* A row that is left in the loop of the tick has no state but these two: its client
\* alone may write it before the tick does.
BatchInv ==
    /\ IsInjective(batch)
    /\ \A i \in 1..Len(batch) : state[batch[i]] \in {"awaiting_authorization", "canceled"}
    /\ pc = "idle" => batch = <<>>
    /\ pc \in Polling => batch # <<>>

\* A consent that is there while its row is polled, or was when a signature passed, is noted.
ConsentInv ==
    /\ pc \in Polling /\ consents(cur) => held
    /\ pc = "preflight" => held

WorkerTypes ==
    /\ state \in [Executions -> RelayExecutionState \cup {"absent"}]
    /\ pc \in Place /\ batch \in Seq(Executions)
    /\ source \in Source /\ attempt \in 0..(MaxAttempts - 1)
    /\ inFlight \in BOOLEAN /\ relayerTick \in BOOLEAN /\ held \in BOOLEAN
    /\ consent \in [Executions -> Consent]
    /\ expired \in [Executions -> BOOLEAN] /\ chainOk \in [Executions -> BOOLEAN]
    /\ crashes \in 0..MaxCrashes

AuthorizationInv ==
    /\ WorkerTypes /\ QueueInv /\ BatchInv /\ ConsentInv /\ RoundsDoNotOverlap

-----------------------------------------------------------------------------
(* What a step writes.                                                     *)

\* The first row of the loop is an execution, awaiting or canceled.
LEMMA CurrentRow ==
    ASSUME AuthorizationInv, batch # <<>>
    PROVE  /\ cur \in Executions
           /\ state[cur] \in {"awaiting_authorization", "canceled"}
<1>1. /\ batch \in Seq(Executions)
      /\ \A i \in 1..Len(batch) : state[batch[i]] \in {"awaiting_authorization", "canceled"}
  BY DEF AuthorizationInv, WorkerTypes, BatchInv
<1>2. Len(batch) \in Nat /\ Len(batch) # 0
  BY <1>1, EmptySeq, LenProperties
<1>3. 1 \in 1..Len(batch) /\ cur = batch[1]
  BY <1>1, <1>2 DEF cur
<1> QED
  BY <1>1, <1>3, ElementOfSeq

\* An awaiting row that is taken out of the queue leaves the others, and the rows that
\* are due are still the first.
LEMMA WithoutOne ==
    ASSUME QueueInv, NEW e \in Executions
    PROVE  /\ without(e) \in Seq(Executions) /\ IsInjective(without(e))
           /\ Range(without(e)) = Range(queue) \ {e}
           /\ (IF isDue(e) THEN due - 1 ELSE due) \in 0..Len(without(e))
<1>1. /\ queue \in Seq(Executions) /\ IsInjective(queue) /\ due \in 0..Len(queue)
      /\ Len(queue) \in Nat /\ DOMAIN queue = 1..Len(queue)
  BY LenProperties DEF QueueInv
<1>2. CASE Contains(queue, e)
  <2> DEFINE i == CHOOSE k \in 1..Len(queue) : queue[k] = e
  <2>1. i \in 1..Len(queue) /\ queue[i] = e
    BY <1>2 DEF Contains
  <2>2. without(e) = RemoveAt(queue, i)
    BY <1>2 DEF without
  <2> HIDE DEF i
  <2>3. /\ without(e) \in Seq(Executions) /\ Len(without(e)) = Len(queue) - 1
        /\ IsInjective(without(e)) /\ Range(without(e)) = Range(queue) \ {e}
    <3>1. queue \in Seq(Executions) /\ IsInjective(queue)
      BY DEF QueueInv
    <3>2. /\ RemoveAt(queue, i) \in Seq(Executions)
          /\ Len(RemoveAt(queue, i)) = Len(queue) - 1
          /\ IsInjective(RemoveAt(queue, i))
          /\ Range(RemoveAt(queue, i)) = Range(queue) \ {queue[i]}
      BY <2>1, <3>1, RemovedAt
    <3> QED
      BY <2>1, <2>2, <3>2
  <2>4. ASSUME isDue(e) PROVE due - 1 \in 0..(Len(queue) - 1)
    <3>1. \E k \in 1..due : TRUE
      BY <2>4 DEF isDue
    <3> QED
      BY <1>1, <3>1
  <2>5. ASSUME ~isDue(e) PROVE due \in 0..(Len(queue) - 1)
    <3>1. i \notin 1..due
      BY <2>1, <2>5 DEF isDue
    <3> QED
      BY <1>1, <2>1, <3>1
  <2> QED
    BY <2>3, <2>4, <2>5
<1>3. CASE ~Contains(queue, e)
  <2>1. \A k \in 1..Len(queue) : queue[k] # e
    BY <1>3 DEF Contains
  <2>2. e \notin Range(queue)
    BY <1>1, <2>1 DEF Range
  <2>3. ~isDue(e)
    <3>1. \A k \in 1..due : k \in 1..Len(queue)
      BY <1>1
    <3> QED
      BY <2>1, <3>1 DEF isDue
  <2> QED
    BY <1>1, <1>3, <2>2, <2>3 DEF without
<1> QED
  BY <1>2, <1>3

\* A row that stops awaiting leaves the queue.
LEMMA LeaveKeepsQueue ==
    ASSUME WorkerTypes, QueueInv, NEW e \in Executions,
           NEW to \in RelayExecutionState \ {"awaiting_authorization"}, Leave(e, to)
    PROVE  QueueInv'
<1>1. /\ queue' = without(e) /\ due' = (IF isDue(e) THEN due - 1 ELSE due)
      /\ state' = [state EXCEPT ![e] = to]
  BY DEF Leave
<1>2. /\ queue' \in Seq(Executions) /\ IsInjective(queue') /\ due' \in 0..Len(queue')
      /\ Range(queue') = Range(queue) \ {e}
  BY <1>1, WithoutOne
<1>3. Range(queue') = { f \in Executions : state'[f] = "awaiting_authorization" }
  <2>1. state \in [Executions -> RelayExecutionState \cup {"absent"}]
    BY DEF WorkerTypes
  <2>2. /\ state'[e] = to /\ to # "awaiting_authorization"
        /\ \A f \in Executions : f # e => state'[f] = state[f]
    BY <1>1, <2>1
  <2>3. Range(queue) = { f \in Executions : state[f] = "awaiting_authorization" }
    BY DEF QueueInv
  <2> QED
    BY <1>2, <2>2, <2>3
<1> QED
  BY <1>2, <1>3 DEF QueueInv

\* A poll that is put off moves its row behind the ones that are due.
LEMMA PollKeepsQueue ==
    ASSUME QueueInv, NEW e \in Executions, scheduleAuthorizationPoll(e), UNCHANGED state
    PROVE  QueueInv'
<1>1. CASE ~Contains(queue, e)
  BY <1>1 DEF scheduleAuthorizationPoll, QueueInv
<1>2. CASE Contains(queue, e)
  <2> DEFINE others == without(e)
             dueNow == IF isDue(e) THEN due - 1 ELSE due
  <2>1. /\ others \in Seq(Executions) /\ IsInjective(others)
        /\ Range(others) = Range(queue) \ {e} /\ dueNow \in 0..Len(others)
    BY WithoutOne
  <2>2. due' = dueNow /\ \E place \in dueNow..Len(others) : queue' = InsertAt(others, place + 1, e)
    BY <1>2 DEF scheduleAuthorizationPoll
  <2>3. e \in Range(queue)
    <3>1. DOMAIN queue = 1..Len(queue)
      BY LenProperties DEF QueueInv
    <3> QED
      BY <1>2, <3>1 DEF Contains, Range
  <2> HIDE DEF others, dueNow
  <2>4. PICK place \in dueNow..Len(others) : queue' = InsertAt(others, place + 1, e)
    BY <2>2
  <2>5. Len(others) \in Nat
    BY <2>1, LenProperties
  <2>6. place + 1 \in 1..(Len(others) + 1)
    BY <2>1, <2>5
  <2>7. /\ queue' \in Seq(Executions) /\ Len(queue') = Len(others) + 1
        /\ IsInjective(queue') /\ Range(queue') = Range(others) \cup {e}
    BY <2>1, <2>4, <2>6, InsertedAt
  <2>8. due' \in 0..Len(queue')
    BY <2>1, <2>2, <2>5, <2>7
  <2>9. Range(queue') = Range(queue)
    BY <2>1, <2>3, <2>7
  <2> QED
    BY <2>7, <2>8, <2>9 DEF QueueInv
<1> QED
  BY <1>1, <1>2

\* A new row is due behind the ones that are.
LEMMA CreateKeepsQueue ==
    ASSUME WorkerTypes, QueueInv, NEW e \in Executions, createAwaitingAuthorization(e)
    PROVE  QueueInv'
<1>1. /\ queue \in Seq(Executions) /\ IsInjective(queue) /\ due \in 0..Len(queue)
      /\ Len(queue) \in Nat
      /\ Range(queue) = { f \in Executions : state[f] = "awaiting_authorization" }
  BY LenProperties DEF QueueInv
<1>2. /\ state[e] = "absent" /\ state' = [state EXCEPT ![e] = "awaiting_authorization"]
      /\ queue' = InsertAt(queue, due + 1, e) /\ due' = due + 1
  BY DEF createAwaitingAuthorization
<1>3. e \notin Range(queue) /\ due + 1 \in 1..(Len(queue) + 1)
  BY <1>1, <1>2
<1>4. /\ queue' \in Seq(Executions) /\ Len(queue') = Len(queue) + 1
      /\ IsInjective(queue') /\ Range(queue') = Range(queue) \cup {e}
  BY <1>1, <1>2, <1>3, InsertedAt
<1>5. due' \in 0..Len(queue')
  BY <1>1, <1>2, <1>4
<1>6. /\ state'[e] = "awaiting_authorization"
      /\ \A f \in Executions : f # e => state'[f] = state[f]
  BY <1>2 DEF WorkerTypes
<1>7. Range(queue') = { f \in Executions : state'[f] = "awaiting_authorization" }
  BY <1>1, <1>4, <1>6
<1> QED
  BY <1>4, <1>5, <1>7 DEF QueueInv

-----------------------------------------------------------------------------
(* The batch.                                                              *)

\* The rest of a sequence without repetition does not have its first element.
LEMMA TailOf ==
    ASSUME NEW S, NEW q \in Seq(S), IsInjective(q), q # <<>>
    PROVE  /\ Tail(q) \in Seq(S) /\ IsInjective(Tail(q))
           /\ \A i \in 1..Len(Tail(q)) :
                /\ Tail(q)[i] # Head(q)
                /\ \E j \in 1..Len(q) : Tail(q)[i] = q[j]
<1> DEFINE t == Tail(q)
<1>1. /\ Len(q) \in Nat /\ Len(q) # 0 /\ DOMAIN q = 1..Len(q) /\ Head(q) = q[1]
  BY EmptySeq, LenProperties
<1>2. /\ t \in Seq(S) /\ Len(t) = Len(q) - 1 /\ \A j \in 1..Len(t) : t[j] = q[j + 1]
  BY HeadTailProperties
<1> HIDE DEF t
<1>3. DOMAIN t = 1..Len(t)
  BY <1>2, LenProperties
<1>4. \A j, k \in 1..Len(q) : q[j] = q[k] => j = k
  BY <1>1 DEF IsInjective
<1>5. ASSUME NEW j \in 1..Len(t) PROVE t[j] = q[j + 1] /\ j + 1 \in 1..Len(q) /\ j + 1 # 1
  <2>1. t[j] = q[j + 1]
    BY <1>2
  <2>2. Len(q) \in Nat /\ Len(t) = Len(q) - 1 /\ j \in Int /\ 1 <= j /\ j <= Len(t)
    BY <1>1, <1>2
  <2> QED
    BY <2>1, <2>2
<1>6. IsInjective(t)
  <2> SUFFICES ASSUME NEW a \in 1..Len(t), NEW b \in 1..Len(t), t[a] = t[b] PROVE a = b
    BY <1>3 DEF IsInjective
  <2>1. a + 1 = b + 1
    BY <1>4, <1>5
  <2>2. a \in Int /\ b \in Int
    OBVIOUS
  <2> QED
    BY <2>1, <2>2
<1>7. 1 \in 1..Len(q)
  <2>1. Len(q) \in Nat /\ Len(q) # 0
    BY <1>1
  <2> QED
    BY <2>1
<1>8. ASSUME NEW j \in 1..Len(t) PROVE t[j] # Head(q) /\ \E k \in 1..Len(q) : t[j] = q[k]
  BY <1>1, <1>4, <1>5, <1>7
<1> QED
  BY <1>2, <1>6, <1>8 DEF t

\* A prefix of a sequence without repetition.
LEMMA PrefixOf ==
    ASSUME NEW S, NEW q \in Seq(S), IsInjective(q), NEW n \in 0..Len(q)
    PROVE  /\ SubSeq(q, 1, n) \in Seq(S) /\ Len(SubSeq(q, 1, n)) = n
           /\ IsInjective(SubSeq(q, 1, n))
           /\ \A i \in 1..n : i \in 1..Len(q) /\ SubSeq(q, 1, n)[i] = q[i]
<1> DEFINE p == SubSeq(q, 1, n)
<1>1. Len(q) \in Nat
  BY LenProperties
<1>2. \A i \in 1..n : i \in 1..Len(q)
  BY <1>1
<1>3. /\ p \in Seq(S) /\ Len(p) = IF 1 <= n THEN n - 1 + 1 ELSE 0
      /\ \A i \in 1..(n - 1 + 1) : p[i] = q[1 + i - 1]
  BY <1>1, <1>2, SubSeqProperties
<1> HIDE DEF p
<1>4. p \in Seq(S) /\ Len(p) = n
  BY <1>1, <1>3
<1>5. ASSUME NEW i \in 1..n PROVE p[i] = q[i]
  <2>1. i \in 1..(n - 1 + 1) /\ 1 + i - 1 = i
    BY <1>1
  <2> QED
    BY <1>3, <2>1
<1>6. DOMAIN p = 1..n
  BY <1>4, LenProperties
<1>7. IsInjective(p)
  <2>1. DOMAIN q = 1..Len(q)
    BY LenProperties
  <2> QED
    BY <1>2, <1>5, <1>6, <2>1 DEF IsInjective
<1> QED
  BY <1>2, <1>4, <1>5, <1>7 DEF p

\* After a row the loop goes on with the others, which the tick has not written.
LEMMA AfterRow ==
    ASSUME AuthorizationInv, batch # <<>>, Continue,
           \A f \in Executions : f # cur => state'[f] = state[f]
    PROVE  BatchInv' /\ ConsentInv' /\ batch' \in Seq(Executions)
<1>1. /\ batch \in Seq(Executions) /\ IsInjective(batch)
      /\ \A i \in 1..Len(batch) : state[batch[i]] \in {"awaiting_authorization", "canceled"}
  BY DEF AuthorizationInv, WorkerTypes, BatchInv
<1>2. batch' = Tail(batch) /\ pc' = "loop"
  BY DEF Continue
<1>3. /\ batch' \in Seq(Executions) /\ IsInjective(batch')
      /\ \A i \in 1..Len(batch') :
           batch'[i] # cur /\ \E j \in 1..Len(batch) : batch'[i] = batch[j]
  BY <1>1, <1>2, TailOf DEF cur
<1>4. ASSUME NEW i \in 1..Len(batch')
      PROVE  state'[batch'[i]] \in {"awaiting_authorization", "canceled"}
  <2>1. PICK j \in 1..Len(batch) : batch'[i] = batch[j]
    BY <1>3
  <2>2. batch[j] \in Executions /\ batch[j] # cur
    BY <1>1, <1>3, <2>1, ElementOfSeq
  <2>3. state'[batch[j]] = state[batch[j]]
    BY <2>2
  <2> QED
    BY <1>1, <2>1, <2>3
<1>5. BatchInv'
  BY <1>2, <1>3, <1>4 DEF BatchInv, Polling
<1>6. ConsentInv'
  BY <1>2 DEF ConsentInv, Polling
<1> QED
  BY <1>3, <1>5, <1>6

\* A row is put off: the state column stays, and the loop goes on.
LEMMA PutOffKeeps ==
    ASSUME AuthorizationAssumption, AuthorizationInv, batch # <<>>, scheduleNextPoll, Same,
           held' \in BOOLEAN
    PROVE  AuthorizationInv' /\ pc' = "loop"
<1>1. cur \in Executions
  BY CurrentRow
<1>2. scheduleAuthorizationPoll(cur) /\ UNCHANGED state /\ Continue
  BY DEF scheduleNextPoll
<1>3. QueueInv'
  BY <1>1, <1>2, PollKeepsQueue DEF AuthorizationInv
<1>4. BatchInv' /\ ConsentInv' /\ batch' \in Seq(Executions)
  BY <1>2, AfterRow
<1>5. pc' = "loop" /\ source' = "onchain_safe_message" /\ attempt' = 0
  BY <1>2 DEF Continue
<1>6. RoundsDoNotOverlap'
  BY <1>5 DEF RoundsDoNotOverlap, AuthorizationInv, BatchInv, Same
<1>7. 0 \in 0..(MaxAttempts - 1)
  BY DEF AuthorizationAssumption
<1>8. WorkerTypes'
  BY <1>2, <1>4, <1>5, <1>7 DEF AuthorizationInv, WorkerTypes, Same, Place, Source
<1> QED
  BY <1>3, <1>4, <1>5, <1>6, <1>8 DEF AuthorizationInv

\* A row is settled: it is written, or put off, or its exception ends the tick, which
\* happens to a canceled row only.
LEMMA SettleKeeps ==
    ASSUME AuthorizationAssumption, AuthorizationInv, batch # <<>>,
           NEW to \in {"pending", "expired", "failed", "rejected"}, Settle(to), Same,
           held' \in BOOLEAN
    PROVE  AuthorizationInv' /\ (pc' = "loop" \/ state[cur] = "canceled")
<1>1. cur \in Executions /\ state[cur] \in {"awaiting_authorization", "canceled"}
  BY CurrentRow
<1>2. 0 \in 0..(MaxAttempts - 1)
  BY DEF AuthorizationAssumption
<1>3. ASSUME mayWrite(cur, to), Leave(cur, to), Continue
      PROVE  AuthorizationInv' /\ pc' = "loop"
  <2>1. to \in RelayExecutionState \ {"awaiting_authorization"}
    BY DEF RelayExecutionState
  <2>2. QueueInv'
    BY <1>1, <1>3, <2>1, LeaveKeepsQueue DEF AuthorizationInv
  <2>3. state' = [state EXCEPT ![cur] = to]
    BY <1>3 DEF Leave
  <2>4. state' \in [Executions -> RelayExecutionState \cup {"absent"}]
    BY <1>1, <2>1, <2>3 DEF AuthorizationInv, WorkerTypes
  <2>5. \A f \in Executions : f # cur => state'[f] = state[f]
    BY <2>3 DEF AuthorizationInv, WorkerTypes
  <2>6. BatchInv' /\ ConsentInv' /\ batch' \in Seq(Executions)
    BY <1>3, <2>5, AfterRow
  <2>7. pc' = "loop" /\ source' = "onchain_safe_message" /\ attempt' = 0
    BY <1>3 DEF Continue
  <2>8. RoundsDoNotOverlap'
    BY <2>7 DEF RoundsDoNotOverlap, AuthorizationInv, BatchInv, Same
  <2>9. WorkerTypes'
    BY <1>2, <2>4, <2>6, <2>7 DEF AuthorizationInv, WorkerTypes, Same, Place, Source
  <2> QED
    BY <2>2, <2>6, <2>7, <2>8, <2>9 DEF AuthorizationInv
<1>4. ASSUME ~mayWrite(cur, to), AbortTick
      PROVE  AuthorizationInv' /\ state[cur] = "canceled"
  <2>1. state[cur] = "canceled"
    BY <1>1, <1>4 DEF mayWrite, canTransitionState, allowedTransitions, RelayExecutionState,
                      TerminalState
  <2>2. /\ pc' = "idle" /\ batch' = <<>> /\ source' = "onchain_safe_message"
        /\ attempt' = 0 /\ UNCHANGED <<state, queue, due>>
    BY <1>4 DEF AbortTick
  <2>3. QueueInv'
    BY <2>2 DEF AuthorizationInv, QueueInv
  <2>4. BatchInv'
    <3>1. Len(batch') = 0 /\ DOMAIN batch' = {}
      BY <2>2
    <3> QED
      BY <2>2, <3>1 DEF BatchInv, IsInjective, Polling
  <2>5. ConsentInv'
    BY <2>2 DEF ConsentInv, Polling
  <2>6. RoundsDoNotOverlap'
    BY <2>2 DEF AuthorizationInv, RoundsDoNotOverlap, Same
  <2>7. WorkerTypes'
    BY <1>2, <2>2 DEF AuthorizationInv, WorkerTypes, Same, Place, Source
  <2> QED
    BY <2>1, <2>3, <2>4, <2>5, <2>6, <2>7 DEF AuthorizationInv
<1>5. CASE scheduleNextPoll
  BY <1>5, PutOffKeeps
<1>6. \/ mayWrite(cur, to) /\ Leave(cur, to) /\ Continue
      \/ scheduleNextPoll
      \/ ~mayWrite(cur, to) /\ AbortTick
  BY DEF Settle
<1> QED
  BY <1>3, <1>4, <1>5, <1>6

\* The row stays at the head of the loop: an await has ended, and another begins.
LEMMA StayKeeps ==
    ASSUME AuthorizationInv, batch # <<>>, UNCHANGED <<state, queue, due, batch>>, Same,
           pc' \in Polling, source' \in Source, attempt' \in 0..(MaxAttempts - 1),
           held' \in BOOLEAN, consents(cur) => held', pc' = "preflight" => held'
    PROVE  AuthorizationInv'
<1>1. QueueInv'
  BY DEF AuthorizationInv, QueueInv
<1>2. BatchInv'
  BY DEF AuthorizationInv, BatchInv, Polling
<1>3. ConsentInv'
  BY DEF ConsentInv, consents, cur, Same
<1>4. RoundsDoNotOverlap'
  BY DEF AuthorizationInv, BatchInv, RoundsDoNotOverlap, Same
<1>5. WorkerTypes'
  BY DEF AuthorizationInv, WorkerTypes, Same, Polling, Place
<1> QED
  BY <1>1, <1>2, <1>3, <1>4, <1>5 DEF AuthorizationInv

-----------------------------------------------------------------------------
(* Every step keeps the invariant.                                         *)

\* In the initial states nothing waits and nothing runs.
LEMMA AuthorizationInit == ASSUME AuthorizationAssumption, Init PROVE AuthorizationInv
<1>1. /\ state = [e \in Executions |-> "absent"] /\ queue = <<>> /\ due = 0
      /\ pc = "idle" /\ batch = <<>> /\ source = "onchain_safe_message" /\ attempt = 0
      /\ inFlight = FALSE /\ relayerTick = FALSE /\ held = FALSE /\ crashes = 0
      /\ consent = [e \in Executions |-> "none"]
      /\ expired = [e \in Executions |-> FALSE] /\ chainOk = [e \in Executions |-> TRUE]
  BY DEF Init
<1>2. Len(<<>>) = 0 /\ DOMAIN <<>> = {} /\ <<>> \in Seq(Executions)
  OBVIOUS
<1>3. QueueInv
  <2>1. Range(queue) = {}
    BY <1>1, <1>2 DEF Range
  <2>2. \A e \in Executions : state[e] # "awaiting_authorization"
    BY <1>1
  <2> QED
    BY <1>1, <1>2, <2>1, <2>2 DEF QueueInv, IsInjective
<1>4. BatchInv
  BY <1>1, <1>2 DEF BatchInv, IsInjective, Polling
<1>5. ConsentInv
  BY <1>1 DEF ConsentInv, Polling
<1>6. RoundsDoNotOverlap
  BY <1>1 DEF RoundsDoNotOverlap
<1>7. WorkerTypes
  <2>1. 0 \in 0..(MaxAttempts - 1) /\ 0 \in 0..MaxCrashes
    BY DEF AuthorizationAssumption
  <2> QED
    BY <1>1, <1>2, <2>1 DEF WorkerTypes, Place, Source, Consent
<1> QED
  BY <1>3, <1>4, <1>5, <1>6, <1>7 DEF AuthorizationInv

\* The services answer about the row that is polled.
LEMMA ServicesKeep ==
    ASSUME AuthorizationAssumption, AuthorizationInv, Services
    PROVE  AuthorizationInv' /\ (pc' = "idle" => state[cur] = "canceled")
<1> DEFINE Goal == AuthorizationInv' /\ (pc' = "idle" => state[cur] = "canceled")
<1>1. batch # <<>> /\ pc \in Polling
  BY DEF AuthorizationInv, BatchInv, Polling, Services, SignerLoaded, SignerUnavailable,
         Validated, ChainUnavailable, PreflightOk, PreflightReverts, MessageLoaded,
         MessageUnsupported, MessageError
<1>2. /\ source \in Source /\ attempt \in 0..(MaxAttempts - 1) /\ held \in BOOLEAN
      /\ (consents(cur) => held) /\ (pc = "preflight" => held)
  BY <1>1 DEF AuthorizationInv, WorkerTypes, ConsentInv
<1>3. UNCHANGED held /\ Same
  BY DEF Services, SignerLoaded, SignerUnavailable, Validated, ChainUnavailable, PreflightOk,
         PreflightReverts, MessageLoaded, MessageUnsupported, MessageError
<1>4. ASSUME scheduleNextPoll PROVE Goal
  BY <1>1, <1>2, <1>3, <1>4, PutOffKeeps
<1>5. ASSUME NEW to \in {"pending", "expired", "failed", "rejected"}, Settle(to) PROVE Goal
  BY <1>1, <1>2, <1>3, <1>5, SettleKeeps
<1>6. ASSUME NEW place \in Polling, Go(place), place = "preflight" => consents(cur),
             source' \in Source, attempt' \in 0..(MaxAttempts - 1)
      PROVE  Goal
  <2>1. pc' = place /\ UNCHANGED <<state, queue, due, batch>>
    BY <1>6 DEF Go
  <2>2. AuthorizationInv'
    BY <1>1, <1>2, <1>3, <1>6, <2>1, StayKeeps
  <2> QED
    BY <2>1, <2>2, <1>6 DEF Polling
<1>7. CASE SignerLoaded
  <2>1. "validate" \in Polling /\ Go("validate") /\ UNCHANGED <<source, attempt>>
    BY <1>7 DEF SignerLoaded, Polling
  <2> QED
    BY <1>2, <1>6, <2>1
<1>8. CASE SignerUnavailable
  BY <1>4, <1>8 DEF SignerUnavailable, signerCaught
<1>9. CASE Validated
  <2>1. \/ validSignature /\ Go("preflight") /\ UNCHANGED <<source, attempt>>
        \/ Go("message") /\ UNCHANGED <<source, attempt>>
        \/ scheduleNextPoll
    BY <1>9 DEF Validated
  <2>2. validSignature => consents(cur)
    BY DEF validSignature, consents, accepts
  <2>3. "preflight" \in Polling /\ "message" \in Polling
    BY DEF Polling
  <2> QED
    BY <1>2, <1>4, <1>6, <2>1, <2>2, <2>3
<1>10. CASE ChainUnavailable
  BY <1>4, <1>10 DEF ChainUnavailable
<1>11. CASE PreflightReverts
  BY <1>5, <1>11 DEF PreflightReverts
<1>12. CASE PreflightOk
  BY <1>5, <1>12 DEF PreflightOk
<1>13. CASE MessageLoaded
  <2>1. \/ Go("validate") /\ source' = "safe_prepared_signature" /\ attempt' = 0
        \/ scheduleNextPoll
    BY <1>13 DEF MessageLoaded
  <2>2. 0 \in 0..(MaxAttempts - 1) /\ "safe_prepared_signature" \in Source
    BY DEF AuthorizationAssumption, Source
  <2>3. "validate" \in Polling
    BY DEF Polling
  <2> QED
    BY <1>4, <1>6, <2>1, <2>2, <2>3
<1>14. CASE MessageUnsupported
  BY <1>5, <1>14 DEF MessageUnsupported
<1>15. ASSUME NEW status \in SafeStatus, MessageError(status) PROVE Goal
  <2>1. \/ Settle("failed")
        \/ /\ pc = "message" /\ attempt + 1 < MaxAttempts /\ attempt' = attempt + 1
           /\ UNCHANGED <<state, queue, due, pc, batch, source>>
        \/ scheduleNextPoll
    BY <1>15 DEF MessageError
  <2>2. ASSUME pc = "message", attempt + 1 < MaxAttempts, attempt' = attempt + 1,
               UNCHANGED <<state, queue, due, pc, batch, source>>
        PROVE  Goal
    <3>1. attempt' \in 0..(MaxAttempts - 1)
      BY <1>2, <2>2 DEF AuthorizationAssumption
    <3>2. Go("message")
      BY <2>2 DEF Go
    <3> QED
      BY <1>2, <1>6, <2>2, <3>1, <3>2 DEF Polling
  <2> QED
    BY <1>4, <1>5, <2>1, <2>2
<1> QED
  BY <1>7, <1>8, <1>9, <1>10, <1>11, <1>12, <1>13, <1>14, <1>15 DEF Services, Goal

\* A row is taken up: what needs no service is decided, the rest begins with the signer.
LEMMA NextRowKeeps ==
    ASSUME AuthorizationAssumption, AuthorizationInv, NextRow
    PROVE  AuthorizationInv' /\ (pc' = "idle" => state[cur] = "canceled")
<1>1. batch # <<>> /\ held' = consents(cur) /\ held' \in BOOLEAN /\ Same
  BY DEF NextRow, consents
<1>2. \/ Settle("expired") \/ Settle("failed")
      \/ pc' = "signer" /\ UNCHANGED <<state, queue, due, batch, source, attempt>>
  BY DEF NextRow
<1>3. ASSUME NEW to \in {"pending", "expired", "failed", "rejected"}, Settle(to)
      PROVE  AuthorizationInv' /\ (pc' = "loop" \/ state[cur] = "canceled")
  BY <1>1, <1>3, SettleKeeps
<1>4. ASSUME pc' = "signer", UNCHANGED <<state, queue, due, batch, source, attempt>>
      PROVE  AuthorizationInv'
  <2>1. source' \in Source /\ attempt' \in 0..(MaxAttempts - 1)
    BY <1>4 DEF AuthorizationInv, WorkerTypes
  <2>2. pc' \in Polling /\ pc' # "preflight"
    BY <1>4 DEF Polling
  <2> QED
    BY <1>1, <1>4, <2>1, <2>2, StayKeeps
<1> QED
  BY <1>2, <1>3, <1>4

\* A round begins with a batch of the rows that are due.
LEMMA RoundStartKeeps ==
    ASSUME AuthorizationAssumption, AuthorizationInv, RoundStart
    PROVE  AuthorizationInv' /\ pc' = "loop"
<1> DEFINE listed == listAwaitingAuthorizationDue
           n      == Min({BatchSize, Len(listed)})
<1>1. /\ queue \in Seq(Executions) /\ IsInjective(queue) /\ due \in 0..Len(queue)
      /\ Range(queue) = { e \in Executions : state[e] = "awaiting_authorization" }
  BY DEF AuthorizationInv, QueueInv
<1>2. /\ inFlight' = TRUE /\ relayerTick' = TRUE /\ pc' = "loop" /\ batch' = SubSeq(listed, 1, n)
      /\ UNCHANGED <<state, queue, due, source, attempt, world, history>>
  BY DEF RoundStart
<1>3. /\ listed \in Seq(Executions) /\ Len(listed) = due /\ IsInjective(listed)
      /\ \A i \in 1..due : i \in 1..Len(queue) /\ listed[i] = queue[i]
  BY <1>1, PrefixOf DEF listAwaitingAuthorizationDue
<1>4. due \in Nat
  BY <1>1, LenProperties
<1>5. n \in 0..Len(listed)
  <2>1. BatchSize \in Nat
    BY DEF AuthorizationAssumption
  <2> HIDE DEF listed
  <2>2. \E x \in {BatchSize, Len(listed)} : \A y \in {BatchSize, Len(listed)} : x =< y
    <3>1. CASE BatchSize =< Len(listed)
      BY <1>3, <1>4, <2>1, <3>1
    <3>2. CASE ~(BatchSize =< Len(listed))
      BY <1>3, <1>4, <2>1, <3>2
    <3> QED
      BY <3>1, <3>2
  <2>3. n \in {BatchSize, Len(listed)} /\ \A y \in {BatchSize, Len(listed)} : n =< y
    BY <2>2 DEF Min
  <2> HIDE DEF n
  <2>4. n =< Len(listed) /\ n \in Nat
    BY <1>3, <1>4, <2>1, <2>3
  <2> QED
    BY <1>3, <1>4, <2>4
<1> HIDE DEF listed, n
<1>6. /\ batch' \in Seq(Executions) /\ Len(batch') = n /\ IsInjective(batch')
      /\ \A i \in 1..n : i \in 1..Len(listed) /\ batch'[i] = listed[i]
  BY <1>2, <1>3, <1>5, PrefixOf
<1>7. ASSUME NEW i \in 1..Len(batch') PROVE state'[batch'[i]] = "awaiting_authorization"
  <2>1. i \in 1..Len(listed) /\ batch'[i] = listed[i]
    BY <1>6
  <2>2. i \in 1..due
    BY <1>3, <2>1
  <2>3. i \in 1..Len(queue) /\ batch'[i] = queue[i]
    BY <1>3, <2>1, <2>2
  <2>4. batch'[i] \in Range(queue)
    <3>1. DOMAIN queue = 1..Len(queue)
      BY <1>1, LenProperties
    <3> QED
      BY <2>3, <3>1 DEF Range
  <2> QED
    BY <1>1, <1>2, <2>4
<1>8. BatchInv'
  BY <1>2, <1>6, <1>7 DEF BatchInv, Polling
<1>9. QueueInv'
  BY <1>2 DEF AuthorizationInv, QueueInv
<1>10. ConsentInv'
  BY <1>2 DEF ConsentInv, Polling
<1>11. RoundsDoNotOverlap'
  BY <1>2 DEF RoundsDoNotOverlap
<1>12. WorkerTypes'
  BY <1>2, <1>6 DEF AuthorizationInv, WorkerTypes, Place, world, history
<1> QED
  BY <1>2, <1>8, <1>9, <1>10, <1>11, <1>12 DEF AuthorizationInv

\* The ends of the ticks and of the round.
LEMMA RoundKeeps ==
    ASSUME AuthorizationInv, RelayerTickEnds \/ AuthorizationTickEnds \/ RoundEnds
    PROVE  AuthorizationInv'
<1>1. /\ UNCHANGED <<state, queue, due, batch, source, attempt, world, history>>
      /\ inFlight' \in BOOLEAN /\ relayerTick' \in BOOLEAN
      /\ pc' = pc \/ (pc' = "idle" /\ batch = <<>>)
  BY DEF RelayerTickEnds, AuthorizationTickEnds, RoundEnds, AuthorizationInv, WorkerTypes, tick
<1>2. QueueInv'
  BY <1>1 DEF AuthorizationInv, QueueInv
<1>3. BatchInv'
  BY <1>1 DEF AuthorizationInv, BatchInv, Polling
<1>4. ConsentInv'
  BY <1>1 DEF AuthorizationInv, ConsentInv, Polling, consents, cur, world, history
<1>5. RoundsDoNotOverlap'
  BY DEF AuthorizationInv, RoundsDoNotOverlap, RelayerTickEnds, AuthorizationTickEnds,
         RoundEnds, roundOver, tick
<1>6. WorkerTypes'
  BY <1>1 DEF AuthorizationInv, WorkerTypes, Place, world, history
<1> QED
  BY <1>2, <1>3, <1>4, <1>5, <1>6 DEF AuthorizationInv

\* The requests of the API: a new row, a canceled one.
LEMMA RequestKeeps ==
    ASSUME AuthorizationInv, NEW e \in Executions,
           createAwaitingAuthorization(e) \/ Cancel(e)
    PROVE  AuthorizationInv'
<1>1. UNCHANGED <<tick, inFlight, relayerTick, world, history>>
  BY DEF createAwaitingAuthorization, Cancel
<1>2. state \in [Executions -> RelayExecutionState \cup {"absent"}]
  BY DEF AuthorizationInv, WorkerTypes
<1>3. QueueInv'
  <2>1. CASE createAwaitingAuthorization(e)
    BY <2>1, CreateKeepsQueue DEF AuthorizationInv
  <2>2. CASE Cancel(e)
    <3>1. "canceled" \in RelayExecutionState \ {"awaiting_authorization"} /\ Leave(e, "canceled")
      BY <2>2 DEF Cancel, RelayExecutionState
    <3> QED
      BY <3>1, LeaveKeepsQueue DEF AuthorizationInv
  <2> QED
    BY <2>1, <2>2
<1>4. \E to \in {"awaiting_authorization", "canceled"} : state' = [state EXCEPT ![e] = to]
  BY DEF createAwaitingAuthorization, Cancel, Leave
<1>5. state' \in [Executions -> RelayExecutionState \cup {"absent"}]
  BY <1>2, <1>4 DEF RelayExecutionState
<1>6. BatchInv'
  <2>1. ASSUME NEW i \in 1..Len(batch)
        PROVE  state'[batch[i]] \in {"awaiting_authorization", "canceled"}
    <3>1. /\ state[batch[i]] \in {"awaiting_authorization", "canceled"}
          /\ batch[i] \in Executions
      BY ElementOfSeq DEF AuthorizationInv, BatchInv, WorkerTypes
    <3> QED
      BY <1>2, <1>4, <3>1
  <2>2. batch' = batch /\ pc' = pc
    BY <1>1 DEF tick
  <2> QED
    BY <2>1, <2>2 DEF AuthorizationInv, BatchInv
<1>7. ConsentInv'
  BY <1>1 DEF AuthorizationInv, ConsentInv, consents, cur, tick, world, history
<1>8. RoundsDoNotOverlap'
  BY <1>1 DEF AuthorizationInv, RoundsDoNotOverlap, tick
<1>9. WorkerTypes'
  BY <1>1, <1>5 DEF AuthorizationInv, WorkerTypes, tick, world, history
<1> QED
  BY <1>3, <1>6, <1>7, <1>8, <1>9 DEF AuthorizationInv

\* The owners act, a window closes, a poll falls due.
LEMMA OutsideKeeps ==
    ASSUME AuthorizationInv, NEW e \in Executions,
           OwnersAct(e) \/ Expire(e) \/ PollFallsDue(e)
    PROVE  AuthorizationInv'
<1>1. UNCHANGED <<state, queue, tick, inFlight, relayerTick, crashes>>
  BY DEF OwnersAct, Expire, PollFallsDue, tick, history, world
<1>2. QueueInv'
  <2>1. due' \in 0..Len(queue)
    <3>1. due \in 0..Len(queue) /\ Len(queue) \in Nat
      BY LenProperties DEF AuthorizationInv, QueueInv
    <3>2. CASE PollFallsDue(e)
      <4>1. \E i \in (due + 1)..Len(queue) : due' = i
        BY <3>2 DEF PollFallsDue
      <4> QED
        BY <3>1, <4>1
    <3>3. CASE OwnersAct(e) \/ Expire(e)
      BY <3>1, <3>3 DEF OwnersAct, Expire
    <3> QED
      BY <3>2, <3>3
  <2> QED
    BY <1>1, <2>1 DEF AuthorizationInv, QueueInv
<1>3. BatchInv'
  BY <1>1 DEF AuthorizationInv, BatchInv, tick
<1>4. ConsentInv' /\ WorkerTypes'
  <2>1. CASE OwnersAct(e)
    <3>1. PICK c \in Consent \ {consent[e]} : consent' = [consent EXCEPT ![e] = c]
      BY <2>1 DEF OwnersAct
    <3>2. /\ held' = (held \/ (batch # <<>> /\ e = cur
                                 /\ consent'[e] \in {"prepared", "onchain"}))
          /\ UNCHANGED <<expired, chainOk>>
      BY <2>1 DEF OwnersAct
    <3>3. /\ consent' \in [Executions -> Consent]
          /\ \A f \in Executions : f # e => consent'[f] = consent[f]
      BY <3>1 DEF AuthorizationInv, WorkerTypes
    <3>4. held \in BOOLEAN /\ held' \in BOOLEAN /\ (held => held')
      BY <3>2 DEF AuthorizationInv, WorkerTypes
    <3>5. ASSUME pc \in Polling, consent'[cur] \in {"prepared", "onchain"} PROVE held'
      <4>1. batch # <<>> /\ cur \in Executions
        BY <3>5, CurrentRow DEF AuthorizationInv, BatchInv
      <4>2. CASE e = cur
        BY <3>2, <3>5, <4>1, <4>2
      <4>3. CASE e # cur
        <5>1. consents(cur)
          BY <3>3, <3>5, <4>1, <4>3 DEF consents
        <5>2. held
          BY <3>5, <5>1 DEF AuthorizationInv, ConsentInv
        <5> QED
          BY <3>4, <5>2
      <4> QED
        BY <4>2, <4>3
    <3>6. ConsentInv'
      <4>1. cur' = cur /\ pc' = pc
        BY <1>1 DEF cur, tick
      <4> QED
        BY <3>4, <3>5, <4>1 DEF AuthorizationInv, ConsentInv, consents
    <3> QED
      BY <1>1, <3>2, <3>3, <3>4, <3>6 DEF AuthorizationInv, WorkerTypes, tick
  <2>2. CASE Expire(e)
    BY <1>1, <2>2 DEF Expire, AuthorizationInv, WorkerTypes, ConsentInv, consents, cur,
                      tick, history
  <2>3. CASE PollFallsDue(e)
    BY <1>1, <2>3 DEF PollFallsDue, AuthorizationInv, WorkerTypes, ConsentInv, consents, cur,
                      tick, history, world
  <2> QED
    BY <2>1, <2>2, <2>3
<1>5. RoundsDoNotOverlap'
  BY <1>1 DEF AuthorizationInv, RoundsDoNotOverlap, tick
<1> QED
  BY <1>2, <1>3, <1>4, <1>5 DEF AuthorizationInv

\* A restart loses the tick, and keeps the rows.
LEMMA CrashKeeps == ASSUME AuthorizationAssumption, AuthorizationInv, Crash PROVE AuthorizationInv'
<1>1. /\ pc' = "idle" /\ batch' = <<>> /\ source' = "onchain_safe_message" /\ attempt' = 0
      /\ inFlight' = FALSE /\ relayerTick' = FALSE
      /\ crashes < MaxCrashes /\ crashes' = crashes + 1
      /\ UNCHANGED <<state, queue, due, consent, expired, held>>
  BY DEF Crash
<1>2. chainOk' \in [Executions -> BOOLEAN]
  <2>1. chainOk \in [Executions -> BOOLEAN]
    BY DEF AuthorizationInv, WorkerTypes
  <2>2. \/ chainOk' = chainOk
        \/ \E e \in Removable : chainOk' = [chainOk EXCEPT ![e] = FALSE]
    BY DEF Crash
  <2> QED
    BY <2>1, <2>2
<1>3. QueueInv'
  BY <1>1 DEF AuthorizationInv, QueueInv
<1>4. BatchInv'
  <2>1. Len(batch') = 0 /\ DOMAIN batch' = {}
    BY <1>1
  <2> QED
    BY <1>1, <2>1 DEF BatchInv, IsInjective, Polling
<1>5. ConsentInv'
  BY <1>1 DEF ConsentInv, Polling
<1>6. RoundsDoNotOverlap'
  BY <1>1 DEF RoundsDoNotOverlap
<1>7. WorkerTypes'
  <2>1. 0 \in 0..(MaxAttempts - 1)
    BY DEF AuthorizationAssumption
  <2>2. crashes' \in 0..MaxCrashes
    BY <1>1 DEF AuthorizationAssumption, AuthorizationInv, WorkerTypes
  <2>3. /\ state' \in [Executions -> RelayExecutionState \cup {"absent"}]
        /\ consent' \in [Executions -> Consent] /\ expired' \in [Executions -> BOOLEAN]
        /\ held' \in BOOLEAN
    BY <1>1 DEF AuthorizationInv, WorkerTypes
  <2>4. pc' \in Place /\ source' \in Source
    BY <1>1 DEF Place, Source
  <2>5. batch' \in Seq(Executions) /\ attempt' \in 0..(MaxAttempts - 1)
    BY <1>1, <2>1
  <2>6. inFlight' \in BOOLEAN /\ relayerTick' \in BOOLEAN
    BY <1>1
  <2> QED
    BY <1>2, <2>2, <2>3, <2>4, <2>5, <2>6 DEF WorkerTypes
<1> QED
  BY <1>3, <1>4, <1>5, <1>6, <1>7 DEF AuthorizationInv

\* Every step keeps the invariant.
LEMMA AuthorizationStep ==
    ASSUME AuthorizationAssumption, AuthorizationInv, [Next]_vars
    PROVE  AuthorizationInv'
<1>1. CASE UNCHANGED vars
  BY <1>1 DEF vars, AuthorizationInv, WorkerTypes, QueueInv, BatchInv, ConsentInv,
              RoundsDoNotOverlap, consents, cur
<1>2. CASE Services
  BY <1>2, ServicesKeep
<1>3. CASE Rounds
  BY <1>3, RoundStartKeeps, RoundKeeps, NextRowKeeps DEF Rounds
<1>4. CASE RelayerTickEnds
  BY <1>4, RoundKeeps
<1>5. CASE Crash
  BY <1>5, CrashKeeps
<1>6. ASSUME NEW e \in Executions,
             \/ createAwaitingAuthorization(e) \/ Cancel(e)
             \/ OwnersAct(e) \/ Expire(e) \/ PollFallsDue(e)
      PROVE  AuthorizationInv'
  BY <1>6, RequestKeeps, OutsideKeeps
<1> QED
  BY <1>1, <1>2, <1>3, <1>4, <1>5, <1>6 DEF Next

-----------------------------------------------------------------------------
(* The theorems.                                                           *)

\* A step writes one row at most: one that is not terminal, and with "pending" only what
\* passed its preflight with the consent of the Safe.
LEMMA RowWritten ==
    ASSUME AuthorizationInv, [Next]_vars
    PROVE  \/ UNCHANGED state
           \/ \E f \in Executions, to \in RelayExecutionState :
                /\ state' = [state EXCEPT ![f] = to]
                /\ state[f] \notin TerminalState
                /\ to = "pending" => pc = "preflight" /\ f = cur /\ held
<1> DEFINE Written(f, to) == /\ state' = [state EXCEPT ![f] = to]
                             /\ state[f] \notin TerminalState
                             /\ to = "pending" => pc = "preflight" /\ f = cur /\ held
<1>1. ASSUME batch # <<>>, NEW to \in {"pending", "expired", "failed", "rejected"}, Settle(to),
             to = "pending" => pc = "preflight"
      PROVE  UNCHANGED state \/ Written(cur, to)
  <2>1. \/ mayWrite(cur, to) /\ Leave(cur, to)
        \/ UNCHANGED state
    BY <1>1 DEF Settle, scheduleNextPoll, AbortTick
  <2>2. ASSUME mayWrite(cur, to), Leave(cur, to) PROVE Written(cur, to)
    <3>1. state[cur] \in {"awaiting_authorization", "canceled"}
      BY <1>1, CurrentRow
    <3>2. state[cur] = "awaiting_authorization"
      BY <2>2, <3>1 DEF mayWrite, canTransitionState, allowedTransitions, RelayExecutionState,
                        TerminalState
    <3>3. pc = "preflight" => held
      BY DEF AuthorizationInv, ConsentInv
    <3> QED
      BY <1>1, <2>2, <3>2, <3>3 DEF Leave, TerminalState
  <2> QED
    BY <2>1, <2>2
<1>2. ASSUME batch # <<>>, NEW to \in {"pending", "expired", "failed", "rejected"}, Settle(to),
             to = "pending" => pc = "preflight"
      PROVE  UNCHANGED state \/ \E f \in Executions, t \in RelayExecutionState : Written(f, t)
  <2>1. cur \in Executions /\ to \in RelayExecutionState
    BY <1>2, CurrentRow DEF RelayExecutionState
  <2>2. UNCHANGED state \/ Written(cur, to)
    BY <1>1, <1>2
  <2> HIDE DEF Written
  <2> QED
    BY <2>1, <2>2
<1>3. CASE Services
  <2>1. batch # <<>>
    BY <1>3 DEF AuthorizationInv, BatchInv, Polling, Services, SignerLoaded, SignerUnavailable,
           Validated, ChainUnavailable, PreflightOk, PreflightReverts, MessageLoaded,
           MessageUnsupported, MessageError
  <2>2. \/ UNCHANGED state
        \/ Settle("rejected") \/ Settle("failed") \/ (pc = "preflight" /\ Settle("pending"))
    BY <1>3 DEF Services, SignerLoaded, SignerUnavailable, signerCaught, Validated,
           ChainUnavailable, PreflightOk, PreflightReverts, MessageLoaded, MessageUnsupported,
           MessageError, Go, scheduleNextPoll
  <2> HIDE DEF Written
  <2>3. UNCHANGED state \/ \E f \in Executions, t \in RelayExecutionState : Written(f, t)
    BY <1>2, <2>1, <2>2
  <2> QED
    BY <2>3 DEF Written
<1>4. CASE NextRow
  <2>1. batch # <<>> /\ (UNCHANGED state \/ Settle("expired") \/ Settle("failed"))
    BY <1>4 DEF NextRow
  <2> HIDE DEF Written
  <2>2. UNCHANGED state \/ \E f \in Executions, t \in RelayExecutionState : Written(f, t)
    BY <1>2, <2>1
  <2> QED
    BY <2>2 DEF Written
<1>5. ASSUME NEW e \in Executions, createAwaitingAuthorization(e) \/ Cancel(e)
      PROVE  \E f \in Executions, t \in RelayExecutionState : Written(f, t)
  <2>1. CASE createAwaitingAuthorization(e)
    <3>1. Written(e, "awaiting_authorization") /\ "awaiting_authorization" \in RelayExecutionState
      BY <2>1 DEF createAwaitingAuthorization, TerminalState, RelayExecutionState
    <3> HIDE DEF Written
    <3> QED
      BY <3>1
  <2>2. CASE Cancel(e)
    <3>1. Written(e, "canceled") /\ "canceled" \in RelayExecutionState
      BY <2>2 DEF Cancel, Leave, TerminalState, RelayExecutionState
    <3> HIDE DEF Written
    <3> QED
      BY <3>1
  <2> QED
    BY <1>5, <2>1, <2>2
<1>6. ASSUME NEW e \in Executions, OwnersAct(e) \/ Expire(e) \/ PollFallsDue(e)
      PROVE  UNCHANGED state
  BY <1>6 DEF OwnersAct, Expire, PollFallsDue
<1>7. CASE RoundStart \/ AuthorizationTickEnds \/ RoundEnds \/ RelayerTickEnds \/ Crash
  BY <1>7 DEF RoundStart, AuthorizationTickEnds, RoundEnds, RelayerTickEnds, Crash
<1>8. CASE UNCHANGED vars
  BY <1>8 DEF vars
<1> QED
  BY <1>3, <1>4, <1>5, <1>6, <1>7, <1>8 DEF Next, Rounds

\* The queue holds the awaiting rows in their order, the rows of the batch are awaiting or
\* canceled, and a consent that a promotion may rest on is noted, through every
\* interleaving of ticks, cancels, owners and restarts.
THEOREM QueueIsExact == Spec => []AuthorizationInv
<1>1. Init => AuthorizationInv
  BY AuthorizationAssumption, AuthorizationInit
<1>2. AuthorizationInv /\ [Next]_vars => AuthorizationInv'
  BY AuthorizationAssumption, AuthorizationStep
<1> QED
  BY <1>1, <1>2, PTL DEF Spec

\* The variables have their types, and the awaiting rows are the queue.
THEOREM AuthorizationTypes == Spec => []AuthorizationTypeOK
<1>1. AuthorizationInv => AuthorizationTypeOK
  BY DEF AuthorizationInv, WorkerTypes, QueueInv, AuthorizationTypeOK
<1> QED
  BY <1>1, QueueIsExact, PTL

\* The interval begins no round while a tick of the last one is running.
THEOREM RoundsAreSerial == Spec => []RoundsDoNotOverlap
<1>1. AuthorizationInv => RoundsDoNotOverlap
  BY DEF AuthorizationInv
<1> QED
  BY <1>1, QueueIsExact, PTL

\* A row that the tick listed, or awaited a service about, is never brought back once its
\* client canceled it.
THEOREM DecisionsAreFinal == Spec => DecisionIsFinal
<1> DEFINE Final == \A e \in Executions : state[e] \in TerminalState => state'[e] = state[e]
<1>1. ASSUME AuthorizationInv, [Next]_vars PROVE Final
  <2> SUFFICES ASSUME NEW e \in Executions, state[e] \in TerminalState
               PROVE  state'[e] = state[e]
    OBVIOUS
  <2>1. ASSUME NEW f \in Executions, NEW to, state' = [state EXCEPT ![f] = to],
               state[f] \notin TerminalState
        PROVE  state'[e] = state[e]
    BY <2>1 DEF AuthorizationInv, WorkerTypes
  <2> QED
    BY <1>1, <2>1, RowWritten
<1> HIDE DEF Final
<1>2. AuthorizationInv /\ [Next]_vars => [Final]_vars
  BY <1>1
<1>3. Spec => [][Final]_vars
  BY <1>2, QueueIsExact, PTL DEF Spec
<1> QED
  BY <1>3 DEF DecisionIsFinal, Final

\* A Safe execution goes to the relayer worker only from its preflight, and only if the
\* Safe consented during the poll that sends it there.
THEOREM PromotionsHaveConsent == Spec => PromotionHasConsent
<1> DEFINE Backed == \A e \in Executions :
                        state[e] = "awaiting_authorization" /\ state'[e] = "pending" =>
                          /\ pc = "preflight" /\ cur = e
                          /\ held
<1>1. ASSUME AuthorizationInv, [Next]_vars PROVE Backed
  <2> SUFFICES ASSUME NEW e \in Executions,
                      state[e] = "awaiting_authorization", state'[e] = "pending"
               PROVE  pc = "preflight" /\ cur = e /\ held
    OBVIOUS
  <2>1. ASSUME NEW f \in Executions, NEW to, state' = [state EXCEPT ![f] = to],
               to = "pending" => pc = "preflight" /\ f = cur /\ held
        PROVE  pc = "preflight" /\ cur = e /\ held
    <3>1. f = e /\ to = "pending"
      BY <2>1 DEF AuthorizationInv, WorkerTypes
    <3> QED
      BY <2>1, <3>1
  <2>2. ~UNCHANGED state
    OBVIOUS
  <2> QED
    BY <1>1, <2>1, <2>2, RowWritten
<1> HIDE DEF Backed
<1>2. AuthorizationInv /\ [Next]_vars => [Backed]_vars
  BY <1>1
<1>3. Spec => [][Backed]_vars
  BY <1>2, QueueIsExact, PTL DEF Spec
<1> QED
  BY <1>3 DEF PromotionHasConsent, Backed

\* An exception ends a tick before its batch is done only on a row that its client
\* canceled in the meantime.
THEOREM FailedTicksAreCancels == Spec => TickFailsOnlyOnCancel
<1> DEFINE OnCancel == pc # "idle" /\ pc' = "idle" /\ inFlight' =>
                          batch = <<>> \/ state[cur] = "canceled"
<1>1. ASSUME AuthorizationInv, [Next]_vars PROVE OnCancel
  <2> SUFFICES ASSUME pc # "idle", pc' = "idle", inFlight'
               PROVE  batch = <<>> \/ state[cur] = "canceled"
    OBVIOUS
  <2>1. pc' # pc
    OBVIOUS
  <2>2. CASE Services \/ NextRow
    BY <1>1, <2>2, ServicesKeep, NextRowKeeps, AuthorizationAssumption
  <2>3. CASE AuthorizationTickEnds
    BY <2>3 DEF AuthorizationTickEnds
  <2>4. CASE RoundStart
    BY <2>4 DEF RoundStart
  <2>5. CASE Crash
    BY <2>5 DEF Crash
  <2>6. ASSUME NEW e \in Executions,
               \/ createAwaitingAuthorization(e) \/ Cancel(e)
               \/ OwnersAct(e) \/ Expire(e) \/ PollFallsDue(e)
        PROVE  FALSE
    BY <2>1, <2>6 DEF createAwaitingAuthorization, Cancel, OwnersAct, Expire, PollFallsDue, tick
  <2>7. CASE RoundEnds \/ RelayerTickEnds \/ UNCHANGED vars
    BY <2>1, <2>7 DEF RoundEnds, RelayerTickEnds, vars, tick
  <2> QED
    BY <1>1, <2>2, <2>3, <2>4, <2>5, <2>6, <2>7 DEF Next, Rounds
<1> HIDE DEF OnCancel
<1>2. AuthorizationInv /\ [Next]_vars => [OnCancel]_vars
  BY <1>1
<1>3. Spec => [][OnCancel]_vars
  BY <1>2, QueueIsExact, PTL DEF Spec
<1> QED
  BY <1>3 DEF TickFailsOnlyOnCancel, OnCancel

=============================================================================
