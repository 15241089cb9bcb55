---------------------------- MODULE AdmissionProofs ----------------------------
(***************************************************************************)
(* Proofs about Admission: whatever the requests, their order, the failed  *)
(* writes and the crashes, an intent has one execution, and answers name   *)
(* rows as they are.                                                       *)
(***************************************************************************)
EXTENDS Admission, TLAPS

Row == [ client : Clients, intent : Intents, state : {"pending", "awaiting_authorization"},
         forceAfterPreflightRevert : BOOLEAN, by : Requests \X Nat ]

\* The types, as far as the proofs need them.
RowsTyped ==
    /\ rows \in Seq(Row)
    /\ pc \in [Requests -> Place]
    /\ answer \in [Requests -> [status : Nat, id : Nat]]
    /\ profile \in [Requests -> Profiles]
    /\ tries \in [Requests -> Nat]

\* The attempt in hand has inserted nothing yet, and those to come have not either.
AttemptsAhead ==
    \A i \in 1..Len(rows), r \in Requests :
        rows[i].by[1] = r =>
            /\ rows[i].by[2] <= tries[r]
            /\ pc[r] # "answered" => rows[i].by[2] # tries[r]

AnswerMatches(r) ==
    LET a == answer[r] IN
    /\ a.id # NoId =>
         /\ a.id \in 1..Len(rows)
         /\ rows[a.id].client = profile[r].client
         /\ rows[a.id].intent = profile[r].intent
         /\ a.status = IF rows[a.id].by = <<r, tries[r]>> THEN 202 ELSE 200
    /\ a.status \in {200, 202} => a.id # NoId
    /\ a.status = 409 =>
         \E id \in findByDedupKey(profile[r].intent) : rows[id].client # profile[r].client

AdmissionInv ==
    /\ RowsTyped
    /\ OneExecutionPerIntent
    /\ AttemptsAhead
    /\ \A r \in Requests : AnswerMatches(r)

-----------------------------------------------------------------------------
(* What a step of a handler comes to.                                      *)

Keeps == UNCHANGED <<profile, tries>>

Waits(r) == \E place \in Place \ {"answered"} :
    pc' = [pc EXCEPT ![r] = place] /\ UNCHANGED <<rows, answer>> /\ Keeps

Answers(r, status, id) ==
    /\ pc' = [pc EXCEPT ![r] = "answered"]
    /\ answer' = [answer EXCEPT ![r] = [status |-> status, id |-> id]]
    /\ Keeps

Refused(r) == \E status \in Nat :
    /\ Answers(r, status, NoId) /\ UNCHANGED rows
    /\ status \notin {0, 200, 202}
    /\ status = 409 =>
         \E id \in findByDedupKey(profile[r].intent) : rows[id].client # profile[r].client

Replayed(r) == \E id \in findByDedupKey(profile[r].intent) :
    /\ rows[id].client = profile[r].client
    /\ Answers(r, 200, id) /\ UNCHANGED rows

Perished ==
    /\ pc' = [r \in Requests |-> IF pc[r] \in Waiting THEN "answered" ELSE pc[r]]
    /\ UNCHANGED answer /\ Keeps

Inserts(r) ==
    /\ pc[r] \in Waiting
    /\ findByDedupKey(profile[r].intent) = {}
    /\ \E state \in {"pending", "awaiting_authorization"}, forced \in BOOLEAN :
         rows' = Append(rows, newRow(r, state, forced))
    /\ Answers(r, 202, Len(rows) + 1) \/ Answers(r, 500, NoId) \/ Perished

Outcome(r) == Waits(r) \/ Refused(r) \/ Replayed(r) \/ Inserts(r)

\* A handler that goes on to its next await.
LEMMA WaitsOutcome ==
  ASSUME NEW r \in Requests, NEW place \in Place \ {"answered"}, GoTo(r, place)
  PROVE  Outcome(r)
  BY DEF GoTo, Outcome, Waits, Keeps

\* A write that throws before the row is stored: a 500 that names no execution.
LEMMA WriteFailsOutcome ==
  ASSUME NEW r \in Requests, WriteFails(r), UNCHANGED rows
  PROVE  Outcome(r)
<1>1. Answers(r, 500, NoId)
  BY DEF WriteFails, Respond, Answers, Keeps
<1> QED BY <1>1 DEF Outcome, Refused

\* A rejection names no execution and says nothing about a duplicate.
LEMMA RejectOutcome ==
  ASSUME NEW r \in Requests, NEW x, x.status \in Nat, x.status \notin {0, 200, 202, 409},
         Reject(r, x)
  PROVE  Outcome(r)
<1>1. CASE Answers(r, x.status, NoId) /\ UNCHANGED rows
  BY <1>1 DEF Outcome, Refused
<1>2. CASE WriteFails(r) /\ UNCHANGED rows
  BY <1>2, WriteFailsOutcome
<1> QED BY <1>1, <1>2 DEF Reject, Respond, Answers, Keeps

\* A duplicate: the client's own row is replayed, that of another one hidden by a 409.
LEMMA ReplayOutcome ==
  ASSUME NEW r \in Requests, NEW id \in findByDedupKey(profile[r].intent),
         replayOrConflict(r, id)
  PROVE  Outcome(r)
<1>1. CASE (WriteFails(r) \/ FinalizeThrows(r, id)) /\ UNCHANGED rows
  <2>1. Answers(r, 500, NoId) /\ UNCHANGED rows
    BY <1>1 DEF WriteFails, FinalizeThrows, Respond, Answers, Keeps
  <2> QED BY <2>1 DEF Outcome, Refused
<1>2. CASE /\ rows[id].client = profile[r].client
           /\ ~((WriteFails(r) \/ FinalizeThrows(r, id)) /\ UNCHANGED rows)
  <2>1. Answers(r, 200, id) /\ UNCHANGED rows
    BY <1>2 DEF FinalizeThrows, replayOrConflict, Answer, Respond, Answers, Keeps, db
  <2> QED BY <1>2, <2>1 DEF Outcome, Replayed
<1>3. CASE /\ rows[id].client # profile[r].client
           /\ ~((WriteFails(r) \/ FinalizeThrows(r, id)) /\ UNCHANGED rows)
  <2>1. Answers(r, 409, NoId) /\ UNCHANGED rows
    BY <1>3 DEF replayOrConflict, Reject, Rejection, Respond, Answers, Keeps
  <2> QED BY <1>3, <2>1 DEF Outcome, Refused
<1> QED BY <1>1, <1>2, <1>3

\* An insertion that the UNIQUE index refuses is a duplicate; otherwise the intent had
\* no row.
LEMMA PersistOutcome ==
  ASSUME NEW r \in Requests, pc[r] \in Waiting,
         NEW state \in {"pending", "awaiting_authorization"}, NEW forced \in BOOLEAN,
         persistExecution(r, state, forced)
  PROVE  Outcome(r)
<1>1. CASE uniqueViolated(profile[r].intent)
  <2>1. PICK id \in findByDedupKey(profile[r].intent) : replayOrConflict(r, id)
    BY <1>1 DEF persistExecution
  <2> QED BY <2>1, ReplayOutcome
<1>2. CASE ~uniqueViolated(profile[r].intent)
  <2>1. findByDedupKey(profile[r].intent) = {}
    BY <1>2 DEF uniqueViolated
  <2>2. CASE WriteFails(r) /\ UNCHANGED rows
    BY <2>2, WriteFailsOutcome
  <2>3. CASE /\ rows' = Append(rows, newRow(r, state, forced))
             /\ Answers(r, 202, Len(rows) + 1) \/ Answers(r, 500, NoId) \/ Perished
    BY <2>1, <2>3 DEF Outcome, Inserts
  <2> QED
    BY <1>2, <2>2, <2>3
       DEF persistExecution, Answer, WriteFails, Dies, Respond, Answers, Perished, Keeps
<1> QED BY <1>1, <1>2

\* Whatever the handler does from one await to the next has one of the four outcomes.
LEMMA HandleOutcome ==
  ASSUME NEW r \in Requests, Handle(r)
  PROVE  Outcome(r)
<1>1. ASSUME NEW status \in {400, 403, 422, 503}, NEW code, NEW said,
             Reject(r, Rejection(status, code, said))
      PROVE  Outcome(r)
  BY <1>1, RejectOutcome DEF Rejection
<1>2. ASSUME NEW id \in findByDedupKey(profile[r].intent), replayOrConflict(r, id)
      PROVE  Outcome(r)
  BY <1>2, ReplayOutcome
<1>3. ASSUME NEW place \in Place \ {"answered"}, GoTo(r, place) PROVE Outcome(r)
  BY <1>3, WaitsOutcome
<1>4. CASE Arrive(r)
  <2>1. ASSUME NEW x \in { <<400, "VALIDATION_ERROR">>, <<401, "UNAUTHORIZED">> },
               Respond(r, x[1], NoId, countError(metrics[r], x[2])),
               UNCHANGED <<rows, events, audits, profile, tries, crashes, faults>>
        PROVE  Outcome(r)
    <3>1. x[1] \in {400, 401}
      OBVIOUS
    <3>2. Answers(r, x[1], NoId) /\ UNCHANGED rows
      BY <2>1 DEF Respond, Answers, Keeps
    <3> QED BY <3>1, <3>2 DEF Outcome, Refused
  <2>2. ASSUME NEW x \in StaticRejections, Reject(r, x) PROVE Outcome(r)
    <3>1. x.status \in {400, 403, 422}
      BY DEF StaticRejections, Rejection
    <3> QED BY <2>2, <3>1, RejectOutcome
  <2>3. "readiness" \in Place \ {"answered"}
    BY DEF Place
  <2> QED BY <1>3, <1>4, <2>1, <2>2, <2>3 DEF Arrive
<1>5. CASE ReadinessKnown(r)
  BY <1>1, <1>3, <1>5 DEF ReadinessKnown, NotReady, Place
<1>6. CASE RelayerKnown(r)
  <2>1. (IF profile[r].method = "permit2" THEN "witness" ELSE "digest") \in Place \ {"answered"}
    BY DEF Place
  <2> QED BY <1>1, <1>3, <1>6, <2>1 DEF RelayerKnown, NotReady, Unprocessable
<1>7. CASE DigestKnown(r)
  <2>1. {"bytecode", "signature"} \subseteq Place \ {"answered"}
    BY DEF Place
  <2> QED
    BY <1>1, <1>2, <1>3, <1>7, <2>1
       DEF DigestKnown, ChainUnavailable, NotEnabled, NotSupported
<1>8. CASE WitnessKnown(r)
  <2>1. "signature" \in Place \ {"answered"}
    BY DEF Place
  <2> QED BY <1>1, <1>2, <1>3, <1>8, <2>1 DEF WitnessKnown, ChainUnavailable
<1>9. CASE BytecodeKnown(r)
  <2>1. "owners" \in Place \ {"answered"}
    BY DEF Place
  <2> QED BY <1>1, <1>3, <1>9, <2>1 DEF BytecodeKnown, ChainUnavailable, Unprocessable
<1>10. CASE OwnersKnown(r)
  <2>1. pc[r] \in Waiting
    BY <1>10 DEF OwnersKnown, Waiting, Place
  <2>2. CASE Reject(r, Unprocessable("VALIDATION_ERROR"))
    BY <1>1, <2>2 DEF Unprocessable
  <2>3. CASE persistExecution(r, "awaiting_authorization", FALSE)
    BY <2>1, <2>3, PersistOutcome
  <2> QED BY <1>10, <2>2, <2>3 DEF OwnersKnown
<1>11. CASE SignatureKnown(r)
  <2>1. "preflight" \in Place \ {"answered"}
    BY DEF Place
  <2> QED BY <1>1, <1>3, <1>11, <2>1 DEF SignatureKnown, ChainUnavailable, Unprocessable
<1>12. CASE PreflightKnown(r)
  <2>1. pc[r] \in Waiting
    BY <1>12 DEF PreflightKnown, Waiting, Place
  <2>2. PICK result \in PreflightResult :
          LET reverts == result = "deterministic_revert" IN
          \/ result = "rpc_unavailable" /\ Reject(r, ChainUnavailable)
          \/ reverts /\ ~profile[r].force /\ Reject(r, Unprocessable("PREFLIGHT_REVERTED"))
          \/ /\ result = "ok" \/ (reverts /\ profile[r].force)
             /\ persistExecution(r, "pending", reverts)
    BY <1>12 DEF PreflightKnown
  <2>3. (result = "deterministic_revert") \in BOOLEAN
    OBVIOUS
  <2>4. persistExecution(r, "pending", result = "deterministic_revert") => Outcome(r)
    BY <2>1, <2>3, PersistOutcome
  <2> QED BY <1>1, <2>2, <2>4 DEF ChainUnavailable, Unprocessable
<1> QED
  BY <1>4, <1>5, <1>6, <1>7, <1>8, <1>9, <1>10, <1>11, <1>12 DEF Handle

-----------------------------------------------------------------------------
(* The invariant.                                                          *)

\* Without rows and answers the invariant holds.
LEMMA AdmissionInitial == Init => AdmissionInv
<1> SUFFICES ASSUME Init PROVE AdmissionInv
  OBVIOUS
<1>1. rows = <<>> /\ Len(rows) = 0
  BY DEF Init
<1>2. RowsTyped
  BY <1>1 DEF Init, RowsTyped, NoAnswer, NoId, Place
<1>3. OneExecutionPerIntent /\ AttemptsAhead
  BY <1>1, SMT DEF OneExecutionPerIntent, AttemptsAhead
<1>4. ASSUME NEW r \in Requests PROVE AnswerMatches(r)
  BY <1>4 DEF Init, AnswerMatches, NoAnswer, NoId
<1> QED BY <1>2, <1>3, <1>4 DEF AdmissionInv

\* An answer given to r, and the rows left as they are.
LEMMA AnswersStep ==
  ASSUME AdmissionInv, NEW r \in Requests, NEW status \in Nat, NEW id \in Nat,
         Answers(r, status, id), UNCHANGED rows, AnswerMatches(r)'
  PROVE  AdmissionInv'
<1>1. /\ pc' = [pc EXCEPT ![r] = "answered"]
      /\ answer' = [answer EXCEPT ![r] = [status |-> status, id |-> id]]
      /\ UNCHANGED <<profile, tries, rows>>
  BY DEF Answers, Keeps
<1>2. RowsTyped'
  BY <1>1 DEF AdmissionInv, RowsTyped, Place
<1>3. OneExecutionPerIntent' /\ AttemptsAhead'
  BY <1>1 DEF AdmissionInv, RowsTyped, OneExecutionPerIntent, AttemptsAhead
<1>4. ASSUME NEW q \in Requests, q # r PROVE AnswerMatches(q)'
  <2>1. answer'[q] = answer[q]
    BY <1>1, <1>4 DEF AdmissionInv, RowsTyped
  <2>2. AnswerMatches(q)
    BY DEF AdmissionInv
  <2> QED BY <1>1, <2>1, <2>2 DEF AnswerMatches, findByDedupKey
<1> QED BY <1>2, <1>3, <1>4 DEF AdmissionInv

\* A refusal keeps the invariant: it names no row.
LEMMA RefusedStep ==
  ASSUME AdmissionInv, NEW r \in Requests, Refused(r)
  PROVE  AdmissionInv'
<1>1. PICK status \in Nat :
        /\ Answers(r, status, NoId) /\ UNCHANGED rows
        /\ status \notin {0, 200, 202}
        /\ status = 409 =>
             \E id \in findByDedupKey(profile[r].intent) : rows[id].client # profile[r].client
  BY DEF Refused
<1>2. answer'[r] = [status |-> status, id |-> NoId] /\ UNCHANGED <<rows, profile, tries>>
  BY <1>1 DEF Answers, Keeps, AdmissionInv, RowsTyped
<1>3. AnswerMatches(r)'
  BY <1>1, <1>2 DEF AnswerMatches, findByDedupKey
<1> QED BY <1>1, <1>3, AnswersStep DEF NoId

\* A replay keeps the invariant: the row it names was inserted by another attempt.
LEMMA ReplayedStep ==
  ASSUME AdmissionInv, NEW r \in Requests, pc[r] # "answered", Replayed(r)
  PROVE  AdmissionInv'
<1>1. PICK id \in findByDedupKey(profile[r].intent) :
        /\ rows[id].client = profile[r].client
        /\ Answers(r, 200, id) /\ UNCHANGED rows
  BY DEF Replayed
<1>2. id \in 1..Len(rows) /\ rows[id].intent = profile[r].intent
  BY DEF findByDedupKey
<1>3. answer'[r] = [status |-> 200, id |-> id] /\ UNCHANGED <<rows, profile, tries>>
  BY <1>1 DEF Answers, Keeps, AdmissionInv, RowsTyped
<1>4. rows[id].by # <<r, tries[r]>>
  BY <1>2 DEF AdmissionInv, AttemptsAhead
<1>5. id # NoId /\ id \in Nat
  BY <1>2, SMT DEF NoId, AdmissionInv, RowsTyped
<1>6. AnswerMatches(r)'
  BY <1>1, <1>2, <1>3, <1>4, <1>5 DEF AnswerMatches
<1> QED BY <1>1, <1>5, <1>6, AnswersStep

\* Going on to an await keeps the invariant.
LEMMA WaitsStep ==
  ASSUME AdmissionInv, NEW r \in Requests, pc[r] # "answered", Waits(r)
  PROVE  AdmissionInv'
<1>1. PICK place \in Place \ {"answered"} :
        pc' = [pc EXCEPT ![r] = place] /\ UNCHANGED <<rows, answer, profile, tries>>
  BY DEF Waits, Keeps
<1>2. RowsTyped' /\ OneExecutionPerIntent'
  BY <1>1 DEF AdmissionInv, RowsTyped, OneExecutionPerIntent
<1>3. AttemptsAhead'
  BY <1>1 DEF AdmissionInv, RowsTyped, AttemptsAhead
<1>4. \A q \in Requests : AnswerMatches(q)'
  BY <1>1 DEF AdmissionInv, AnswerMatches, findByDedupKey
<1> QED BY <1>2, <1>3, <1>4 DEF AdmissionInv

-----------------------------------------------------------------------------
(* The insertion: the ids of the rows before it stay, and theirs is new.   *)

\* Appending a row keeps the rows before it and gives it the next id.
LEMMA AppendedRows ==
  ASSUME NEW rs \in Seq(Row), NEW x \in Row, NEW more, more = Append(rs, x)
  PROVE  /\ more \in Seq(Row) /\ Len(rs) \in Nat
         /\ Len(more) = Len(rs) + 1
         /\ more[Len(rs) + 1] = x
         /\ \A i \in 1..Len(rs) : more[i] = rs[i]
         /\ 1..Len(more) = 1..Len(rs) \cup {Len(rs) + 1}
  OBVIOUS

\* Whatever becomes of r, an insertion that ends its attempt keeps the invariant
\* if what the requests were answered fits the rows there are now.
LEMMA InsertionStep ==
  ASSUME AdmissionAssumption, AdmissionInv, NEW r \in Requests, pc[r] # "answered",
         findByDedupKey(profile[r].intent) = {},
         NEW state \in {"pending", "awaiting_authorization"}, NEW forced \in BOOLEAN,
         rows' = Append(rows, newRow(r, state, forced)),
         UNCHANGED <<profile, tries>>,
         pc' \in [Requests -> Place], pc'[r] = "answered",
         \A q \in Requests : pc[q] = "answered" => pc'[q] = "answered",
         answer' \in [Requests -> [status : Nat, id : Nat]],
         \A q \in Requests \ {r} : answer'[q] = answer[q],
         AnswerMatches(r)'
  PROVE  AdmissionInv'
<1> DEFINE x == newRow(r, state, forced)
<1>1. x \in Row
  BY DEF AdmissionAssumption, Profile, AdmissionInv, RowsTyped, Row, newRow
<1>2. /\ x.by[1] = r /\ x.by[2] = tries[r] /\ x.intent = profile[r].intent
  BY DEF newRow
<1>3. rows \in Seq(Row) /\ tries \in [Requests -> Nat]
  BY DEF AdmissionInv, RowsTyped
<1> HIDE DEF x
<1>4. /\ rows' \in Seq(Row) /\ Len(rows) \in Nat
      /\ Len(rows') = Len(rows) + 1
      /\ rows'[Len(rows) + 1] = x
      /\ \A i \in 1..Len(rows) : rows'[i] = rows[i]
      /\ 1..Len(rows') = 1..Len(rows) \cup {Len(rows) + 1}
  BY <1>1, <1>3, AppendedRows DEF x
<1>5. RowsTyped'
  BY <1>4 DEF AdmissionInv, RowsTyped
<1>6. OneExecutionPerIntent'
  <2>1. \A i \in 1..Len(rows) : rows[i].intent # x.intent
    BY <1>2 DEF findByDedupKey
  <2> QED BY <1>4, <2>1 DEF AdmissionInv, OneExecutionPerIntent
<1>7. AttemptsAhead'
  <2> SUFFICES ASSUME NEW i \in 1..Len(rows'), NEW q \in Requests, rows'[i].by[1] = q
               PROVE  /\ rows'[i].by[2] <= tries[q]
                      /\ pc'[q] # "answered" => rows'[i].by[2] # tries[q]
    BY DEF AttemptsAhead
  <2>1. CASE i \in 1..Len(rows)
    <3>1. rows'[i] = rows[i]
      BY <1>4, <2>1
    <3>2. /\ rows[i].by[2] <= tries[q]
          /\ pc[q] # "answered" => rows[i].by[2] # tries[q]
      BY <2>1, <3>1 DEF AdmissionInv, AttemptsAhead
    <3> QED BY <3>1, <3>2
  <2>2. CASE i = Len(rows) + 1
    BY <1>2, <1>3, <1>4, <2>2
  <2> QED BY <1>4, <2>1, <2>2
<1>8. ASSUME NEW q \in Requests, q # r PROVE AnswerMatches(q)'
  <2>1. AnswerMatches(q) /\ answer'[q] = answer[q]
    BY <1>8 DEF AdmissionInv
  <2>2. \A id \in findByDedupKey(profile[q].intent) : rows'[id] = rows[id]
    BY <1>4 DEF findByDedupKey
  <2>3. 1..Len(rows) \subseteq 1..Len(rows')
    BY <1>4
  <2>4. answer[q].id # NoId =>
          /\ answer[q].id \in 1..Len(rows')
          /\ rows'[answer[q].id].client = profile[q].client
          /\ rows'[answer[q].id].intent = profile[q].intent
          /\ answer[q].status = IF rows'[answer[q].id].by = <<q, tries[q]>> THEN 202 ELSE 200
    BY <1>4, <2>1, <2>3 DEF AnswerMatches
  <2>5. answer[q].status = 409 =>
          \E id \in 1..Len(rows') : rows'[id].intent = profile[q].intent
                                   /\ rows'[id].client # profile[q].client
    <3>1. CASE answer[q].status = 409
      <4>1. PICK id \in findByDedupKey(profile[q].intent) : rows[id].client # profile[q].client
        BY <2>1, <3>1 DEF AnswerMatches
      <4>2. id \in 1..Len(rows') /\ rows[id].intent = profile[q].intent
        BY <2>3, <4>1 DEF findByDedupKey
      <4> QED BY <2>2, <4>1, <4>2
    <3> QED BY <3>1
  <2>6. answer[q].status \in {200, 202} => answer[q].id # NoId
    BY <2>1 DEF AnswerMatches
  <2>7. profile' = profile /\ tries' = tries
    OBVIOUS
  <2>8. answer'[q] = answer[q]
    BY <2>1
  <2> QED BY <2>4, <2>5, <2>6, <2>7, <2>8 DEF AnswerMatches, findByDedupKey
<1> QED BY <1>5, <1>6, <1>7, <1>8 DEF AdmissionInv

\* The insertion whose attempt was answered.
LEMMA AnsweredInsertion ==
  ASSUME AdmissionAssumption, AdmissionInv, NEW r \in Requests, pc[r] # "answered",
         findByDedupKey(profile[r].intent) = {},
         NEW state \in {"pending", "awaiting_authorization"}, NEW forced \in BOOLEAN,
         rows' = Append(rows, newRow(r, state, forced)),
         NEW status \in Nat, NEW id \in Nat, Answers(r, status, id),
         AnswerMatches(r)'
  PROVE  AdmissionInv'
<1>1. /\ pc' = [pc EXCEPT ![r] = "answered"]
      /\ answer' = [answer EXCEPT ![r] = [status |-> status, id |-> id]]
      /\ UNCHANGED <<profile, tries>>
  BY DEF Answers, Keeps
<1>2. pc \in [Requests -> Place] /\ answer \in [Requests -> [status : Nat, id : Nat]]
  BY DEF AdmissionInv, RowsTyped
<1>3. pc' \in [Requests -> Place] /\ pc'[r] = "answered"
  BY <1>1, <1>2 DEF Place
<1>4. answer' \in [Requests -> [status : Nat, id : Nat]]
  BY <1>1, <1>2
<1>5. \A q \in Requests : pc[q] = "answered" => pc'[q] = "answered"
  BY <1>1, <1>2
<1>6. \A q \in Requests \ {r} : answer'[q] = answer[q]
  BY <1>1, <1>2
<1> QED BY <1>1, <1>3, <1>4, <1>5, <1>6, InsertionStep

\* An insertion keeps the invariant, be it answered, failed afterwards, or cut off by a
\* crash.
LEMMA InsertsStep ==
  ASSUME AdmissionAssumption, AdmissionInv, NEW r \in Requests, Inserts(r)
  PROVE  AdmissionInv'
<1>1. PICK state \in {"pending", "awaiting_authorization"}, forced \in BOOLEAN :
        rows' = Append(rows, newRow(r, state, forced))
  BY DEF Inserts
<1>2. /\ pc[r] \in Waiting /\ pc[r] # "answered"
      /\ findByDedupKey(profile[r].intent) = {}
      /\ UNCHANGED <<profile, tries>>
  BY DEF Inserts, Answers, Perished, Keeps, Waiting
<1> DEFINE x == newRow(r, state, forced)
<1>3. x \in Row
  BY DEF AdmissionAssumption, Profile, AdmissionInv, RowsTyped, Row, newRow
<1>4. /\ x.by = <<r, tries[r]>> /\ x.client = profile[r].client
      /\ x.intent = profile[r].intent
  BY DEF newRow
<1>5. rows \in Seq(Row) /\ pc \in [Requests -> Place]
      /\ answer \in [Requests -> [status : Nat, id : Nat]]
  BY DEF AdmissionInv, RowsTyped
<1>6. /\ Len(rows) \in Nat
      /\ Len(rows') = Len(rows) + 1
      /\ rows'[Len(rows) + 1] = x
      /\ \A i \in 1..Len(rows) : rows'[i] = rows[i]
      /\ 1..Len(rows') = 1..Len(rows) \cup {Len(rows) + 1}
  BY <1>1, <1>3, <1>5, AppendedRows
<1> HIDE DEF x
<1>7. "answered" \in Place
  BY DEF Place
<1>8. CASE Answers(r, 202, Len(rows) + 1)
  <2>1. AnswerMatches(r)'
    <3>1. answer'[r] = [status |-> 202, id |-> Len(rows) + 1]
      BY <1>5, <1>8 DEF Answers
    <3>2. Len(rows) + 1 # NoId /\ Len(rows) + 1 \in 1..Len(rows')
      BY <1>6, SMT DEF NoId
    <3> QED BY <1>2, <1>4, <1>6, <3>1, <3>2 DEF AnswerMatches
  <2> QED BY <1>1, <1>2, <1>6, <1>8, <2>1, AnsweredInsertion
<1>9. CASE Answers(r, 500, NoId)
  <2>1. AnswerMatches(r)'
    BY <1>5, <1>9 DEF Answers, AnswerMatches
  <2> QED BY <1>1, <1>2, <1>9, <2>1, AnsweredInsertion DEF NoId
<1>10. CASE Perished
  <2>1. /\ pc' \in [Requests -> Place] /\ pc'[r] = "answered"
        /\ \A q \in Requests : pc[q] = "answered" => pc'[q] = "answered"
    BY <1>2, <1>5, <1>7, <1>10 DEF Perished
  <2>2. answer' = answer
    BY <1>10 DEF Perished
  <2>3. AnswerMatches(r)'
    <3>1. AnswerMatches(r)
      BY DEF AdmissionInv
    <3> QED BY <1>2, <1>6, <2>2, <3>1 DEF AnswerMatches
  <2> QED BY <1>1, <1>2, <1>5, <2>1, <2>2, <2>3, InsertionStep
<1> QED BY <1>8, <1>9, <1>10 DEF Inserts

\* A crash keeps the invariant: rows and given answers stay.
LEMMA CrashStep ==
  ASSUME AdmissionInv, Crash
  PROVE  AdmissionInv'
<1>1. /\ pc' = [r \in Requests |-> IF pc[r] \in Waiting THEN "answered" ELSE pc[r]]
      /\ UNCHANGED <<rows, answer, profile, tries>>
  BY DEF Crash, Dies
<1>2. RowsTyped' /\ OneExecutionPerIntent'
  BY <1>1 DEF AdmissionInv, RowsTyped, OneExecutionPerIntent, Place
<1>3. AttemptsAhead'
  BY <1>1 DEF AdmissionInv, RowsTyped, AttemptsAhead
<1>4. \A q \in Requests : AnswerMatches(q)'
  BY <1>1 DEF AdmissionInv, AnswerMatches, findByDedupKey
<1> QED BY <1>2, <1>3, <1>4 DEF AdmissionInv

\* A retry keeps the invariant: no row is of the attempt it opens.
LEMMA RetryStep ==
  ASSUME AdmissionInv, NEW r \in Requests, Retry(r)
  PROVE  AdmissionInv'
<1>1. /\ tries' = [tries EXCEPT ![r] = tries[r] + 1]
      /\ pc' = [pc EXCEPT ![r] = "new"]
      /\ answer' = [answer EXCEPT ![r] = [status |-> 0, id |-> 0]]
      /\ UNCHANGED <<rows, profile>>
  BY DEF Retry, NoAnswer, NoId
<1>2. RowsTyped' /\ OneExecutionPerIntent'
  BY <1>1 DEF AdmissionInv, RowsTyped, OneExecutionPerIntent, Place
<1>3. AttemptsAhead'
  <2> SUFFICES ASSUME NEW i \in 1..Len(rows), NEW q \in Requests, rows[i].by[1] = q
               PROVE  /\ rows[i].by[2] <= tries'[q]
                      /\ pc'[q] # "answered" => rows[i].by[2] # tries'[q]
    BY <1>1 DEF AttemptsAhead
  <2>1. rows[i].by[2] \in Nat
    <3>1. rows[i] \in Row
      BY DEF AdmissionInv, RowsTyped
    <3>2. rows[i].by \in Requests \X Nat
      BY <3>1 DEF Row
    <3> QED BY <3>2
  <2>2. rows[i].by[2] <= tries[q] /\ (pc[q] # "answered" => rows[i].by[2] # tries[q])
    BY DEF AdmissionInv, AttemptsAhead
  <2>3. CASE q = r
    <3>1. tries'[q] = tries[q] + 1 /\ tries[q] \in Nat
      BY <1>1, <2>3 DEF AdmissionInv, RowsTyped
    <3> QED BY <2>1, <2>2, <3>1
  <2>4. CASE q # r
    <3>1. tries'[q] = tries[q] /\ pc'[q] = pc[q]
      BY <1>1, <2>4 DEF AdmissionInv, RowsTyped
    <3> QED BY <2>2, <3>1
  <2> QED BY <2>3, <2>4
<1>4. ASSUME NEW q \in Requests PROVE AnswerMatches(q)'
  <2>1. CASE q = r
    BY <1>1, <2>1 DEF AdmissionInv, RowsTyped, AnswerMatches, NoId
  <2>2. CASE q # r
    <3>1. tries'[q] = tries[q] /\ answer'[q] = answer[q]
      BY <1>1, <2>2 DEF AdmissionInv, RowsTyped
    <3>2. AnswerMatches(q)
      BY DEF AdmissionInv
    <3> QED BY <1>1, <3>1, <3>2 DEF AnswerMatches, findByDedupKey
  <2> QED BY <2>1, <2>2
<1> QED BY <1>2, <1>3, <1>4 DEF AdmissionInv

\* A step of a handler keeps the invariant, by the outcome it has.
LEMMA HandleStep ==
  ASSUME AdmissionAssumption, AdmissionInv, NEW r \in Requests, Handle(r)
  PROVE  AdmissionInv'
<1>1. pc[r] # "answered"
  BY DEF Handle, Arrive, ReadinessKnown, RelayerKnown, DigestKnown, WitnessKnown,
         BytecodeKnown, OwnersKnown, SignatureKnown, PreflightKnown
<1>2. Waits(r) \/ Refused(r) \/ Replayed(r) \/ Inserts(r)
  BY HandleOutcome DEF Outcome
<1> QED BY <1>1, <1>2, WaitsStep, RefusedStep, ReplayedStep, InsertsStep

\* The inductive invariant, for any requests, profiles and bounds.
THEOREM AdmissionInductive == Spec => []AdmissionInv
<1>1. ASSUME AdmissionInv, [Next]_vars PROVE AdmissionInv'
  <2>1. CASE UNCHANGED vars
    <3>1. UNCHANGED <<rows, pc, answer, profile, tries>>
      BY <2>1 DEF vars
    <3> QED
      BY <1>1, <3>1 DEF AdmissionInv, RowsTyped, OneExecutionPerIntent, AttemptsAhead,
                        AnswerMatches, findByDedupKey
  <2>2. CASE Crash
    BY <1>1, <2>2, CrashStep
  <2>3. ASSUME NEW r \in Requests, Handle(r) PROVE AdmissionInv'
    BY <1>1, <2>3, HandleStep, AdmissionAssumption
  <2>4. ASSUME NEW r \in Requests, Retry(r) PROVE AdmissionInv'
    BY <1>1, <2>4, RetryStep
  <2> QED BY <1>1, <2>1, <2>2, <2>3, <2>4 DEF Next
<1> QED BY <1>1, AdmissionInitial, PTL DEF Spec

\* "Exact signed authorization retries are deduplicated" (README.md): however many
\* requests race for an intent between the lookup and the insertion, one row is stored.
THEOREM IntentHasOneExecution == Spec => []OneExecutionPerIntent
<1>1. AdmissionInv => OneExecutionPerIntent
  BY DEF AdmissionInv
<1> QED BY <1>1, AdmissionInductive, PTL

\* An answer that names an execution names the caller's own row of the intent, 202 only
\* for the attempt that inserted it; a 409 hides a row of another client.
THEOREM AnswersFitRows == Spec => []AnswersMatchRows
<1>1. AdmissionInv => AnswersMatchRows
  BY DEF AdmissionInv, AnswersMatchRows, AnswerMatches
<1> QED BY <1>1, AdmissionInductive, PTL

-----------------------------------------------------------------------------
(* The books: the audit rows and the counters of an attempt.               *)

Statuses == {0, 200, 202, 400, 401, 403, 409, 422, 500, 503}

Results == { "created", "duplicate", "rejected_client", "rejected_provider", "error" }

AuditCodes ==
    { x.audit : x \in StaticRejections }
      \cup { "READINESS_UNAVAILABLE", "CHAIN_UNAVAILABLE", "SIGNATURE_INVALID",
             "PREFLIGHT_REVERTED", "CREATED", "DUPLICATE_REPLAYED", "DUPLICATE_HIDDEN" }

AuditRow == [code : AuditCodes, id : Nat]
Audits == Seq(AuditRow)
Counters == [results : Seq(Results), invalid : Nat, actionable : Nat]

\* What is counted of an answer with status s.
Counts(s, m) ==
    s # 0 =>
      /\ m.results = << CASE s = 202 -> "created" [] s = 200 -> "duplicate"
                          [] s = 503 -> "rejected_provider" [] s = 500 -> "error"
                          [] OTHER -> "rejected_client" >>
      /\ m.actionable = IF s = 503 THEN 1 ELSE 0
      /\ m.invalid = IF s \in 400..499 THEN 1 ELSE 0

ResultOf(s, result) == result = IF s = 202 THEN "created" ELSE "duplicate"

\* The audit code that belongs to an answer with status s.
Told(s, code) ==
    /\ s = 202 <=> code = "CREATED"
    /\ s = 200 <=> code = "DUPLICATE_REPLAYED"
    /\ s = 409 <=> code = "DUPLICATE_HIDDEN"

\* The audit rows a of an answer with status s that names id: one, and it says so; none is
\* needed of an answer before admission, of a failure or of a broken connection.
Audited(s, id, a) ==
    \/ /\ a = <<>>
       /\ s \notin {200, 202, 403, 409, 422, 503}
    \/ \E x \in AuditRow :
         /\ a = <<x>>
         /\ s \in {200, 202, 403, 409, 422, 503} => x.id = id /\ Told(s, x.code)

\* An attempt on which nothing was said, written or counted.
Fresh(r) == answer[r] = NoAnswer /\ audits[r] = <<>> /\ metrics[r] = NoMetrics

BooksOf(r) ==
    /\ pc[r] # "answered" => Fresh(r)
    /\ Counts(answer[r].status, metrics[r])
    /\ Audited(answer[r].status, answer[r].id, audits[r])

BooksTyped ==
    /\ audits \in [Requests -> Audits]
    /\ metrics \in [Requests -> Counters]
    /\ \A r \in Requests : answer[r].status \in Statuses
    /\ events \subseteq 1..Len(rows)
    /\ tries \in [Requests -> 1..MaxTries]
    /\ crashes \in 0..MaxCrashes /\ faults \in 0..MaxFaults

BooksInv == BooksTyped /\ \A r \in Requests : BooksOf(r)

\* What an attempt that ends with an answer leaves in the books.
Closing(r, s, id, a, m) ==
    /\ pc' = [pc EXCEPT ![r] = "answered"]
    /\ answer' = [answer EXCEPT ![r] = [status |-> s, id |-> id]]
    /\ audits' = [audits EXCEPT ![r] = a]
    /\ metrics' = [metrics EXCEPT ![r] = m]
    /\ Counts(s, m) /\ Audited(s, id, a)
    /\ UNCHANGED tries

Closes(r) == \E s \in Statuses \ {0}, id \in Nat, a \in Audits, m \in Counters :
    Closing(r, s, id, a, m)

\* What a crash leaves there: at most the row of the creation that was audited before it.
Breaks(r) ==
    /\ pc' = [q \in Requests |-> IF pc[q] \in Waiting THEN "answered" ELSE pc[q]]
    /\ UNCHANGED <<answer, metrics, tries>>
    /\ \/ UNCHANGED audits
       \/ pc[r] \in Waiting /\ \E id \in Nat : Audit(r, "CREATED", id)

GoesOnOf(r) == \E place \in Place \ {"answered"} :
    /\ pc' = [pc EXCEPT ![r] = place]
    /\ UNCHANGED <<answer, audits, metrics, tries>>

\* The rows, their first events and the bounds.
Grows ==
    /\ \/ UNCHANGED <<rows, events>>
       \/ /\ \E x : rows' = Append(rows, x)
          /\ UNCHANGED events \/ events' = events \cup {Len(rows) + 1}
    /\ UNCHANGED crashes \/ (crashes < MaxCrashes /\ crashes' = crashes + 1)
    /\ UNCHANGED faults \/ (faults < MaxFaults /\ faults' = faults + 1)

Books(r) == (Closes(r) \/ Breaks(r) \/ GoesOnOf(r)) /\ Grows

\* A rejection is one of the client or one of the provider, and its status says which.
Fits(x) ==
    /\ x.status \in {400, 403, 409, 422, 503} /\ x.audit \in AuditCodes /\ Told(x.status, x.audit)
    /\ mapRequestResultFromApiError(x.code) =
         IF x.status = 503 THEN "rejected_provider" ELSE "rejected_client"
    /\ isActionableFailure(x.code) <=> x.status = 503
    /\ x.code \in ValidationFailure <=> x.status # 503

-----------------------------------------------------------------------------
(* What a step of a handler leaves in the books.                           *)

\* The audit row and the counter of an attempt are its first.
LEMMA FreshBooks ==
    ASSUME BooksTyped, NEW r \in Requests, Fresh(r)
    PROVE  /\ \A x : Append(audits[r], x) = <<x>>
           /\ \A result :
                recordRequestOnce(metrics[r], result) =
                  [results |-> <<result>>, invalid |-> 0, actionable |-> 0]
<1>1. \A x : Append(<<>>, x) = <<x>>
  OBVIOUS
<1> QED
  BY <1>1 DEF Fresh, NoMetrics, recordRequestOnce

\* An exception is counted as an error, and leaves the audit as it is or with the row of
\* what had been done.
LEMMA ErrorBooks ==
    ASSUME BooksTyped, NEW r \in Requests, Fresh(r),
           Respond(r, 500, NoId, recordRequestOnce(metrics[r], "error")), UNCHANGED tries,
           UNCHANGED audits \/ \E id \in Nat, code \in AuditCodes : Audit(r, code, id)
    PROVE  Closes(r)
<1> DEFINE m == [results |-> <<"error">>, invalid |-> 0, actionable |-> 0]
<1>1. /\ pc' = [pc EXCEPT ![r] = "answered"]
      /\ answer' = [answer EXCEPT ![r] = [status |-> 500, id |-> 0]]
      /\ metrics' = [metrics EXCEPT ![r] = m]
      /\ UNCHANGED tries
  BY FreshBooks DEF Respond, NoId
<1>2. m \in Counters /\ Counts(500, m)
  <2>1. "error" \in Results /\ 500 \notin 400..499
    BY DEF Results
  <2>2. <<"error">> \in Seq(Results)
    BY <2>1
  <2> QED
    BY <2>1, <2>2 DEF Counters, Counts
<1>3. PICK a \in Audits : audits' = [audits EXCEPT ![r] = a] /\ Audited(500, 0, a)
  <2>1. CASE UNCHANGED audits
    <3>1. audits' = [audits EXCEPT ![r] = <<>>] /\ <<>> \in Audits
      BY <2>1 DEF BooksTyped, Fresh, Audits
    <3>2. Audited(500, 0, <<>>)
      BY DEF Audited
    <3> QED
      BY <3>1, <3>2
  <2>2. ASSUME NEW id \in Nat, NEW code \in AuditCodes, Audit(r, code, id)
        PROVE  \E a \in Audits : audits' = [audits EXCEPT ![r] = a] /\ Audited(500, 0, a)
    <3> DEFINE x == [code |-> code, id |-> id]
    <3>1. audits' = [audits EXCEPT ![r] = <<x>>]
      BY <2>2, FreshBooks DEF Audit
    <3>2. x \in AuditRow
      BY DEF AuditRow
    <3> HIDE DEF x
    <3>3. <<x>> \in Audits
      BY <3>2 DEF Audits
    <3>4. Audited(500, 0, <<x>>)
      BY <3>2 DEF Audited
    <3> QED
      BY <3>1, <3>3, <3>4
  <2> QED
    BY <2>1, <2>2
<1> HIDE DEF m
<1>4. Closing(r, 500, 0, a, m) /\ 500 \in Statuses \ {0}
  BY <1>1, <1>2, <1>3 DEF Closing, Statuses
<1> QED
  BY <1>1, <1>2, <1>4 DEF Closes

\* A write that throws, before or after the row of the creation is audited.
LEMMA WriteFailsBooks ==
    ASSUME BooksTyped, NEW r \in Requests, Fresh(r), WriteFails(r),
           UNCHANGED audits \/ \E id \in Nat : Audit(r, "CREATED", id)
    PROVE  Closes(r) /\ UNCHANGED crashes /\ faults < MaxFaults /\ faults' = faults + 1
<1>1. "CREATED" \in AuditCodes
  BY DEF AuditCodes
<1>2. /\ Respond(r, 500, NoId, recordRequestOnce(metrics[r], "error"))
      /\ UNCHANGED <<tries, crashes>> /\ faults < MaxFaults /\ faults' = faults + 1
  BY DEF WriteFails
<1>3. UNCHANGED audits \/ \E id \in Nat, code \in AuditCodes : Audit(r, code, id)
  BY <1>1
<1> QED
  BY <1>2, <1>3, ErrorBooks

\* An answer that is audited and counted by its result.
LEMMA AnswerBooks ==
    ASSUME BooksTyped, NEW r \in Requests, Fresh(r), NEW id \in Nat,
           NEW s \in {200, 202}, NEW result, NEW code \in AuditCodes, Told(s, code),
           ResultOf(s, result),
           Answer(r, s, id, result, code)
    PROVE  Closes(r) /\ UNCHANGED <<crashes, faults>>
<1> DEFINE m == [results |-> <<result>>, invalid |-> 0, actionable |-> 0]
           x == [code |-> code, id |-> id]
<1>1. /\ pc' = [pc EXCEPT ![r] = "answered"]
      /\ answer' = [answer EXCEPT ![r] = [status |-> s, id |-> id]]
      /\ metrics' = [metrics EXCEPT ![r] = m]
      /\ audits' = [audits EXCEPT ![r] = <<x>>]
      /\ UNCHANGED <<tries, crashes, faults>>
  <2>1. recordRequestOnce(metrics[r], result) = m /\ Append(audits[r], x) = <<x>>
    <3>1. recordRequestOnce(metrics[r], result) = m
      BY FreshBooks
    <3>2. ASSUME NEW y  PROVE Append(audits[r], y) = <<y>>
      BY FreshBooks
    <3> QED
      BY <3>1, <3>2
  <2> HIDE DEF m
  <2> QED
    BY <2>1 DEF Answer, Respond, Audit
<1>2. result \in Results /\ s # 503 /\ s \notin 400..499
  BY DEF Results, ResultOf
<1>3. m \in Counters
  <2>1. <<result>> \in Seq(Results)
    BY <1>2
  <2> QED
    BY <2>1 DEF Counters
<1>4. Counts(s, m)
  BY <1>2 DEF Counts, ResultOf
<1>5. x \in AuditRow /\ x.id = id /\ x.code = code
  BY DEF AuditRow
<1> HIDE DEF m, x
<1>6. <<x>> \in Audits /\ Audited(s, id, <<x>>)
  BY <1>5 DEF Audits, Audited
<1>7. s \in Statuses \ {0}
  BY DEF Statuses
<1>8. Closing(r, s, id, <<x>>, m)
  BY <1>1, <1>4, <1>6 DEF Closing
<1> QED
  BY <1>1, <1>3, <1>6, <1>7, <1>8 DEF Closes

\* A rejection is audited, counted and, when the provider is to blame, reported.
LEMMA RejectBooks ==
    ASSUME BooksTyped, NEW r \in Requests, Fresh(r), NEW x, Fits(x), Reject(r, x)
    PROVE  Books(r)
<1>1. CASE WriteFails(r) /\ UNCHANGED <<rows, events, audits>>
  BY <1>1, WriteFailsBooks DEF Books, Grows
<1>2. CASE ~(WriteFails(r) /\ UNCHANGED <<rows, events, audits>>)
  <2> DEFINE provider == x.status = 503
             m == [results |-> <<IF provider THEN "rejected_provider" ELSE "rejected_client">>,
                   invalid |-> IF provider THEN 0 ELSE 1,
                   actionable |-> IF provider THEN 1 ELSE 0]
             y == [code |-> x.audit, id |-> 0]
  <2>1. /\ Audit(r, x.audit, NoId)
        /\ Respond(r, x.status, NoId,
                   [countError(metrics[r], x.code)
                      EXCEPT !.actionable = IF isActionableFailure(x.code) THEN @ + 1 ELSE @])
        /\ UNCHANGED <<rows, events, profile, tries, crashes, faults>>
    BY <1>2 DEF Reject
  <2>2. [countError(metrics[r], x.code)
           EXCEPT !.actionable = IF isActionableFailure(x.code) THEN @ + 1 ELSE @] = m
    <3>1. countError(metrics[r], x.code) =
            [results |-> <<mapRequestResultFromApiError(x.code)>>,
             invalid |-> IF x.code \in ValidationFailure THEN 1 ELSE 0, actionable |-> 0]
      <4> DEFINE f == mapRequestResultFromApiError(x.code)
      <4> HIDE DEF f
      <4>1. recordRequestOnce(metrics[r], f) =
              [results |-> <<f>>, invalid |-> 0, actionable |-> 0]
        BY FreshBooks
      <4>2. countError(metrics[r], x.code) =
              [recordRequestOnce(metrics[r], f)
                 EXCEPT !.invalid = IF x.code \in ValidationFailure THEN @ + 1 ELSE @]
        BY DEF countError, f
      <4> QED
        BY <4>1, <4>2 DEF f
    <3> QED
      BY <3>1 DEF Fits
  <2>3. /\ pc' = [pc EXCEPT ![r] = "answered"]
        /\ answer' = [answer EXCEPT ![r] = [status |-> x.status, id |-> 0]]
        /\ metrics' = [metrics EXCEPT ![r] = m]
        /\ audits' = [audits EXCEPT ![r] = <<y>>]
    BY <2>1, <2>2, FreshBooks DEF Respond, Audit, NoId
  <2>4. x.status \in {400, 403, 409, 422, 503} /\ x.audit \in AuditCodes /\ Told(x.status, x.audit)
    BY DEF Fits
  <2>5. x.status \in Statuses \ {0} /\ x.status \notin {200, 202, 500}
        /\ (x.status \in 400..499 <=> ~provider)
    BY <2>4 DEF Statuses
  <2>6. m \in Counters
    <3>1. (IF provider THEN "rejected_provider" ELSE "rejected_client") \in Results
      BY DEF Results
    <3>2. m.results \in Seq(Results)
      BY <3>1
    <3> QED
      BY <3>2 DEF Counters
  <2>7. Counts(x.status, m)
    BY <2>5 DEF Counts
  <2>8. y \in AuditRow /\ y.id = 0 /\ y.code = x.audit
    BY <2>4 DEF AuditRow
  <2> HIDE DEF m, y
  <2>9. <<y>> \in Audits /\ Audited(x.status, 0, <<y>>)
    BY <2>4, <2>8 DEF Audits, Audited
  <2>10. Closes(r)
    <3>1. Closing(r, x.status, 0, <<y>>, m)
      BY <2>1, <2>3, <2>7, <2>9 DEF Closing
    <3> QED
      BY <2>5, <2>6, <2>9, <3>1 DEF Closes
  <2> QED
    BY <2>1, <2>10 DEF Books, Grows
<1> QED
  BY <1>1, <1>2

\* A duplicate is audited and counted as one, and a hidden one as the client's mistake.
LEMMA ReplayBooks ==
    ASSUME AdmissionInv, BooksTyped, NEW r \in Requests, Fresh(r),
           NEW id \in findByDedupKey(profile[r].intent), replayOrConflict(r, id)
    PROVE  Books(r)
<1>1. id \in Nat
  BY SMT DEF findByDedupKey, AdmissionInv, RowsTyped
<1>2. CASE WriteFails(r) /\ UNCHANGED <<rows, events, audits>>
  BY <1>2, WriteFailsBooks DEF Books, Grows
<1>3. CASE Answer(r, 200, id, "duplicate", "DUPLICATE_REPLAYED") /\ UNCHANGED db
  <2>1. "DUPLICATE_REPLAYED" \in AuditCodes /\ Told(200, "DUPLICATE_REPLAYED")
        /\ ResultOf(200, "duplicate")
    BY DEF AuditCodes, Told, ResultOf
  <2>2. Closes(r) /\ UNCHANGED <<crashes, faults>>
    BY <1>1, <1>3, <2>1, AnswerBooks
  <2> QED
    BY <1>3, <2>2 DEF Books, Grows, db
<1>4. CASE Reject(r, Rejection(409, "DUPLICATE_EXECUTION", "DUPLICATE_HIDDEN"))
  <2>1. Fits(Rejection(409, "DUPLICATE_EXECUTION", "DUPLICATE_HIDDEN"))
    BY DEF Fits, Rejection, AuditCodes, Told, mapRequestResultFromApiError, isActionableFailure,
           ValidationFailure, RejectedProvider
  <2> QED
    BY <1>4, <2>1, RejectBooks
<1>5. CASE FinalizeThrows(r, id)
  <2>1. "DUPLICATE_REPLAYED" \in AuditCodes
    BY DEF AuditCodes
  <2>2. Closes(r) /\ UNCHANGED <<rows, events, crashes, faults>>
    BY <1>1, <1>5, <2>1, ErrorBooks DEF FinalizeThrows
  <2> QED
    BY <2>2 DEF Books, Grows
<1> QED
  BY <1>2, <1>3, <1>4, <1>5 DEF replayOrConflict

\* The creation is audited and counted as one, and an insertion cut off halfway is counted
\* as an error, or not at all when the process died.
LEMMA PersistBooks ==
    ASSUME AdmissionInv, BooksTyped, NEW r \in Requests, pc[r] \in Waiting, Fresh(r),
           NEW state, NEW forced, persistExecution(r, state, forced)
    PROVE  Books(r)
<1>1. Len(rows) + 1 \in Nat
  BY DEF AdmissionInv, RowsTyped
<1>2. CASE \E id \in findByDedupKey(profile[r].intent) : replayOrConflict(r, id)
  BY <1>2, ReplayBooks
<1>3. CASE /\ rows' = Append(rows, newRow(r, state, forced))
           /\ events' = events \cup {Len(rows) + 1}
           /\ Answer(r, 202, Len(rows) + 1, "created", "CREATED")
  <2>1. "CREATED" \in AuditCodes /\ Told(202, "CREATED") /\ ResultOf(202, "created")
    BY DEF AuditCodes, Told, ResultOf
  <2>2. Closes(r) /\ UNCHANGED <<crashes, faults>>
    BY <1>1, <1>3, <2>1, AnswerBooks
  <2> QED
    BY <1>3, <2>2 DEF Books, Grows
<1>4. CASE /\ rows' = Append(rows, newRow(r, state, forced))
           /\ WriteFails(r) \/ Dies
           /\ \/ UNCHANGED <<audits, events>>
              \/ /\ Audit(r, "CREATED", Len(rows) + 1)
                 /\ events' \in {events, events \cup {Len(rows) + 1}}
  <2>1. CASE WriteFails(r)
    BY <1>1, <1>4, <2>1, WriteFailsBooks DEF Books, Grows
  <2>2. CASE Dies
    <3>1. Breaks(r)
      BY <1>1, <1>4, <2>2 DEF Breaks, Dies
    <3> QED
      BY <1>4, <2>2, <3>1 DEF Books, Grows, Dies
  <2> QED
    BY <1>4, <2>1, <2>2
<1>5. CASE WriteFails(r) /\ UNCHANGED <<rows, events, audits>>
  BY <1>5, WriteFailsBooks DEF Books, Grows
<1> QED
  BY <1>2, <1>3, <1>4, <1>5 DEF persistExecution

\* Every rejection of the handler is counted on the side its status puts it.
LEMMA RejectionsFit ==
    /\ \A x \in StaticRejections : Fits(x)
    /\ \A code \in { "PROVIDER_NOT_READY", "RELAYER_UNAVAILABLE", "RELAYER_RATE_LIMITED" } :
         Fits(NotReady(code))
    /\ Fits(ChainUnavailable) /\ Fits(NotEnabled) /\ Fits(NotSupported)
    /\ \A code \in { "VALIDATION_ERROR", "SIGNATURE_INVALID", "PREFLIGHT_REVERTED" } :
         Fits(Unprocessable(code))
<1>1. \A x \in StaticRejections : x.audit \in AuditCodes
  BY DEF AuditCodes
<1>2. /\ "VALIDATION_ERROR" \in AuditCodes /\ "CHAIN_NOT_ALLOWED" \in AuditCodes
      /\ "READINESS_UNAVAILABLE" \in AuditCodes /\ "CHAIN_UNAVAILABLE" \in AuditCodes
      /\ "SIGNATURE_INVALID" \in AuditCodes /\ "PREFLIGHT_REVERTED" \in AuditCodes
  <2>1. /\ Rejection(400, "VALIDATION_ERROR", "VALIDATION_ERROR") \in StaticRejections
        /\ Rejection(403, "CHAIN_NOT_ALLOWED", "CHAIN_NOT_ALLOWED") \in StaticRejections
    BY DEF StaticRejections
  <2>2. /\ Rejection(400, "VALIDATION_ERROR", "VALIDATION_ERROR").audit = "VALIDATION_ERROR"
        /\ Rejection(403, "CHAIN_NOT_ALLOWED", "CHAIN_NOT_ALLOWED").audit = "CHAIN_NOT_ALLOWED"
    BY DEF Rejection
  <2>3. "VALIDATION_ERROR" \in AuditCodes /\ "CHAIN_NOT_ALLOWED" \in AuditCodes
    BY <1>1, <2>1, <2>2
  <2> QED
    BY <2>3 DEF AuditCodes
<1>3. ASSUME NEW x \in StaticRejections PROVE Fits(x)
  <2>1. x.audit \in AuditCodes
    BY <1>1
  <2>2. /\ x.status \in {400, 403, 422}
        /\ x.audit = x.code
        /\ x.code \in { "CHAIN_NOT_ALLOWED", "VALIDATION_ERROR", "INVALID_CLEAR_MACRO_PAYLOAD",
                        "PROVIDER_NOT_ALLOWED", "CLEAR_MACRO_EXPIRED",
                        "CLEAR_MACRO_NOT_YET_VALID", "MACRO_NOT_ALLOWED" }
    BY DEF StaticRejections, Rejection
  <2> QED
    BY <2>1, <2>2 DEF Fits, Told, mapRequestResultFromApiError, isActionableFailure,
                      ValidationFailure, RejectedProvider
<1>4. ASSUME NEW code \in { "PROVIDER_NOT_READY", "RELAYER_UNAVAILABLE", "RELAYER_RATE_LIMITED" }
      PROVE  Fits(NotReady(code))
  BY <1>2 DEF NotReady, Rejection, Fits, Told, mapRequestResultFromApiError, isActionableFailure,
              ValidationFailure, RejectedProvider
<1>5. Fits(ChainUnavailable) /\ Fits(NotEnabled) /\ Fits(NotSupported)
  BY <1>2 DEF ChainUnavailable, NotEnabled, NotSupported, Rejection, Fits, Told,
              mapRequestResultFromApiError, isActionableFailure, ValidationFailure, RejectedProvider
<1>6. ASSUME NEW code \in { "VALIDATION_ERROR", "SIGNATURE_INVALID", "PREFLIGHT_REVERTED" }
      PROVE  Fits(Unprocessable(code))
  BY <1>2 DEF Unprocessable, Rejection, Fits, Told, mapRequestResultFromApiError,
              isActionableFailure, ValidationFailure, RejectedProvider
<1> QED
  BY <1>3, <1>4, <1>5, <1>6

\* From one await to the next, the handler closes the books of the attempt, or dies, or goes
\* on without an entry.
LEMMA HandleBooks ==
    ASSUME AdmissionInv, BooksTyped, NEW r \in Requests, Fresh(r), Handle(r)
    PROVE  Books(r)
<1>1. ASSUME NEW place \in Place \ {"answered"}, GoTo(r, place) PROVE Books(r)
  BY <1>1 DEF GoTo, Books, GoesOnOf, Grows
<1>2. ASSUME NEW x, Fits(x), Reject(r, x) PROVE Books(r)
  BY <1>2, RejectBooks
<1>3. ASSUME NEW id \in findByDedupKey(profile[r].intent), replayOrConflict(r, id)
      PROVE  Books(r)
  BY <1>3, ReplayBooks
<1>4. CASE Arrive(r)
  <2>1. ASSUME NEW x \in { <<400, "VALIDATION_ERROR">>, <<401, "UNAUTHORIZED">> },
               Respond(r, x[1], NoId, countError(metrics[r], x[2])),
               UNCHANGED <<rows, events, audits, profile, tries, crashes, faults>>
        PROVE  Books(r)
    <3> DEFINE m == [results |-> <<"rejected_client">>, invalid |-> 1, actionable |-> 0]
    <3>1. x[1] \in {400, 401} /\ x[2] \in {"VALIDATION_ERROR", "UNAUTHORIZED"}
      OBVIOUS
    <3>2. countError(metrics[r], x[2]) = m
      <4>1. recordRequestOnce(metrics[r], "rejected_client") =
              [results |-> <<"rejected_client">>, invalid |-> 0, actionable |-> 0]
        BY FreshBooks
      <4>2. /\ mapRequestResultFromApiError(x[2]) = "rejected_client"
            /\ x[2] \in ValidationFailure
        BY <3>1 DEF mapRequestResultFromApiError, ValidationFailure, RejectedProvider
      <4>3. countError(metrics[r], x[2]) =
              [recordRequestOnce(metrics[r], "rejected_client") EXCEPT !.invalid = @ + 1]
        BY <4>2 DEF countError
      <4> QED
        BY <4>1, <4>3
    <3>3. m \in Counters
      <4>1. "rejected_client" \in Results
        BY DEF Results
      <4>2. m.results \in Seq(Results)
        BY <4>1
      <4> QED
        BY <4>2 DEF Counters
    <3>4. Counts(x[1], m)
      BY <3>1 DEF Counts
    <3>5. audits' = [audits EXCEPT ![r] = <<>>] /\ <<>> \in Audits
      BY <2>1 DEF BooksTyped, Fresh, Audits
    <3>6. Audited(x[1], 0, <<>>)
      BY <3>1 DEF Audited
    <3> HIDE DEF m
    <3>7. Closing(r, x[1], 0, <<>>, m)
      BY <2>1, <3>2, <3>4, <3>5, <3>6 DEF Closing, Respond, NoId
    <3>8. x[1] \in Statuses \ {0}
      BY <3>1 DEF Statuses
    <3> QED
      BY <2>1, <3>3, <3>5, <3>7, <3>8 DEF Books, Closes, Grows
  <2>2. "readiness" \in Place \ {"answered"}
    BY DEF Place
  <2> QED
    BY <1>1, <1>2, <1>4, <2>1, <2>2, RejectionsFit DEF Arrive
<1>5. CASE ReadinessKnown(r)
  BY <1>1, <1>2, <1>5, RejectionsFit DEF ReadinessKnown, Place
<1>6. CASE RelayerKnown(r)
  <2>1. (IF profile[r].method = "permit2" THEN "witness" ELSE "digest") \in Place \ {"answered"}
    BY DEF Place
  <2> QED
    BY <1>1, <1>2, <1>6, <2>1, RejectionsFit DEF RelayerKnown
<1>7. CASE DigestKnown(r)
  <2>1. {"bytecode", "signature"} \subseteq Place \ {"answered"}
    BY DEF Place
  <2> QED
    BY <1>1, <1>2, <1>3, <1>7, <2>1, RejectionsFit DEF DigestKnown
<1>8. CASE WitnessKnown(r)
  <2>1. "signature" \in Place \ {"answered"}
    BY DEF Place
  <2> QED
    BY <1>1, <1>2, <1>3, <1>8, <2>1, RejectionsFit DEF WitnessKnown
<1>9. CASE BytecodeKnown(r)
  <2>1. "owners" \in Place \ {"answered"}
    BY DEF Place
  <2> QED
    BY <1>1, <1>2, <1>9, <2>1, RejectionsFit DEF BytecodeKnown
<1>10. CASE OwnersKnown(r)
  <2>1. pc[r] \in Waiting
    BY <1>10 DEF OwnersKnown, Waiting, Place
  <2> QED
    BY <1>2, <1>10, <2>1, RejectionsFit, PersistBooks DEF OwnersKnown
<1>11. CASE SignatureKnown(r)
  <2>1. "preflight" \in Place \ {"answered"}
    BY DEF Place
  <2> QED
    BY <1>1, <1>2, <1>11, <2>1, RejectionsFit DEF SignatureKnown
<1>12. CASE PreflightKnown(r)
  <2>1. pc[r] \in Waiting
    BY <1>12 DEF PreflightKnown, Waiting, Place
  <2>2. \/ Reject(r, ChainUnavailable)
        \/ Reject(r, Unprocessable("PREFLIGHT_REVERTED"))
        \/ \E reverts \in BOOLEAN : persistExecution(r, "pending", reverts)
    BY <1>12 DEF PreflightKnown
  <2> QED
    BY <1>2, <2>1, <2>2, RejectionsFit, PersistBooks
<1> QED
  BY <1>4, <1>5, <1>6, <1>7, <1>8, <1>9, <1>10, <1>11, <1>12 DEF Handle

-----------------------------------------------------------------------------
(* The invariant of the books.                                             *)

\* Nothing is in the books at the start.
LEMMA BooksInitial == Init => BooksInv
<1> SUFFICES ASSUME Init PROVE BooksInv
  OBVIOUS
<1>1. /\ <<>> \in Audits /\ NoMetrics \in Counters /\ 1 \in 1..MaxTries
      /\ 0 \in 0..MaxCrashes /\ 0 \in 0..MaxFaults
  BY AdmissionAssumption, SMT DEF Audits, NoMetrics, Counters
<1>2. BooksTyped
  BY <1>1 DEF Init, BooksTyped, NoAnswer, Statuses
<1>3. ASSUME NEW r \in Requests PROVE BooksOf(r)
  <2>1. Fresh(r) /\ answer[r].status = 0
    BY DEF Init, Fresh, NoAnswer
  <2> QED
    BY <2>1 DEF BooksOf, Fresh, Counts, Audited
<1> QED
  BY <1>2, <1>3 DEF BooksInv

\* The attempts of the other requests keep their books.
LEMMA BooksStay ==
    ASSUME BooksInv, NEW r \in Requests,
           answer'[r] = answer[r], audits'[r] = audits[r], metrics'[r] = metrics[r],
           pc'[r] # "answered" => pc[r] # "answered"
    PROVE  BooksOf(r)'
BY DEF BooksInv, BooksOf, Fresh

\* The events are those of stored rows, and the bounds are kept.
LEMMA GrowsTyped ==
    ASSUME RowsTyped, BooksTyped, Grows
    PROVE  /\ (events \subseteq 1..Len(rows))'
           /\ crashes' \in 0..MaxCrashes /\ faults' \in 0..MaxFaults
<1>1. MaxCrashes \in Nat /\ MaxFaults \in Nat
  BY AdmissionAssumption
<1>2. crashes' \in 0..MaxCrashes /\ faults' \in 0..MaxFaults
  BY <1>1 DEF BooksTyped, Grows
<1>3. (events \subseteq 1..Len(rows))'
  <2>1. CASE UNCHANGED <<rows, events>>
    BY <2>1 DEF BooksTyped
  <2>2. ASSUME NEW x, rows' = Append(rows, x),
               UNCHANGED events \/ events' = events \cup {Len(rows) + 1}
        PROVE  (events \subseteq 1..Len(rows))'
    <3>1. Len(rows') = Len(rows) + 1 /\ Len(rows) \in Nat
      BY <2>2 DEF RowsTyped
    <3>2. 1..Len(rows) \subseteq 1..Len(rows') /\ Len(rows) + 1 \in 1..Len(rows')
      BY <3>1
    <3> QED
      BY <2>2, <3>2 DEF BooksTyped
  <2> QED
    BY <2>1, <2>2 DEF Grows
<1> QED
  BY <1>2, <1>3

\* A step of a handler keeps the books in order.
LEMMA HandleKeepsBooks ==
    ASSUME AdmissionInv, BooksInv, NEW r \in Requests, Handle(r)
    PROVE  BooksInv'
<1>1. pc[r] # "answered"
  BY DEF Handle, Arrive, ReadinessKnown, RelayerKnown, DigestKnown, WitnessKnown,
         BytecodeKnown, OwnersKnown, SignatureKnown, PreflightKnown
<1>2. Fresh(r)
  BY <1>1 DEF BooksInv, BooksOf
<1>3. Books(r)
  BY <1>2, HandleBooks DEF BooksInv
<1>4. /\ pc \in [Requests -> Place] /\ answer \in [Requests -> [status : Nat, id : Nat]]
      /\ audits \in [Requests -> Audits] /\ metrics \in [Requests -> Counters]
      /\ tries \in [Requests -> 1..MaxTries]
      /\ \A q \in Requests : answer[q].status \in Statuses
  BY DEF AdmissionInv, RowsTyped, BooksInv, BooksTyped
<1>5. (events \subseteq 1..Len(rows))' /\ crashes' \in 0..MaxCrashes /\ faults' \in 0..MaxFaults
  BY <1>3, GrowsTyped DEF Books, AdmissionInv, BooksInv
<1>6. CASE Closes(r)
  <2>1. PICK s \in Statuses \ {0}, id \in Nat, a \in Audits, m \in Counters :
          Closing(r, s, id, a, m)
    BY <1>6 DEF Closes
  <2>2. /\ pc'[r] = "answered" /\ answer'[r].status = s /\ answer'[r].id = id
        /\ audits'[r] = a /\ metrics'[r] = m
        /\ \A q \in Requests : q # r =>
             /\ pc'[q] = pc[q] /\ answer'[q] = answer[q]
             /\ audits'[q] = audits[q] /\ metrics'[q] = metrics[q]
    BY <1>4, <2>1 DEF Closing
  <2>3. /\ audits' \in [Requests -> Audits] /\ metrics' \in [Requests -> Counters]
        /\ tries' \in [Requests -> 1..MaxTries]
    BY <1>4, <2>1 DEF Closing
  <2>4. \A q \in Requests : answer'[q].status \in Statuses
    BY <1>4, <2>2
  <2>5. BooksOf(r)'
    BY <2>1, <2>2 DEF Closing, BooksOf
  <2>6. \A q \in Requests : q # r => BooksOf(q)'
    BY <2>2, BooksStay
  <2> QED
    BY <1>5, <2>3, <2>4, <2>5, <2>6 DEF BooksInv, BooksTyped
<1>7. CASE Breaks(r)
  <2>1. /\ UNCHANGED <<answer, metrics, tries>>
        /\ \A q \in Requests : pc'[q] # "answered" => pc[q] # "answered"
    BY <1>4, <1>7 DEF Breaks
  <2>2. CASE UNCHANGED audits
    <3>1. \A q \in Requests : BooksOf(q)'
      BY <2>1, <2>2, BooksStay
    <3> QED
      BY <1>4, <1>5, <2>1, <2>2, <3>1 DEF BooksInv, BooksTyped
  <2>3. ASSUME NEW id \in Nat, Audit(r, "CREATED", id), pc[r] \in Waiting
        PROVE  BooksInv'
    <3> DEFINE x == [code |-> "CREATED", id |-> id]
    <3>1. audits' = [audits EXCEPT ![r] = <<x>>]
      <4>1. Append(audits[r], x) = <<x>>
        BY <1>2, FreshBooks DEF BooksInv
      <4> QED
        BY <2>3, <4>1 DEF Audit
    <3>2. x \in AuditRow
      BY DEF AuditRow, AuditCodes
    <3> HIDE DEF x
    <3>3. <<x>> \in Audits
      BY <3>2 DEF Audits
    <3>4. audits' \in [Requests -> Audits]
      BY <1>4, <3>1, <3>3
    <3>5. answer[r].status = 0
      BY <1>2 DEF Fresh, NoAnswer
    <3>6. Audited(0, answer[r].id, <<x>>)
      BY <3>2 DEF Audited
    <3>7. BooksOf(r)'
      <4>1. pc'[r] = "answered" /\ audits'[r] = <<x>>
        BY <1>4, <1>7, <2>3, <3>1 DEF Breaks
      <4> QED
        BY <2>1, <3>5, <3>6, <4>1 DEF BooksOf, Counts
    <3>8. \A q \in Requests : q # r => BooksOf(q)'
      <4>1. \A q \in Requests : q # r => audits'[q] = audits[q]
        BY <1>4, <3>1
      <4> QED
        BY <2>1, <4>1, BooksStay
    <3> QED
      BY <1>4, <1>5, <2>1, <3>4, <3>7, <3>8 DEF BooksInv, BooksTyped
  <2> QED
    BY <1>7, <2>2, <2>3 DEF Breaks
<1>8. CASE GoesOnOf(r)
  <2>1. /\ UNCHANGED <<answer, audits, metrics, tries>>
        /\ \A q \in Requests : pc'[q] # "answered" => pc[q] # "answered"
    BY <1>1, <1>4, <1>8 DEF GoesOnOf
  <2>2. \A q \in Requests : BooksOf(q)'
    BY <2>1, BooksStay
  <2> QED
    BY <1>4, <1>5, <2>1, <2>2 DEF BooksInv, BooksTyped
<1> QED
  BY <1>3, <1>6, <1>7, <1>8 DEF Books

\* A crash closes no books, and a retry opens new ones.
LEMMA OtherStepsKeepBooks ==
    ASSUME AdmissionInv, BooksInv, Crash \/ (\E r \in Requests : Retry(r)) \/ UNCHANGED vars
    PROVE  BooksInv'
<1>1. /\ pc \in [Requests -> Place] /\ answer \in [Requests -> [status : Nat, id : Nat]]
      /\ audits \in [Requests -> Audits] /\ metrics \in [Requests -> Counters]
      /\ tries \in [Requests -> 1..MaxTries]
      /\ \A q \in Requests : answer[q].status \in Statuses
  BY DEF AdmissionInv, RowsTyped, BooksInv, BooksTyped
<1>2. Grows => (events \subseteq 1..Len(rows))' /\ crashes' \in 0..MaxCrashes
               /\ faults' \in 0..MaxFaults
  BY GrowsTyped DEF AdmissionInv, BooksInv
<1>3. CASE Crash \/ UNCHANGED vars
  <2>1. UNCHANGED <<answer, audits, metrics, tries>> /\ Grows
    BY <1>3 DEF Crash, Dies, vars, Grows
  <2>2. \A q \in Requests : pc'[q] # "answered" => pc[q] # "answered"
    BY <1>1, <1>3 DEF Crash, Dies, vars
  <2>3. \A q \in Requests : BooksOf(q)'
    BY <2>1, <2>2, BooksStay
  <2> QED
    BY <1>1, <1>2, <2>1, <2>3 DEF BooksInv, BooksTyped
<1>4. ASSUME NEW r \in Requests, Retry(r) PROVE BooksInv'
  <2>1. /\ pc' = [pc EXCEPT ![r] = "new"]
        /\ answer' = [answer EXCEPT ![r] = NoAnswer]
        /\ audits' = [audits EXCEPT ![r] = <<>>]
        /\ metrics' = [metrics EXCEPT ![r] = NoMetrics]
        /\ tries[r] < MaxTries /\ tries' = [tries EXCEPT ![r] = tries[r] + 1]
        /\ UNCHANGED <<rows, events, crashes, faults>>
    BY <1>4 DEF Retry
  <2>2. <<>> \in Audits /\ NoMetrics \in Counters /\ NoAnswer.status = 0 /\ 0 \in Statuses
    BY DEF Audits, NoMetrics, Counters, NoAnswer, Statuses
  <2>3. /\ audits' \in [Requests -> Audits] /\ metrics' \in [Requests -> Counters]
        /\ \A q \in Requests : answer'[q].status \in Statuses
    BY <1>1, <2>1, <2>2
  <2>4. tries' \in [Requests -> 1..MaxTries]
    BY <1>1, <2>1, AdmissionAssumption
  <2>5. BooksOf(r)'
    <3>1. answer'[r] = NoAnswer /\ audits'[r] = <<>> /\ metrics'[r] = NoMetrics
      BY <1>1, <2>1
    <3> QED
      BY <2>2, <3>1 DEF BooksOf, Fresh, Counts, Audited
  <2>6. ASSUME NEW q \in Requests, q # r PROVE BooksOf(q)'
    <3>1. /\ answer'[q] = answer[q] /\ audits'[q] = audits[q] /\ metrics'[q] = metrics[q]
          /\ pc'[q] = pc[q]
      BY <1>1, <2>1, <2>6
    <3> QED
      BY <3>1, BooksStay
  <2>7. Grows
    BY <2>1 DEF Grows
  <2> QED
    BY <1>2, <2>3, <2>4, <2>5, <2>6, <2>7 DEF BooksInv, BooksTyped
<1> QED
  BY <1>3, <1>4

\* Both invariants hold in every reachable state.
THEOREM BooksAreInOrder == Spec => [](AdmissionInv /\ BooksInv)
<1>1. Init => AdmissionInv /\ BooksInv
  BY AdmissionInitial, BooksInitial
<1>2. BooksInv /\ AdmissionInv /\ [Next]_vars => BooksInv'
  BY HandleKeepsBooks, OtherStepsKeepBooks DEF Next
<1> QED
  BY <1>1, <1>2, AdmissionInductive, PTL DEF Spec

\* The types of the variables.
THEOREM AdmissionTypes == Spec => []AdmissionTypeOK
<1>1. ASSUME AdmissionInv, BooksInv PROVE AdmissionTypeOK
  <2>1. /\ rows \in Seq(Row) /\ pc \in [Requests -> Place] /\ profile \in [Requests -> Profiles]
        /\ answer \in [Requests -> [status : Nat, id : Nat]]
        /\ BooksTyped /\ \A r \in Requests : AnswerMatches(r)
    BY <1>1 DEF AdmissionInv, RowsTyped, BooksInv
  <2>2. \A i \in 1..Len(rows) :
          /\ rows[i].client \in Clients /\ rows[i].intent \in Intents
          /\ rows[i].state \in {"pending", "awaiting_authorization"}
          /\ rows[i].forceAfterPreflightRevert \in BOOLEAN
    <3>1. \A i \in 1..Len(rows) : rows[i] \in Row
      BY <2>1
    <3> QED
      BY <3>1 DEF Row
  <2>3. \A r \in Requests : answer[r].id \in 0..Len(rows)
    <3>1. Len(rows) \in Nat
      BY <2>1
    <3>2. ASSUME NEW r \in Requests PROVE answer[r].id \in 0..Len(rows)
      <4>1. answer[r].id = 0 \/ answer[r].id \in 1..Len(rows)
        BY <2>1 DEF AnswerMatches, NoId
      <4> QED
        BY <3>1, <4>1
    <3> QED
      BY <3>2
  <2>4. answer \in [Requests -> [ status : {0, 200, 202, 400, 401, 403, 409, 422, 500, 503},
                                  id : 0..Len(rows) ]]
    <3>1. ASSUME NEW r \in Requests
          PROVE  answer[r] \in [status : Statuses, id : 0..Len(rows)]
      <4>1. answer[r] \in [status : Nat, id : Nat] /\ answer[r].status \in Statuses
        BY <2>1 DEF BooksTyped
      <4> QED
        BY <2>3, <4>1
    <3> QED
      BY <2>1, <3>1 DEF Statuses
  <2> QED
    BY <2>1, <2>2, <2>4 DEF AdmissionTypeOK, BooksTyped
<1> QED
  BY <1>1, BooksAreInOrder, PTL

\* An attempt that reached admission has one row in create_request_audit, with the answer
\* it was given and the execution that answer names.
THEOREM AuditsMatchAnswers == Spec => []AuditMatchesAnswer
<1>1. ASSUME BooksInv PROVE AuditMatchesAnswer
  <2> SUFFICES ASSUME NEW r \in Requests
               PROVE  /\ answer[r].status \in {200, 202, 403, 409, 422, 503} =>
                           /\ Len(audits[r]) = 1
                           /\ audits[r][1].id = answer[r].id
                           /\ answer[r].status = 202 <=> audits[r][1].code = "CREATED"
                           /\ answer[r].status = 200 <=> audits[r][1].code = "DUPLICATE_REPLAYED"
                           /\ answer[r].status = 409 <=> audits[r][1].code = "DUPLICATE_HIDDEN"
                      /\ Len(audits[r]) <= 1
    BY DEF AuditMatchesAnswer
  <2>1. Audited(answer[r].status, answer[r].id, audits[r])
    BY <1>1 DEF BooksInv, BooksOf
  <2>2. CASE audits[r] = <<>> /\ answer[r].status \notin {200, 202, 403, 409, 422, 503}
    BY <2>2
  <2>3. ASSUME NEW x \in AuditRow, audits[r] = <<x>>,
               answer[r].status \in {200, 202, 403, 409, 422, 503} =>
                 x.id = answer[r].id /\ Told(answer[r].status, x.code)
        PROVE  /\ answer[r].status \in {200, 202, 403, 409, 422, 503} =>
                    /\ Len(audits[r]) = 1
                    /\ audits[r][1].id = answer[r].id
                    /\ answer[r].status = 202 <=> audits[r][1].code = "CREATED"
                    /\ answer[r].status = 200 <=> audits[r][1].code = "DUPLICATE_REPLAYED"
                    /\ answer[r].status = 409 <=> audits[r][1].code = "DUPLICATE_HIDDEN"
               /\ Len(audits[r]) <= 1
    <3>1. Len(audits[r]) = 1 /\ audits[r][1] = x
      BY <2>3
    <3> QED
      BY <2>3, <3>1 DEF Told
  <2> QED
    BY <2>1, <2>2, <2>3 DEF Audited
<1> QED
  BY <1>1, BooksAreInOrder, PTL

\* An answered attempt is counted once and on the right side, and whoever is on call is
\* paged for the provider's failures only.
THEOREM MetricsMatchAnswers == Spec => []MetricsMatchAnswer
<1>1. BooksInv => MetricsMatchAnswer
  BY DEF BooksInv, BooksOf, Counts, MetricsMatchAnswer
<1> QED
  BY <1>1, BooksAreInOrder, PTL

-----------------------------------------------------------------------------
(* The refinement of AdmissionPromise.                                     *)

\* The owners of the intents, when the table holds rs.
ownersOf(rs) ==
    [k \in Intents |->
        IF { id \in 1..Len(rs) : rs[id].intent = k } = {} THEN "nobody"
        ELSE rs[CHOOSE id \in { id \in 1..Len(rs) : rs[id].intent = k } : TRUE].client]

ownerNow == ownersOf(rows)
toldNow == [r \in Requests |-> toldOf(answer[r].status)]

\* With one row per intent, the owner of the intent is the client of that row.
LEMMA OwnerOfRow ==
    ASSUME NEW rs, NEW k \in Intents,
           \A i, j \in 1..Len(rs) : rs[i].intent = rs[j].intent => i = j
    PROVE  /\ \A id \in 1..Len(rs) : rs[id].intent = k => ownersOf(rs)[k] = rs[id].client
           /\ (\A id \in 1..Len(rs) : rs[id].intent # k) => ownersOf(rs)[k] = "nobody"
<1> DEFINE S == { id \in 1..Len(rs) : rs[id].intent = k }
<1>1. ownersOf(rs)[k] = IF S = {} THEN "nobody" ELSE rs[CHOOSE id \in S : TRUE].client
  BY DEF ownersOf
<1>2. ASSUME NEW id \in S PROVE (CHOOSE i \in S : TRUE) = id
  <2>1. (CHOOSE i \in S : TRUE) \in S
    BY <1>2
  <2> QED
    BY <2>1
<1>3. \A id \in 1..Len(rs) : rs[id].intent = k => ownersOf(rs)[k] = rs[id].client
  <2> SUFFICES ASSUME NEW id \in 1..Len(rs), rs[id].intent = k
               PROVE  ownersOf(rs)[k] = rs[id].client
    OBVIOUS
  <2>1. id \in S
    OBVIOUS
  <2>2. (CHOOSE i \in S : TRUE) = id
    BY <1>2, <2>1
  <2> HIDE DEF S
  <2> QED
    BY <1>1, <2>1, <2>2
<1>4. (\A id \in 1..Len(rs) : rs[id].intent # k) => ownersOf(rs)[k] = "nobody"
  <2>1. (\A id \in 1..Len(rs) : rs[id].intent # k) => S = {}
    OBVIOUS
  <2> HIDE DEF S
  <2> QED
    BY <1>1, <2>1
<1> QED
  BY <1>3, <1>4

\* The first row of an intent gives it its owner, and no other intent another one.
LEMMA OwnerOfNewRow ==
    ASSUME NEW rs, NEW x, NEW more,
           Len(rs) \in Nat, Len(more) = Len(rs) + 1, more[Len(rs) + 1] = x,
           \A i \in 1..Len(rs) : more[i] = rs[i],
           \A i, j \in 1..Len(rs) : rs[i].intent = rs[j].intent => i = j,
           \A i \in 1..Len(rs) : rs[i].intent # x.intent
    PROVE  ownersOf(more) = [ownersOf(rs) EXCEPT ![x.intent] = x.client]
<1>1. 1..Len(more) = 1..Len(rs) \cup {Len(rs) + 1}
  OBVIOUS
<1>2. \A i, j \in 1..Len(more) : more[i].intent = more[j].intent => i = j
  BY <1>1
<1>3. ASSUME NEW k \in Intents
      PROVE  ownersOf(more)[k] = IF k = x.intent THEN x.client ELSE ownersOf(rs)[k]
  <2>1. CASE k = x.intent
    <3>1. Len(rs) + 1 \in 1..Len(more) /\ more[Len(rs) + 1].intent = k
      BY <1>1, <2>1
    <3>2. ownersOf(more)[k] = more[Len(rs) + 1].client
      BY <1>2, <3>1, OwnerOfRow
    <3> QED
      BY <1>1, <2>1, <3>2
  <2>2. CASE k # x.intent /\ \E id \in 1..Len(rs) : rs[id].intent = k
    <3>1. PICK id \in 1..Len(rs) : rs[id].intent = k
      BY <2>2
    <3>2. id \in 1..Len(more) /\ more[id] = rs[id]
      BY <1>1
    <3>3. ownersOf(rs)[k] = rs[id].client
      BY <3>1, OwnerOfRow
    <3>4. ownersOf(more)[k] = more[id].client
      <4>1. more[id].intent = k
        BY <3>1, <3>2
      <4>2. \A i \in 1..Len(more) : more[i].intent = k => ownersOf(more)[k] = more[i].client
        BY <1>2, OwnerOfRow
      <4> QED
        BY <3>2, <4>1, <4>2
    <3> QED
      BY <2>2, <3>2, <3>3, <3>4
  <2>3. CASE k # x.intent /\ \A id \in 1..Len(rs) : rs[id].intent # k
    <3>1. \A id \in 1..Len(more) : more[id].intent # k
      BY <1>1, <2>3
    <3>2. ownersOf(rs)[k] = "nobody" /\ ownersOf(more)[k] = "nobody"
      BY <1>2, <2>3, <3>1, OwnerOfRow
    <3> QED
      BY <2>3, <3>2
  <2> QED
    BY <2>1, <2>2, <2>3
<1>4. /\ DOMAIN ownersOf(more) = Intents /\ DOMAIN ownersOf(rs) = Intents
      /\ ownersOf(more) = [k \in Intents |-> ownersOf(more)[k]]
      /\ ownersOf(rs) = [k \in Intents |-> ownersOf(rs)[k]]
  BY DEF ownersOf
<1> QED
  BY <1>3, <1>4

\* The actions of the promise, in terms of the owners and of what was told.
LEMMA AdmissionPromiseVariables ==
    ASSUME NEW r \in Requests
    PROVE  /\ Promise!Create(r) <=>
                /\ ownerNow[profile[r].intent] = "nobody"
                /\ ownerNow' = [ownerNow EXCEPT ![profile[r].intent] = profile[r].client]
                /\ \/ Promise!Tell(r, "created") \/ Promise!Tell(r, "refused")
                   \/ toldNow[r] = "nothing" /\ profile' = profile /\ toldNow' = toldNow
           /\ Promise!Replay(r) <=>
                /\ ownerNow[profile[r].intent] = profile[r].client
                /\ Promise!Tell(r, "replayed") /\ ownerNow' = ownerNow
           /\ Promise!Hide(r) <=>
                /\ ownerNow[profile[r].intent] \notin {"nobody", profile[r].client}
                /\ Promise!Tell(r, "conflict") /\ ownerNow' = ownerNow
           /\ Promise!Refuse(r) <=> Promise!Tell(r, "refused") /\ ownerNow' = ownerNow
           /\ Promise!Ask(r) <=>
                /\ toldNow[r] # "nothing" /\ toldNow' = [toldNow EXCEPT ![r] = "nothing"]
                /\ profile' = profile /\ ownerNow' = ownerNow
           /\ \A what : Promise!Tell(r, what) <=>
                /\ toldNow[r] = "nothing" /\ toldNow' = [toldNow EXCEPT ![r] = what]
                /\ profile' = profile
           /\ Promise!promiseVars = <<profile, ownerNow, toldNow>>
           /\ (UNCHANGED Promise!promiseVars <=>
                profile' = profile /\ ownerNow' = ownerNow /\ toldNow' = toldNow)
<1> USE DEF ownerNow, toldNow, ownersOf, findByDedupKey
<1>1. \A what : Promise!Tell(r, what) <=>
        /\ toldNow[r] = "nothing" /\ toldNow' = [toldNow EXCEPT ![r] = what]
        /\ profile' = profile
  BY DEF Promise!Tell
<1>2. Promise!Create(r) <=>
        /\ ownerNow[profile[r].intent] = "nobody"
        /\ ownerNow' = [ownerNow EXCEPT ![profile[r].intent] = profile[r].client]
        /\ \/ Promise!Tell(r, "created") \/ Promise!Tell(r, "refused")
           \/ toldNow[r] = "nothing" /\ profile' = profile /\ toldNow' = toldNow
  BY DEF Promise!Create
<1>3. Promise!Replay(r) <=>
        /\ ownerNow[profile[r].intent] = profile[r].client
        /\ Promise!Tell(r, "replayed") /\ ownerNow' = ownerNow
  BY DEF Promise!Replay
<1>4. Promise!Hide(r) <=>
        /\ ownerNow[profile[r].intent] \notin {"nobody", profile[r].client}
        /\ Promise!Tell(r, "conflict") /\ ownerNow' = ownerNow
  BY DEF Promise!Hide
<1>5. Promise!Refuse(r) <=> Promise!Tell(r, "refused") /\ ownerNow' = ownerNow
  BY DEF Promise!Refuse
<1>6. Promise!Ask(r) <=>
        /\ toldNow[r] # "nothing" /\ toldNow' = [toldNow EXCEPT ![r] = "nothing"]
        /\ profile' = profile /\ ownerNow' = ownerNow
  BY DEF Promise!Ask
<1>7. Promise!promiseVars = <<profile, ownerNow, toldNow>>
  BY DEF Promise!promiseVars
<1>8. UNCHANGED Promise!promiseVars <=>
        profile' = profile /\ ownerNow' = ownerNow /\ toldNow' = toldNow
  BY DEF Promise!promiseVars
<1> QED
  BY <1>1, <1>2, <1>3, <1>4, <1>5, <1>6, <1>7, <1>8

\* One answer of one request, as the promise sees it.
LEMMA TellStep ==
    ASSUME AdmissionInv, BooksInv, NEW r \in Requests, Fresh(r),
           NEW s \in Nat, NEW id \in Nat, Answers(r, s, id)
    PROVE  Promise!Tell(r, toldOf(s))
<1>1. answer \in [Requests -> [status : Nat, id : Nat]]
  BY DEF AdmissionInv, RowsTyped
<1>2. toldNow[r] = "nothing"
  BY DEF Fresh, NoAnswer, toldNow, toldOf
<1>3. toldNow' = [toldNow EXCEPT ![r] = toldOf(s)]
  <2>1. toldNow' = [q \in Requests |-> toldOf(answer'[q].status)]
    BY DEF toldNow, toldOf
  <2>2. \A q \in Requests : answer'[q].status = IF q = r THEN s ELSE answer[q].status
    BY <1>1 DEF Answers
  <2> QED
    BY <2>1, <2>2 DEF toldNow
<1>4. profile' = profile
  BY DEF Answers, Keeps
<1> QED
  BY <1>2, <1>3, <1>4, AdmissionPromiseVariables

\* What a handler does up to its next await is one decision of the promise, or none of its
\* concern.
LEMMA HandleDecides ==
    ASSUME AdmissionInv, BooksInv, NEW r \in Requests, Handle(r)
    PROVE  Promise!PromiseNext \/ UNCHANGED Promise!promiseVars
<1>1. Fresh(r) /\ pc[r] # "answered" /\ toldNow[r] = "nothing"
  <2>1. pc[r] # "answered"
    BY DEF Handle, Arrive, ReadinessKnown, RelayerKnown, DigestKnown, WitnessKnown,
           BytecodeKnown, OwnersKnown, SignatureKnown, PreflightKnown
  <2> QED
    BY <2>1 DEF BooksInv, BooksOf, Fresh, NoAnswer, toldNow, toldOf
<1>2. /\ rows \in Seq(Row) /\ Len(rows) \in Nat
      /\ \A i, j \in 1..Len(rows) : rows[i].intent = rows[j].intent => i = j
  BY DEF AdmissionInv, RowsTyped, OneExecutionPerIntent
<1>3. profile[r].intent \in Intents /\ profile[r].client \in Clients
  BY AdmissionAssumption DEF AdmissionInv, RowsTyped, Profile
<1>4. ASSUME NEW id \in findByDedupKey(profile[r].intent)
      PROVE  ownerNow[profile[r].intent] = rows[id].client
  BY <1>2, <1>3, OwnerOfRow DEF ownerNow, findByDedupKey
<1>5. rows' = rows => ownerNow' = ownerNow
  BY DEF ownerNow, ownersOf
<1>6. ASSUME \/ Promise!Create(r) \/ Promise!Replay(r) \/ Promise!Hide(r)
             \/ Promise!Refuse(r) \/ Promise!Ask(r)
      PROVE  Promise!PromiseNext
  BY <1>6 DEF Promise!PromiseNext
<1>7. CASE Waits(r)
  <2>1. rows' = rows /\ answer' = answer /\ profile' = profile
    BY <1>7 DEF Waits, Keeps
  <2>2. toldNow' = toldNow
    BY <2>1 DEF toldNow, toldOf
  <2> QED
    BY <1>5, <2>1, <2>2, AdmissionPromiseVariables
<1>8. CASE Refused(r)
  <2>1. PICK s \in Nat :
          /\ Answers(r, s, NoId) /\ UNCHANGED rows
          /\ s \notin {0, 200, 202}
          /\ s = 409 =>
               \E id \in findByDedupKey(profile[r].intent) : rows[id].client # profile[r].client
    BY <1>8 DEF Refused
  <2>2. Promise!Tell(r, toldOf(s))
    BY <1>1, <2>1, TellStep DEF NoId
  <2>3. CASE s = 409
    <3>1. PICK id \in findByDedupKey(profile[r].intent) : rows[id].client # profile[r].client
      BY <2>1, <2>3
    <3>2. rows[id].client # "nobody"
      <4>1. rows[id] \in Row
        BY <1>2 DEF findByDedupKey
      <4> QED
        BY <4>1, AdmissionAssumption DEF Row
    <3>3. toldOf(s) = "conflict"
      BY <2>3 DEF toldOf
    <3>4. Promise!Hide(r)
      BY <1>4, <1>5, <2>1, <2>2, <3>1, <3>2, <3>3, AdmissionPromiseVariables
    <3> QED
      BY <1>6, <3>4
  <2>4. CASE s # 409
    <3>1. toldOf(s) = "refused"
      BY <2>1, <2>4 DEF toldOf
    <3>2. Promise!Refuse(r)
      BY <1>5, <2>1, <2>2, <3>1, AdmissionPromiseVariables
    <3> QED
      BY <1>6, <3>2
  <2> QED
    BY <2>3, <2>4
<1>9. CASE Replayed(r)
  <2>1. PICK id \in findByDedupKey(profile[r].intent) :
          /\ rows[id].client = profile[r].client
          /\ Answers(r, 200, id) /\ UNCHANGED rows
    BY <1>9 DEF Replayed
  <2>2. id \in Nat /\ toldOf(200) = "replayed"
    BY <1>2 DEF findByDedupKey, toldOf
  <2>3. Promise!Tell(r, "replayed")
    BY <1>1, <2>1, <2>2, TellStep
  <2>4. Promise!Replay(r)
    BY <1>4, <1>5, <2>1, <2>3, AdmissionPromiseVariables
  <2> QED
    BY <1>6, <2>4
<1>10. CASE Inserts(r)
  <2>1. PICK state \in {"pending", "awaiting_authorization"}, forced \in BOOLEAN :
          rows' = Append(rows, newRow(r, state, forced))
    BY <1>10 DEF Inserts
  <2> DEFINE x == newRow(r, state, forced)
  <2>2. x \in Row /\ x.intent = profile[r].intent /\ x.client = profile[r].client
    BY AdmissionAssumption DEF Profile, AdmissionInv, RowsTyped, Row, newRow
  <2> HIDE DEF x
  <2>3. \A i \in 1..Len(rows) : rows[i].intent # profile[r].intent
    BY <1>10 DEF Inserts, findByDedupKey
  <2>4. ownersOf(rows') = [ownersOf(rows) EXCEPT ![profile[r].intent] = profile[r].client]
    <3>1. /\ Len(rows') = Len(rows) + 1 /\ rows'[Len(rows) + 1] = x
          /\ \A i \in 1..Len(rows) : rows'[i] = rows[i]
      BY <1>2, <2>1, <2>2, AppendedRows DEF x
    <3>2. ownersOf(rows') = [ownersOf(rows) EXCEPT ![x.intent] = x.client]
      BY <1>2, <2>2, <2>3, <3>1, OwnerOfNewRow
    <3> QED
      BY <2>2, <3>2
  <2>5. ownerNow' = [ownerNow EXCEPT ![profile[r].intent] = profile[r].client]
    <3>1. ownerNow' = ownersOf(rows')
      BY DEF ownerNow, ownersOf
    <3> QED
      BY <2>4, <3>1 DEF ownerNow
  <2>6. ownerNow[profile[r].intent] = "nobody"
    BY <1>2, <1>3, <2>3, OwnerOfRow DEF ownerNow
  <2>7. \/ Promise!Tell(r, "created") \/ Promise!Tell(r, "refused")
        \/ profile' = profile /\ toldNow' = toldNow
    <3>1. CASE Answers(r, 202, Len(rows) + 1)
      <4>1. toldOf(202) = "created" /\ Len(rows) + 1 \in Nat
        BY <1>2 DEF toldOf
      <4> QED
        BY <1>1, <3>1, <4>1, TellStep
    <3>2. CASE Answers(r, 500, NoId)
      <4>1. toldOf(500) = "refused"
        BY DEF toldOf
      <4> QED
        BY <1>1, <3>2, <4>1, TellStep DEF NoId
    <3>3. CASE Perished
      BY <3>3 DEF Perished, Keeps, toldNow, toldOf
    <3> QED
      BY <1>10, <3>1, <3>2, <3>3 DEF Inserts
  <2>8. Promise!Create(r)
    BY <1>1, <2>5, <2>6, <2>7, AdmissionPromiseVariables
  <2> QED
    BY <1>6, <2>8
<1> QED
  BY <1>7, <1>8, <1>9, <1>10, HandleOutcome DEF Outcome

\* However the checks, the waits and the races of the requests interleave, however writes fail
\* and the process dies: the answers are those of a provider that decides each request at once,
\* by the owner the intent has at that moment.
THEOREM AdmissionDecidesAtOnce == Spec => DecidesAtOnce
<1>1. Init => Promise!PromiseInit
  <2> SUFFICES ASSUME Init PROVE Promise!PromiseInit
    OBVIOUS
  <2>1. rows = <<>> /\ \A r \in Requests : answer[r].status = 0
    BY DEF Init, NoAnswer
  <2>2. ownerNow = [k \in Intents |-> "nobody"]
    <3>1. \A k \in Intents : { id \in 1..Len(rows) : rows[id].intent = k } = {}
      BY <2>1
    <3> QED
      BY <3>1 DEF ownerNow, ownersOf
  <2>3. toldNow = [r \in Requests |-> "nothing"]
    BY <2>1 DEF toldNow, toldOf
  <2> QED
    BY <2>2, <2>3
       DEF Init, Promise!PromiseInit, ownerNow, ownersOf, toldNow, findByDedupKey
<1>2. AdmissionInv /\ BooksInv /\ [Next]_vars => [Promise!PromiseNext]_(Promise!promiseVars)
  <2> SUFFICES ASSUME AdmissionInv, BooksInv, [Next]_vars
               PROVE  Promise!PromiseNext \/ UNCHANGED Promise!promiseVars
    OBVIOUS
  <2>1. (UNCHANGED Promise!promiseVars <=>
          profile' = profile /\ ownerNow' = ownerNow /\ toldNow' = toldNow)
    BY DEF Promise!promiseVars, ownerNow, toldNow, ownersOf, findByDedupKey
  <2>2. /\ rows' = rows => ownerNow' = ownerNow
        /\ answer' = answer => toldNow' = toldNow
    <3>1. rows' = rows => ownerNow' = ownerNow
      BY DEF ownerNow, ownersOf
    <3>2. answer' = answer => toldNow' = toldNow
      BY DEF toldNow, toldOf
    <3> QED
      BY <3>1, <3>2
  <2>3. CASE Crash \/ UNCHANGED vars
    BY <2>1, <2>2, <2>3 DEF Crash, Dies, vars
  <2>4. ASSUME NEW r \in Requests, Retry(r)
        PROVE  Promise!PromiseNext \/ UNCHANGED Promise!promiseVars
    <3>1. UNCHANGED <<rows, profile>> /\ answer' = [answer EXCEPT ![r] = NoAnswer]
      BY <2>4 DEF Retry
    <3>2. toldNow' = [toldNow EXCEPT ![r] = "nothing"]
      <4>1. toldNow' = [q \in Requests |-> toldOf(answer'[q].status)]
        BY DEF toldNow, toldOf
      <4>2. \A q \in Requests : answer'[q].status = IF q = r THEN 0 ELSE answer[q].status
        BY <3>1 DEF AdmissionInv, RowsTyped, NoAnswer
      <4>3. toldOf(0) = "nothing"
        BY DEF toldOf
      <4> QED
        BY <4>1, <4>2, <4>3 DEF toldNow
    <3>3. CASE toldNow[r] = "nothing"
      <4>1. toldNow' = toldNow
        BY <3>2, <3>3 DEF toldNow
      <4> QED
        BY <2>1, <2>2, <3>1, <4>1
    <3>4. CASE toldNow[r] # "nothing"
      <4>1. Promise!Ask(r)
        BY <2>2, <3>1, <3>2, <3>4, AdmissionPromiseVariables
      <4> QED
        BY <4>1 DEF Promise!PromiseNext
    <3> QED
      BY <3>3, <3>4
  <2> QED
    BY <2>3, <2>4, HandleDecides DEF Next
<1> QED
  BY <1>1, <1>2, BooksAreInOrder, PTL DEF Spec, DecidesAtOnce, Promise!PromiseSpec

=============================================================================
