--------------------------- MODULE IdempotencyProofs ---------------------------
(* Proofs about Idempotency for every value of its constants.              *)
EXTENDS Idempotency, TLAPS

LEMMA InitTypeOK == Init => TypeOK
BY IdempotencyAssumption DEF Init, TypeOK, Stage

LEMMA StepTypeOK == TypeOK /\ [Next]_vars => TypeOK'
<1> SUFFICES ASSUME TypeOK, [Next]_vars
             PROVE  TypeOK'
  OBVIOUS
<1> USE IdempotencyAssumption DEF TypeOK, Stage, Goto, carried
<1>1. ASSUME NEW r \in Request, NEW k \in Key, NEW h \in Payload, Reserve(r, k, h)
      PROVE  TypeOK'
  <2>1. record' \in [Key -> Record \cup {None}]
    BY <1>1 DEF Reserve, Record
  <2>2. QED
    BY <1>1, <2>1 DEF Reserve, Carry
<1>2. ASSUME NEW r \in Request, Find(r)
      PROVE  TypeOK'
  <2>1. key[r] \in Key
    BY <1>2 DEF Find
  <2>2. record[key[r]] # None => record[key[r]].response \in Request \cup {None}
    BY <2>1 DEF Record
  <2>3. QED
    BY <1>2, <2>1, <2>2 DEF Find
<1>3. ASSUME NEW r \in Request, Execute(r) \/ Fail(r) \/ Crash(r)
      PROVE  TypeOK'
  BY <1>3 DEF Execute, Fail, Crash
<1>4. ASSUME NEW r \in Request, Complete(r)
      PROVE  TypeOK'
  <2>1. key[r] \in Key
    BY <1>4 DEF Complete
  <2>2. \A rec \in Record :
          [rec EXCEPT !.status = "COMPLETED", !.response = r] \in Record
    BY DEF Record
  <2>3. record' \in [Key -> Record \cup {None}]
    <3> DEFINE k == key[r]
               done == [record[k] EXCEPT !.status = "COMPLETED", !.response = r]
    <3>1. CASE record' = record
      BY <3>1
    <3>2. CASE record[k] # None /\ record' = [record EXCEPT ![k] = done]
      <4>1. record[k] \in Record
        BY <2>1, <3>2
      <4>2. done \in Record
        BY <2>2, <4>1
      <4>3. QED
        BY <2>1, <3>2, <4>2
    <3>3. QED
      BY <1>4, <3>1, <3>2 DEF Complete
  <2>4. QED
    BY <1>4, <2>3 DEF Complete
<1>5. ASSUME NEW r \in Request, Release(r)
      PROVE  TypeOK'
  BY <1>5 DEF Release
<1>6. CASE PruneIdempotencyRecords
  BY <1>6 DEF PruneIdempotencyRecords
<1>7. CASE Tick
  BY <1>7 DEF Tick
<1>8. CASE UNCHANGED vars
  BY <1>8 DEF vars
<1>9. QED
  BY <1>1, <1>2, <1>3, <1>4, <1>5, <1>6, <1>7, <1>8 DEF Next, RequestStep

(* Records, requests and answers keep their types: in particular a record  *)
(* is completed exactly when it has a response to replay.                  *)
THEOREM TypeCorrect == Spec => []TypeOK
BY InitTypeOK, StepTypeOK, PTL DEF Spec

---------------------------------------------------------------------------
(* What a request may have done at each stage.                             *)
StagesOK ==
  \A r \in Request :
    /\ at[r] = "idle" => r \notin executed /\ key[r] = None /\ answer[r] = None
    /\ at[r] \in {"find", "execute"} => r \notin executed
    /\ at[r] = "complete" => r \in executed
    /\ answer[r] # None => at[r] = "done"

(* The request that runs the mutation of a key, or has run it.             *)
Runs(r, k) == key[r] = k /\ (r \in executed \/ at[r] \in {"execute", "complete"})

(* While no record of a key has been deleted, at most one request runs its *)
(* mutation, and the record holds the hash of that request.                *)
OneRunner ==
  \A k \in Key : k \notin deleted =>
    /\ record[k] = None => \A r \in Request : key[r] # k
    /\ \A r, s \in Request : Runs(r, k) /\ Runs(s, k) => r = s
    /\ \A r \in Request : Runs(r, k) => record[k].hash = hash[r]

Inv == TypeOK /\ StagesOK /\ AnswersAreReal /\ OneRunner /\ ReplayOfSamePayload

LEMMA InitInv == Init => Inv
<1> SUFFICES ASSUME Init PROVE Inv
  OBVIOUS
<1>1. TypeOK
  BY InitTypeOK
<1>2. StagesOK /\ AnswersAreReal /\ OneRunner /\ ReplayOfSamePayload
  BY IdempotencyAssumption
     DEF Init, StagesOK, AnswersAreReal, OneRunner, Runs, ReplayOfSamePayload, SameKey
<1>3. QED
  BY <1>1, <1>2 DEF Inv

LEMMA StepStagesOK == TypeOK /\ StagesOK /\ [Next]_vars => StagesOK'
<1> SUFFICES ASSUME TypeOK, StagesOK, [Next]_vars
             PROVE  StagesOK'
  OBVIOUS
<1> USE IdempotencyAssumption DEF TypeOK, StagesOK, Goto, carried
<1>1. ASSUME NEW r \in Request, NEW k \in Key, NEW h \in Payload, Reserve(r, k, h)
      PROVE  StagesOK'
  BY <1>1 DEF Reserve, Carry
<1>2. ASSUME NEW r \in Request, Find(r)
      PROVE  StagesOK'
  BY <1>2 DEF Find
<1>3. ASSUME NEW r \in Request, Execute(r) \/ Fail(r) \/ Crash(r)
      PROVE  StagesOK'
  BY <1>3 DEF Execute, Fail, Crash
<1>4. ASSUME NEW r \in Request, Complete(r) \/ Release(r)
      PROVE  StagesOK'
  BY <1>4 DEF Complete, Release
<1>5. CASE PruneIdempotencyRecords \/ Tick \/ UNCHANGED vars
  BY <1>5 DEF PruneIdempotencyRecords, Tick, vars
<1>6. QED
  BY <1>1, <1>2, <1>3, <1>4, <1>5 DEF Next, RequestStep

LEMMA StepAnswersAreReal ==
  TypeOK /\ StagesOK /\ AnswersAreReal /\ [Next]_vars => AnswersAreReal'
<1> SUFFICES ASSUME TypeOK, StagesOK, AnswersAreReal, [Next]_vars
             PROVE  AnswersAreReal'
  OBVIOUS
<1> USE IdempotencyAssumption DEF TypeOK, AnswersAreReal, SameKey, Goto, carried
<1>1. ASSUME NEW r \in Request, NEW k \in Key, NEW h \in Payload, Reserve(r, k, h)
      PROVE  AnswersAreReal'
  <2>1. r \notin executed /\ executed' = executed /\ answer' = answer
    BY <1>1 DEF Reserve, StagesOK
  <2>2. \A s \in Request : s # r => key'[s] = key[s]
    BY <1>1 DEF Reserve, Carry
  <2>3. ASSUME NEW s \in Request, answer'[s] # None
        PROVE  answer'[s] \in executed' /\ SameKey(s, answer[s])'
    <3>1. s # r /\ answer[s] \in executed /\ answer[s] # r
      BY <1>1, <2>1, <2>3 DEF Reserve, StagesOK
    <3>2. QED
      BY <2>1, <2>2, <3>1
  <2>4. ASSUME NEW j \in Key, record'[j] # None, record'[j].status = "COMPLETED"
        PROVE  record'[j].response \in executed' /\ key'[record'[j].response] = j
    <3>1. record'[j] = record[j]
      BY <1>1, <2>4 DEF Reserve
    <3>2. QED
      BY <2>1, <2>2, <2>4, <3>1
  <2>5. QED
    BY <2>3, <2>4
<1>2. ASSUME NEW r \in Request, Find(r)
      PROVE  AnswersAreReal'
  BY <1>2 DEF Find, Replays
<1>3. ASSUME NEW r \in Request, Execute(r) \/ Fail(r) \/ Crash(r)
      PROVE  AnswersAreReal'
  BY <1>3 DEF Execute, Fail, Crash
<1>4. ASSUME NEW r \in Request, Complete(r)
      PROVE  AnswersAreReal'
  <2>1. r \in executed /\ key[r] \in Key
    BY <1>4 DEF Complete, StagesOK
  <2>2. CASE UNCHANGED <<record, answer>>
    BY <1>4, <2>2 DEF Complete
  <2>3. CASE /\ record[key[r]] # None
             /\ record' = [record EXCEPT ![key[r]].status = "COMPLETED",
                                         ![key[r]].response = r]
             /\ answer' = [answer EXCEPT ![r] = r]
    <3>1. record'[key[r]].response = r
      BY <2>1, <2>3 DEF Record
    <3>2. \A j \in Key : j # key[r] => record'[j] = record[j]
      BY <2>3
    <3>3. QED
      BY <1>4, <2>1, <2>3, <3>1, <3>2 DEF Complete
  <2>4. QED
    BY <1>4, <2>2, <2>3 DEF Complete
<1>5. ASSUME NEW r \in Request, Release(r)
      PROVE  AnswersAreReal'
  BY <1>5 DEF Release
<1>6. CASE PruneIdempotencyRecords \/ Tick \/ UNCHANGED vars
  BY <1>6 DEF PruneIdempotencyRecords, Tick, vars
<1>7. QED
  BY <1>1, <1>2, <1>3, <1>4, <1>5, <1>6 DEF Next, RequestStep

LEMMA StepOneRunner ==
  TypeOK /\ StagesOK /\ OneRunner /\ [Next]_vars => OneRunner'
<1> SUFFICES ASSUME TypeOK, StagesOK, OneRunner, [Next]_vars,
                    NEW k \in Key, k \notin deleted'
             PROVE  /\ record'[k] = None => \A r \in Request : key'[r] # k
                    /\ \A r, s \in Request : Runs(r, k)' /\ Runs(s, k)' => r = s
                    /\ \A r \in Request : Runs(r, k)' => record'[k].hash = hash'[r]
  BY DEF OneRunner
<1> USE IdempotencyAssumption DEF TypeOK, Runs, Goto, carried
<1> DEFINE Goal == /\ record'[k] = None => \A r \in Request : key'[r] # k
                   /\ \A r, s \in Request : Runs(r, k)' /\ Runs(s, k)' => r = s
                   /\ \A r \in Request : Runs(r, k)' => record'[k].hash = hash'[r]
<1>1. ASSUME NEW q \in Request, NEW j \in Key, NEW h \in Payload, Reserve(q, j, h)
      PROVE  Goal
  <2>1. k \notin deleted /\ q \notin executed
    BY <1>1 DEF Reserve, StagesOK
  <2>2. \A s \in Request : s # q => key'[s] = key[s] /\ hash'[s] = hash[s] /\ at'[s] = at[s]
    BY <1>1 DEF Reserve, Carry
  <2>3. key'[q] = j /\ hash'[q] = h /\ executed' = executed
    BY <1>1 DEF Reserve, Carry
  <2>4. CASE record[j] = None
    <3>1. /\ record' = [record EXCEPT ![j] = [hash |-> h, status |-> "IN_PROGRESS",
                                              response |-> None, createdAt |-> now]]
          /\ at'[q] = "execute"
      BY <1>1, <2>4 DEF Reserve
    <3>2. CASE j = k
      <4>1. \A s \in Request : key[s] # k
        BY <2>1, <2>4, <3>2 DEF OneRunner
      <4>2. record'[k] # None /\ record'[k].hash = h
        BY <3>1, <3>2 DEF Record
      <4>3. QED
        BY <2>2, <2>3, <3>2, <4>1, <4>2
    <3>3. CASE j # k
      BY <2>1, <2>2, <2>3, <3>1, <3>3 DEF OneRunner
    <3>4. QED
      BY <3>2, <3>3
  <2>5. CASE record[j] # None
    <3>1. record' = record /\ at'[q] = "find"
      BY <1>1, <2>5 DEF Reserve
    <3>2. QED
      BY <2>1, <2>2, <2>3, <2>5, <3>1 DEF OneRunner
  <2>6. QED
    BY <2>4, <2>5
<1>2. ASSUME NEW q \in Request, Find(q)
      PROVE  Goal
  <2>1. key[q] = k => record[k] # None
    BY <1>2 DEF Find, OneRunner
  <2>2. QED
    BY <1>2, <2>1 DEF Find, OneRunner
<1>3. ASSUME NEW q \in Request, Execute(q) \/ Fail(q) \/ Crash(q)
      PROVE  Goal
  BY <1>3 DEF Execute, Fail, Crash, OneRunner
<1>4. ASSUME NEW q \in Request, Complete(q)
      PROVE  Goal
  <2>1. key[q] \in Key /\ q \in executed
    BY <1>4 DEF Complete, StagesOK
  <2>2. record[k] # None => record'[k] # None /\ record'[k].hash = record[k].hash
    <3>1. CASE record' = record
      BY <3>1
    <3>2. ASSUME record[k] # None, key[q] = k,
                 record' = [record EXCEPT ![k].status = "COMPLETED", ![k].response = q]
          PROVE  record'[k] # None /\ record'[k].hash = record[k].hash
      <4>1. record[k] \in Record
        BY <3>2
      <4>2. record'[k] \in Record /\ record'[k].hash = record[k].hash
        BY <3>2, <4>1 DEF Record
      <4>3. QED
        BY <4>2
    <3>3. QED
      BY <1>4, <2>1, <3>1, <3>2 DEF Complete
  <2>3. QED
    BY <1>4, <2>1, <2>2 DEF Complete, OneRunner
<1>5. ASSUME NEW q \in Request, Release(q)
      PROVE  Goal
  BY <1>5 DEF Release, OneRunner
<1>6. CASE PruneIdempotencyRecords
  BY <1>6 DEF PruneIdempotencyRecords, OneRunner
<1>7. CASE Tick \/ UNCHANGED vars
  BY <1>7 DEF Tick, vars, OneRunner
<1>8. QED
  BY <1>1, <1>2, <1>3, <1>4, <1>5, <1>6, <1>7 DEF Next, RequestStep

LEMMA StepReplayOfSamePayload ==
  Inv /\ [Next]_vars => ReplayOfSamePayload'
<1> SUFFICES ASSUME Inv, [Next]_vars, NEW r \in Request,
                    answer'[r] # None, key'[r] \notin deleted'
             PROVE  hash'[answer'[r]] = hash'[r]
  BY DEF ReplayOfSamePayload
<1> USE IdempotencyAssumption DEF Inv, TypeOK, Goto, carried
<1>1. CASE answer'[r] = answer[r]
  <2>1. answer[r] \in executed /\ answer[r] \in Request /\ at[answer[r]] # "idle" /\ at[r] # "idle"
    BY <1>1 DEF AnswersAreReal, StagesOK
  <2>2. \A s \in Request : at[s] # "idle" => key'[s] = key[s] /\ hash'[s] = hash[s]
    BY ZenonT(40) DEF Next, RequestStep, vars, Reserve, Carry, Find, Execute, Fail, Complete, Release,
           Crash, PruneIdempotencyRecords, Tick
  <2>3. deleted \subseteq deleted'
    BY DEF Next, RequestStep, vars, Reserve, Find, Execute, Fail, Complete, Release,
           Crash, PruneIdempotencyRecords, Tick
  <2>4. QED
    BY <1>1, <2>1, <2>2, <2>3 DEF ReplayOfSamePayload
<1>2. ASSUME NEW q \in Request, Find(q), answer'[r] # answer[r]
      PROVE  hash'[answer'[r]] = hash'[r]
  <2>1. r = q /\ record[key[r]] # None /\ answer'[r] = record[key[r]].response
        /\ Replays(r, record[key[r]]) /\ UNCHANGED <<key, hash, deleted>>
    BY <1>2 DEF Find
  <2>2. key[r] \in Key /\ Runs(answer'[r], key[r])
    BY <1>2, <2>1 DEF Find, Runs, AnswersAreReal, Replays
  <2>3. record[key[r]].hash = hash[answer'[r]]
    BY <2>1, <2>2 DEF OneRunner, AnswersAreReal, Replays
  <2>4. QED
    BY <2>1, <2>3 DEF Replays
<1>3. ASSUME NEW q \in Request, Complete(q), answer'[r] # answer[r]
      PROVE  hash'[answer'[r]] = hash'[r]
  BY <1>3 DEF Complete
<1>4. QED
  BY <1>1, <1>2, <1>3
     DEF Next, RequestStep, vars, Reserve, Execute, Fail, Release, Crash,
         PruneIdempotencyRecords, Tick

LEMMA Invariance == Spec => []Inv
<1>1. Inv /\ [Next]_vars => Inv'
  BY StepTypeOK, StepStagesOK, StepAnswersAreReal, StepOneRunner, StepReplayOfSamePayload
     DEF Inv
<1>2. QED
  BY <1>1, InitInv, PTL DEF Spec

---------------------------------------------------------------------------
(* Every answer and every stored response is that of a mutation which did  *)
(* commit, under the same actor, route and key.                            *)
THEOREM OnlyRealAnswers == Spec => []AnswersAreReal
<1>1. Inv => AnswersAreReal
  BY DEF Inv
<1>2. QED
  BY <1>1, Invariance, PTL

(* The handler of a key runs twice only after a record of the key was      *)
(* deleted: by a release, or by the pruning job.                           *)
THEOREM NoRerunWithoutDeletion == Spec => []RerunNeedsDeletion
<1>1. Inv => RerunNeedsDeletion
  BY DEF Inv, TypeOK, OneRunner, RerunNeedsDeletion, Runs, SameKey, StagesOK
<1>2. QED
  BY <1>1, Invariance, PTL

(* Until then a replay answers a request with the same payload.            *)
THEOREM ReplayNeedsSamePayload == Spec => []ReplayOfSamePayload
<1>1. Inv => ReplayOfSamePayload
  BY DEF Inv
<1>2. QED
  BY <1>1, Invariance, PTL

(* A stored response disappears only by pruning, and only when outdated.   *)
THEOREM ResponsesKept == Spec => ResponsesKeptForRetention
<1>1. ASSUME Inv, [Next]_vars, NEW k \in Key,
             record[k] # None, record[k].status = "COMPLETED", record'[k] = None
      PROVE  record[k].createdAt + Retention < now
  <2> USE <1>1, IdempotencyAssumption DEF Inv, TypeOK
  <2>1. \A r \in Request : Complete(r) => record'[k] # None
    <3> SUFFICES ASSUME NEW r \in Request, Complete(r)
                 PROVE  record'[k] # None
      OBVIOUS
    <3>1. CASE record' = record
      BY <3>1
    <3>2. CASE record' = [record EXCEPT ![key[r]].status = "COMPLETED",
                                        ![key[r]].response = r]
      <4>1. record[k] \in Record
        OBVIOUS
      <4>2. record'[k] \in Record
        BY <3>2, <4>1 DEF Record
      <4>3. QED
        BY <4>2
    <3>3. QED
      BY <3>1, <3>2 DEF Complete
  <2>2. QED
    BY <2>1
       DEF Next, RequestStep, vars, Reserve, Find, Execute, Fail, Release, Releasable, Crash,
           PruneIdempotencyRecords, Outdated, Tick
<1>2. Inv /\ [Next]_vars =>
        \A k \in Key :
          record[k] # None /\ record[k].status = "COMPLETED" /\ record'[k] = None =>
            record[k].createdAt + Retention < now
  BY <1>1
<1>3. QED
  BY <1>2, Invariance, PTL DEF Spec, ResponsesKeptForRetention

=============================================================================
