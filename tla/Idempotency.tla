------------------------------ MODULE Idempotency ------------------------------
(***************************************************************************)
(* The Idempotency-Key protocol of the protected mutations                 *)
(* (apps/api/src/idempotency) and the worker's prune job.  The record of a *)
(* key, the mutation it protects and the record's completion are three     *)
(* separate commits; a request that finds a record reads it in a fourth    *)
(* statement.  A request is one delivery of a client's call: a retry is    *)
(* another request with the same key.                                      *)
(***************************************************************************)
EXTENDS Naturals

CONSTANTS
  Request,    \* deliveries of protected requests
  Key,        \* (actor, method, path, Idempotency-Key)
  Payload,    \* canonical request hashes
  None,       \* NULL, or no row
  Retention,  \* IDEMPOTENCY_RETENTION_MS
  MaxTime     \* bound on the clock

(* A completed record has the status code and body of some response.       *)
Record ==
  [hash : Payload, status : {"IN_PROGRESS"}, response : {None}, createdAt : Nat]
    \cup [hash : Payload, status : {"COMPLETED"}, response : Request, createdAt : Nat]

ASSUME IdempotencyAssumption ==
  /\ None \notin Key \cup Payload \cup Request \cup Record
  /\ Retention \in Nat /\ MaxTime \in Nat

VARIABLES
  now,
  record,    \* idempotency_records by key
  at,        \* where each request stands
  key, hash, \* what each request carries
  executed,  \* requests whose mutation has committed
  answer,    \* the execution whose response a request was answered with
  deleted    \* history: keys a record of which has been deleted

carried == <<key, hash>>
vars == <<now, record, at, carried, executed, answer, deleted>>

(* "done" is answered, refused, or dead with its process.                  *)
Stage == {"idle", "find", "execute", "complete", "release", "done"}

TypeOK ==
  /\ now \in Nat
  /\ record \in [Key -> Record \cup {None}]
  /\ at \in [Request -> Stage]
  /\ key \in [Request -> Key \cup {None}]
  /\ hash \in [Request -> Payload \cup {None}]
  /\ \A r \in Request : at[r] # "idle" => key[r] \in Key /\ hash[r] \in Payload
  /\ executed \subseteq Request
  /\ answer \in [Request -> Request \cup {None}]
  /\ deleted \subseteq Key

Init ==
  /\ now = 0
  /\ record = [k \in Key |-> None]
  /\ at = [r \in Request |-> "idle"]
  /\ key = [r \in Request |-> None]
  /\ hash = [r \in Request |-> None]
  /\ executed = {}
  /\ answer = [r \in Request |-> None]
  /\ deleted = {}

Goto(r, stage) == at' = [at EXCEPT ![r] = stage]

Carry(r, k, h) ==
  /\ key' = [key EXCEPT ![r] = k]
  /\ hash' = [hash EXCEPT ![r] = h]

---------------------------------------------------------------------------
(* Mutant: an existing record is taken over instead of looked up.          *)
ReserveByUpsert(r, k, h) ==
  /\ at[r] = "idle"
  /\ Carry(r, k, h)
  /\ record' = [record EXCEPT ![k] = [hash |-> h, status |-> "IN_PROGRESS",
                                      response |-> None, createdAt |-> now]]
  /\ Goto(r, "execute")
  /\ UNCHANGED <<now, executed, answer, deleted>>

(* The insert, which the unique key lets one request win.                  *)
Reserve(r, k, h) ==
  /\ at[r] = "idle"
  /\ Carry(r, k, h)
  /\ IF record[k] = None
     THEN /\ record' = [record EXCEPT ![k] = [hash |-> h, status |-> "IN_PROGRESS",
                                              response |-> None, createdAt |-> now]]
          /\ Goto(r, "execute")
     ELSE Goto(r, "find") /\ UNCHANGED record
  /\ UNCHANGED <<now, executed, answer, deleted>>

(* resolveIdempotency: whether the record found answers the request; if it *)
(* does not, the request is refused with a 409.                            *)
Replays(r, rec) == rec.hash = hash[r] /\ rec.status = "COMPLETED"

(* The lookup after a lost insert.  A record that is gone by then lets the *)
(* request execute without one of its own.                                 *)
Find(r) ==
  /\ at[r] = "find"
  /\ LET rec == record[key[r]]
     IN  IF rec = None
         THEN Goto(r, "execute") /\ UNCHANGED answer
         ELSE /\ Goto(r, "done")
              /\ IF Replays(r, rec)
                 THEN answer' = [answer EXCEPT ![r] = rec.response]
                 ELSE UNCHANGED answer
  /\ UNCHANGED <<now, record, carried, executed, deleted>>

(* The handler commits its mutation and returns, or throws after it (a     *)
(* later transaction or a notification failed).                            *)
Execute(r) ==
  /\ at[r] = "execute"
  /\ executed' = executed \cup {r}
  /\ Goto(r, "complete") \/ Goto(r, "release")
  /\ UNCHANGED <<now, record, carried, answer, deleted>>

(* Mutant: an error of the handler is stored like a response.              *)
FailAndComplete(r) ==
  /\ at[r] = "execute"
  /\ Goto(r, "complete")
  /\ UNCHANGED <<now, record, carried, executed, answer, deleted>>

(* The handler throws with nothing committed.                              *)
Fail(r) ==
  /\ at[r] = "execute"
  /\ Goto(r, "release")
  /\ UNCHANGED <<now, record, carried, executed, answer, deleted>>

(* The update is by key: whoever reserved the row that is there now.  A    *)
(* missing row, or a database error, is caught like an error of the        *)
(* handler.                                                                *)
Complete(r) ==
  /\ at[r] = "complete"
  /\ \/ /\ record[key[r]] # None
        /\ record' = [record EXCEPT ![key[r]].status = "COMPLETED",
                                    ![key[r]].response = r]
        /\ answer' = [answer EXCEPT ![r] = r]
        /\ Goto(r, "done")
     \/ Goto(r, "release") /\ UNCHANGED <<record, answer>>
  /\ UNCHANGED <<now, carried, executed, deleted>>

(* Mutant: the delete has lost its condition on the status.                *)
ReleasableWhateverStatus(rec) == rec # None
Releasable(rec) == rec # None /\ rec.status = "IN_PROGRESS"

(* catchAndRelease.  The delete may itself fail: the error is sent anyway. *)
Release(r) ==
  /\ at[r] = "release"
  /\ Goto(r, "done")
  /\ \/ /\ Releasable(record[key[r]])
        /\ record' = [record EXCEPT ![key[r]] = None]
        /\ deleted' = deleted \cup {key[r]}
     \/ UNCHANGED <<record, deleted>>
  /\ UNCHANGED <<now, carried, executed, answer>>

(* The API process dies under the request.                                 *)
Crash(r) ==
  /\ at[r] \notin {"idle", "done"}
  /\ Goto(r, "done")
  /\ UNCHANGED <<now, record, carried, executed, answer, deleted>>

(* Mutant: the job spares the records still in progress.                   *)
OutdatedCompleted(k) ==
  record[k] # None /\ record[k].status = "COMPLETED" /\ record[k].createdAt + Retention < now
Outdated(k) == record[k] # None /\ record[k].createdAt + Retention < now

(* One DELETE ... WHERE createdAt < cutoff, whatever the status.           *)
PruneIdempotencyRecords ==
  /\ \E k \in Key : Outdated(k)
  /\ record' = [k \in Key |-> IF Outdated(k) THEN None ELSE record[k]]
  /\ deleted' = deleted \cup {k \in Key : Outdated(k)}
  /\ UNCHANGED <<now, at, carried, executed, answer>>

Tick ==
  /\ now < MaxTime
  /\ now' = now + 1
  /\ UNCHANGED <<record, at, carried, executed, answer, deleted>>

RequestStep(r) ==
  \/ \E k \in Key, h \in Payload : Reserve(r, k, h)
  \/ Find(r) \/ Execute(r) \/ Fail(r) \/ Complete(r) \/ Release(r) \/ Crash(r)

Next ==
  \/ \E r \in Request : RequestStep(r)
  \/ PruneIdempotencyRecords
  \/ Tick

Spec == Init /\ [][Next]_vars

(* The scheduler runs the job for ever, and time passes.                   *)
FairSpec == Spec /\ WF_vars(PruneIdempotencyRecords) /\ WF_vars(Tick)

---------------------------------------------------------------------------
(* Properties *)

SameKey(r, s) == key[r] # None /\ key[r] = key[s]

(* A client is never answered with the response of a mutation that did not *)
(* commit, or that ran under another actor's key or route, and no record   *)
(* offers such a response for replay.                                      *)
AnswersAreReal ==
  /\ \A r \in Request : answer[r] # None =>
       answer[r] \in executed /\ SameKey(r, answer[r])
  /\ \A k \in Key : record[k] # None /\ record[k].status = "COMPLETED" =>
       record[k].response \in executed /\ key[record[k].response] = k

(* A mutation runs twice under one key only if a record of the key was     *)
(* deleted: while the first record stays, lost races, early retries and    *)
(* crashes at any point never run the handler again.                       *)
RerunNeedsDeletion ==
  \A r, s \in executed : r # s /\ SameKey(r, s) => key[r] \in deleted

(* Under the same condition a replayed response is the response to the     *)
(* same payload, so a reused key is refused.                               *)
ReplayOfSamePayload ==
  \A r \in Request : answer[r] # None /\ key[r] \notin deleted =>
    hash[answer[r]] = hash[r]

(* A stored response outlives every failing request and is only removed    *)
(* when its record is older than the retention.                            *)
ResponsesKeptForRetention ==
  [][\A k \in Key :
       record[k] # None /\ record[k].status = "COMPLETED" /\ record'[k] = None =>
         record[k].createdAt + Retention < now]_vars

(* No key stays refused for ever: the record left by a dead request is     *)
(* pruned once it is old enough (as far as the bounded clock reaches).     *)
StuckKeyIsFreed ==
  \A k \in Key, t \in 0 .. MaxTime :
    t + Retention < MaxTime =>
      ((record[k] # None /\ record[k].createdAt = t) ~>
         (record[k] = None \/ record[k].createdAt # t))

=============================================================================
