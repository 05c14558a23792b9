------------------------------ MODULE MlTraining ------------------------------
(***************************************************************************)
(* How a corrected distribution reaches the model of its tenant: the       *)
(* ml-training queue and its processor (apps/api/src/queue), the training  *)
(* call of the ML client (apps/api/src/ml-client), and the ML service:     *)
(* ModelService.train_distribution and its store (apps/ml-service/app).    *)
(*                                                                         *)
(* One tenant: its jobs, its model, its lock, its files. A job is its      *)
(* idempotency key, a hash of the amounts. Every await of the service on   *)
(* its store is a step; a call that the client has given up runs on.       *)
(***************************************************************************)
EXTENDS Integers, FiniteSets

CONSTANTS
    Jobs,           \* the corrections, by idempotency key
    Size,           \* per job, the employees learned from, 0 if nobody was paid
    Instances,      \* processes of the ML service
    Calls,          \* training requests the service is working on at a time
    Attempts,       \* of the queue for a job
    Tries,          \* trainMaxAttempts, of the client in one attempt
    MaxFaults,      \* bounds crashes and store failures
    None            \* no model, no record, no call, no job

ASSUME SizeAssumption == Size \in [Jobs -> Nat]
ASSUME RetryAssumption == {Attempts, Tries} \subseteq Nat \ {0} /\ MaxFaults \in Nat
ASSUME NoneAssumption == None \notin Jobs \cup Calls \cup Instances \cup Nat

VARIABLES
    queue,          \* the jobs in Redis
    worker,         \* the processor: the job it runs, the tries made, the call it awaits
    call,           \* requests at the service
    cache,          \* per instance, the model of the tenant in memory
    lock,           \* per instance, the call that holds the tenant's lock
    latest,         \* the model the manifest names, by version and digest
    artifacts,      \* the stored models, one per version
    records,        \* the idempotency file: per job, the version recorded
    faults          \* crashes and store failures so far

serviceVars == <<cache, lock, latest, artifacts, records>>
vars == <<queue, worker, call, serviceVars, faults>>

-----------------------------------------------------------------------------
\* learned counts how often the model learned each job.
Model == [version : Nat, learned : [Jobs -> Nat]]
NewModel == [version |-> 0, learned |-> [j \in Jobs |-> 0]]

ASSUME ModelAssumption == None \notin Model

Statuses == {"none", "waiting", "active", "completed", "failed"}
Answers == {"ok", "conflict", "corrupt", "error"}
Places == {"free", "check", "lock", "recheck", "load", "fetch", "save", "artifact",
           "manifest", "read", "write", "answered"}

Free == [pc |-> "free", job |-> None, at |-> None, model |-> None, seen |-> None,
         answer |-> None]
NoWork == [job |-> None, tries |-> 0, call |-> None]

Versions == [Jobs -> Nat \cup {None}]

TypeOK ==
    /\ queue \in [Jobs -> [status : Statuses, made : 0..Attempts, stalled : BOOLEAN]]
    /\ worker \in [job : Jobs \cup {None}, tries : 0..Tries, call : Calls \cup {None}]
    /\ call \in [Calls -> [pc : Places, job : Jobs \cup {None}, at : Instances \cup {None},
                           model : Model \cup {None}, seen : Versions \cup {None},
                           answer : Answers \cup {None}]]
    /\ cache \in [Instances -> Model \cup {None}]
    /\ lock \in [Instances -> Calls \cup {None}]
    /\ latest \in Model \cup {None}
    /\ artifacts \subseteq Model
    /\ records \in Versions
    /\ faults \in 0..MaxFaults

Init ==
    /\ queue = [j \in Jobs |-> [status |-> "none", made |-> 0, stalled |-> FALSE]]
    /\ worker = NoWork
    /\ call = [k \in Calls |-> Free]
    /\ cache = [i \in Instances |-> None]
    /\ lock = [i \in Instances |-> None]
    /\ latest = None
    /\ artifacts = {}
    /\ records = [j \in Jobs |-> None]
    /\ faults = 0

-----------------------------------------------------------------------------
(* The queue and its processor. *)

\* A job id already in the queue, finished or not, is not added again.
Enqueue(j) ==
    /\ queue[j].status = "none"
    /\ queue' = [queue EXCEPT ![j].status = "waiting"]
    /\ UNCHANGED <<worker, call, serviceVars, faults>>

Take(j) ==
    /\ worker = NoWork
    /\ queue[j].status = "waiting"
    /\ queue' = [queue EXCEPT ![j].status = "active"]
    /\ worker' = [NoWork EXCEPT !.job = j]
    /\ UNCHANGED <<call, serviceVars, faults>>

Send(k, i) ==
    /\ worker.job # None /\ worker.call = None
    /\ call[k] = Free
    /\ call' = [call EXCEPT ![k] = [Free EXCEPT !.pc = "check", !.job = worker.job, !.at = i]]
    /\ worker' = [worker EXCEPT !.call = k, !.tries = @ + 1]
    /\ UNCHANGED <<queue, serviceVars, faults>>

\* The processor throws: the queue retries, with a backoff, up to its attempts.
AttemptFails ==
    /\ worker' = NoWork
    /\ queue' = [queue EXCEPT ![worker.job].status =
                                  IF queue[worker.job].made + 1 < Attempts THEN "waiting"
                                                                           ELSE "failed",
                              ![worker.job].made = @ + 1]

\* A timeout or a 5xx is tried again, with a backoff, up to trainMaxAttempts.
TryFails ==
    \/ worker.tries < Tries /\ worker' = [worker EXCEPT !.call = None] /\ UNCHANGED queue
    \/ worker.tries >= Tries /\ AttemptFails

\* A 409 is not tried again by the client.
Hear ==
    LET k == worker.call IN
    /\ k # None
    /\ call[k].pc = "answered"
    /\ call' = [call EXCEPT ![k] = Free]
    /\ \/ /\ call[k].answer = "ok"
          /\ queue' = [queue EXCEPT ![worker.job].status = "completed"]
          /\ worker' = NoWork
       \/ call[k].answer = "conflict" /\ AttemptFails
       \/ call[k].answer \in {"corrupt", "error"} /\ TryFails
    /\ UNCHANGED <<serviceVars, faults>>

\* The client's deadline passes, or the answer is lost; the service is not told.
Timeout ==
    LET k == worker.call IN
    /\ k # None
    /\ call' = [call EXCEPT ![k] = IF @.pc = "answered" THEN Free ELSE @]
    /\ TryFails
    /\ UNCHANGED <<serviceVars, faults>>

\* The API process stops; the queue gives a stalled job back once.
WorkerStops ==
    /\ worker.job # None
    /\ queue' = [queue EXCEPT ![worker.job].status =
                                  IF queue[worker.job].stalled THEN "failed" ELSE "waiting",
                              ![worker.job].stalled = TRUE]
    /\ worker' = NoWork
    /\ call' = [k \in Calls |-> IF call[k].pc = "answered" THEN Free ELSE call[k]]
    /\ UNCHANGED <<serviceVars, faults>>

-----------------------------------------------------------------------------
(* The service. *)

At(k, place) == call[k].pc = place
Goto(k, place) == call' = [call EXCEPT ![k].pc = place]

\* An answer nobody waits for any more is dropped.
Answer(k, a) ==
    call' = [call EXCEPT ![k] = IF worker.call = k
                                THEN [Free EXCEPT !.pc = "answered", !.job = call[k].job,
                                                  !.answer = a]
                                ELSE Free]

Release(k) == lock' = [lock EXCEPT ![call[k].at] = None]

\* The answer to a key that has a record: the reader of records takes version 0, which
\* a key nobody was paid for is recorded with, for a damaged file.
Recorded(version) == IF version = 0 THEN "corrupt" ELSE "ok"

Check(k) ==
    /\ At(k, "check")
    /\ LET version == records[call[k].job] IN
       IF version = None THEN Goto(k, "lock") ELSE Answer(k, Recorded(version))
    /\ UNCHANGED <<queue, worker, serviceVars, faults>>

MutAcquire(k) ==
    /\ At(k, "lock")
    /\ lock' = [lock EXCEPT ![call[k].at] = k]
    /\ Goto(k, "recheck")
    /\ UNCHANGED <<queue, worker, cache, latest, artifacts, records, faults>>

Acquire(k) ==
    /\ At(k, "lock")
    /\ lock[call[k].at] = None
    /\ lock' = [lock EXCEPT ![call[k].at] = k]
    /\ Goto(k, "recheck")
    /\ UNCHANGED <<queue, worker, cache, latest, artifacts, records, faults>>

MutRecheck(k) ==
    /\ At(k, "recheck")
    /\ Goto(k, "load")
    /\ UNCHANGED <<queue, worker, serviceVars, faults>>

MutRecheckKeepsLock(k) ==
    /\ At(k, "recheck")
    /\ LET version == records[call[k].job] IN
       IF version = None THEN Goto(k, "load") ELSE Answer(k, Recorded(version))
    /\ UNCHANGED <<queue, worker, serviceVars, faults>>

Recheck(k) ==
    /\ At(k, "recheck")
    /\ LET version == records[call[k].job] IN
       \/ version = None /\ Goto(k, "load") /\ UNCHANGED lock
       \/ version # None /\ Answer(k, Recorded(version)) /\ Release(k)
    /\ UNCHANGED <<queue, worker, cache, latest, artifacts, records, faults>>

\* The model in memory learns the job in place, one version per employee.
Learn(k, m) ==
    LET j == call[k].job
        taught == [version |-> m.version + Size[j],
                   learned |-> [m.learned EXCEPT ![j] = IF Size[j] > 0 THEN @ + 1 ELSE @]]
    IN  /\ cache' = [cache EXCEPT ![call[k].at] = taught]
        /\ call' = [call EXCEPT ![k].model = taught,
                                ![k].pc = IF Size[j] > 0 THEN "save" ELSE "read"]

MutNothingSaved == TRUE

NothingSaved == latest = None

\* From the cache; else from the store, its manifest first; else a new model.
Load(k) ==
    /\ At(k, "load")
    /\ LET cached == cache[call[k].at] IN
       \/ cached # None /\ Learn(k, cached)
       \/ cached = None /\ NothingSaved /\ Learn(k, NewModel)
       \/ /\ cached = None /\ ~NothingSaved
          /\ call' = [call EXCEPT ![k].pc = "fetch", ![k].model = latest]
          /\ UNCHANGED cache
    /\ UNCHANGED <<queue, worker, lock, latest, artifacts, records, faults>>

\* Then its artifact, whose digest must be the manifest's.
Fetch(k) ==
    /\ At(k, "fetch")
    /\ \/ call[k].model \in artifacts /\ Learn(k, call[k].model) /\ UNCHANGED lock
       \/ call[k].model \notin artifacts /\ Answer(k, "corrupt") /\ Release(k)
                                         /\ UNCHANGED cache
    /\ UNCHANGED <<queue, worker, latest, artifacts, records, faults>>

MutEvicted(i) == cache

Evicted(i) == [cache EXCEPT ![i] = None]

Newer(m) == latest # None => m.version > latest.version

\* save, first step: the version must be newer than the manifest's.
CheckVersion(k) ==
    /\ At(k, "save")
    /\ \/ /\ Newer(call[k].model)
          /\ Goto(k, "artifact")
          /\ UNCHANGED <<cache, lock>>
       \/ /\ ~Newer(call[k].model)                  \* ConcurrentWriteError
          /\ cache' = Evicted(call[k].at)
          /\ Answer(k, "conflict")
          /\ Release(k)
    /\ UNCHANGED <<queue, worker, latest, artifacts, records, faults>>

\* The file of a version is replaced.
Stored(m) == {a \in artifacts : a.version # m.version} \cup {m}

PutArtifact(k) ==
    /\ At(k, "artifact")
    /\ artifacts' = Stored(call[k].model)
    /\ Goto(k, "manifest")
    /\ UNCHANGED <<queue, worker, cache, lock, latest, records, faults>>

PutManifest(k) ==
    /\ At(k, "manifest")
    /\ latest' = call[k].model
    /\ Goto(k, "read")
    /\ UNCHANGED <<queue, worker, cache, lock, artifacts, records, faults>>

\* record_processed_once reads the whole file of records ...
ReadRecords(k) ==
    /\ At(k, "read")
    /\ LET version == records[call[k].job] IN
       \/ /\ version = None
          /\ call' = [call EXCEPT ![k].pc = "write", ![k].seen = records]
          /\ UNCHANGED <<cache, lock>>
       \/ /\ version # None
          /\ cache' = IF Size[call[k].job] > 0 /\ version # call[k].model.version
                      THEN Evicted(call[k].at) ELSE cache
          /\ Answer(k, Recorded(version))
          /\ Release(k)
    /\ UNCHANGED <<queue, worker, latest, artifacts, records, faults>>

\* ... and writes it back with one more.
WriteRecords(k) ==
    /\ At(k, "write")
    /\ records' = [call[k].seen EXCEPT ![call[k].job] = call[k].model.version]
    /\ Answer(k, "ok")
    /\ Release(k)
    /\ UNCHANGED <<queue, worker, cache, latest, artifacts, faults>>

-----------------------------------------------------------------------------
(* Faults, and other requests of the service. *)

Fault == faults < MaxFaults /\ faults' = faults + 1

\* An operation of the store raises, a put perhaps after it took effect. Only a failed
\* save evicts the model.
StoreFails(k) ==
    /\ Fault
    /\ call[k].pc \notin {"free", "lock", "answered"}
    /\ At(k, "load") => cache[call[k].at] = None
    /\ artifacts' \in {artifacts} \cup (IF At(k, "artifact") THEN {Stored(call[k].model)} ELSE {})
    /\ latest' \in {latest} \cup (IF At(k, "manifest") THEN {call[k].model} ELSE {})
    /\ records' \in {records} \cup
          (IF At(k, "write")
           THEN {[call[k].seen EXCEPT ![call[k].job] = call[k].model.version]} ELSE {})
    /\ cache' = IF call[k].pc \in {"save", "artifact", "manifest"} THEN Evicted(call[k].at)
                                                                   ELSE cache
    /\ lock' = [i \in Instances |-> IF lock[i] = k THEN None ELSE lock[i]]
    /\ Answer(k, "error")
    /\ UNCHANGED <<queue, worker>>

\* The process of the service stops and another takes its place.
Restart(i) ==
    /\ Fault
    /\ cache' = Evicted(i)
    /\ lock' = [lock EXCEPT ![i] = None]
    /\ call' = [k \in Calls |->
                  IF call[k].at # i THEN call[k]
                  ELSE IF worker.call = k
                       THEN [Free EXCEPT !.pc = "answered", !.job = call[k].job,
                                         !.answer = "error"]
                       ELSE Free]
    /\ UNCHANGED <<queue, worker, latest, artifacts, records>>

\* The models of other tenants push it out of the cache.
Evict(i) ==
    /\ cache[i] # None
    /\ cache' = Evicted(i)
    /\ UNCHANGED <<queue, worker, call, lock, latest, artifacts, records, faults>>

\* distribute, under the same lock, loads the model if it is not cached.
Predict(i) ==
    /\ lock[i] = None
    /\ cache[i] = None
    /\ latest = None \/ latest \in artifacts
    /\ cache' = [cache EXCEPT ![i] = IF latest = None THEN NewModel ELSE latest]
    /\ UNCHANGED <<queue, worker, call, lock, latest, artifacts, records, faults>>

-----------------------------------------------------------------------------
CallStep(k) ==
    \/ Check(k) \/ Acquire(k) \/ Recheck(k) \/ Load(k) \/ Fetch(k)
    \/ CheckVersion(k) \/ PutArtifact(k) \/ PutManifest(k)
    \/ ReadRecords(k) \/ WriteRecords(k)

WorkerStep ==
    \/ \E j \in Jobs : Take(j)
    \/ \E k \in Calls, i \in Instances : Send(k, i)
    \/ Hear
    \/ Timeout

Next ==
    \/ \E j \in Jobs : Enqueue(j)
    \/ WorkerStep
    \/ \E k \in Calls : CallStep(k) \/ StoreFails(k)
    \/ \E i \in Instances : Restart(i) \/ Evict(i) \/ Predict(i)
    \/ WorkerStops

Spec == Init /\ [][Next]_vars

\* A worker that runs goes on, and so does a coroutine of the service.
FairSpec == Spec /\ WF_vars(WorkerStep) /\ \A k \in Calls : WF_vars(CallStep(k))

-----------------------------------------------------------------------------
(* Properties. *)

\* What the queue reports completed, or the idempotency file recorded, is in the model
\* that is saved, whatever calls time out, repeat or fail: an answer already_trained is true.
FeedbackKept ==
    \A j \in Jobs : (queue[j].status = "completed" \/ records[j] # None) /\ Size[j] > 0 =>
        latest # None /\ latest.learned[j] > 0

\* The client's retries, the queue's and a call that runs on after its timeout never
\* teach a job twice by themselves: every repetition costs a crash or a store failure.
RepeatsNeedFaults ==
    latest # None => \A j \in Jobs : latest.learned[j] <= 1 + faults

\* A distribution is only ever computed with a model that is saved: what a failed save
\* left in memory is not used.
ServedModelIsSaved ==
    \A i \in Instances : lock[i] = None /\ cache[i] # None =>
        cache[i] = IF latest = None THEN NewModel ELSE latest

\* The manifest always names an artifact with its digest, after any crash of a save.
LatestLoads == latest # None => latest \in artifacts

\* After any crash or failed save, what is served is what is saved, and what is saved can
\* be loaded (model_service.py:377-426, r2_store.py:178-222).
StoreSafe == TypeOK /\ ServedModelIsSaved /\ LatestLoads

\* A record is never removed: no call rewrites the file from an older reading of it.
RecordsKept == [][\A j \in Jobs : records[j] # None => records'[j] # None]_records

\* A job in the queue ends, completed or failed.
EveryJobEnds ==
    \A j \in Jobs : queue[j].status = "waiting" ~> queue[j].status \in {"completed", "failed"}

\* The tenant's lock, which every distribution of the tenant waits for, is given back by
\* each call.
LockReleased == \A i \in Instances, k \in Calls : lock[i] = k ~> lock[i] # k

\* With any number of instances on one store, whatever they do to each other, no job and no
\* distribution waits for good (ml-training.processor.ts:20-48, model_service.py:314-440).
NobodyWaitsForGood == EveryJobEnds /\ LockReleased
=============================================================================
