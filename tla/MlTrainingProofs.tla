-------------------------- MODULE MlTrainingProofs ---------------------------
(***************************************************************************)
(* Proofs about MlTraining, for any jobs, calls, attempts and faults.      *)
(*                                                                         *)
(* First when the ML service is one process, as it is deployed: its lock   *)
(* is a lock of that process. Two processes break each of these            *)
(* properties. Last, for any number of processes, why no job, call or lock *)
(* is left behind.                                                         *)
(*                                                                         *)
(* The invariant says what the call that holds the lock has established    *)
(* at each of its steps, HolderOK.  All else rests on it: no other call    *)
(* touches the files, the manifest or the model meanwhile.                 *)
(***************************************************************************)
EXTENDS MlTraining, TLAPS

SingleInstance == \A i, j \in Instances : i = j

-----------------------------------------------------------------------------
CallType == [pc : Places, job : Jobs \cup {None}, at : Instances \cup {None},
             model : Model \cup {None}, seen : Versions \cup {None},
             answer : Answers \cup {None}]

Job == [status : Statuses, made : 0..Attempts, stalled : BOOLEAN]

\* The places where a call holds the lock, and those where it has a model.
Held == {"recheck", "load", "fetch", "save", "artifact", "manifest", "read", "write"}
Taught == {"fetch", "save", "artifact", "manifest", "read", "write"}

\* The fields that a place needs are there.
CallOK(c) ==
    /\ c.pc # "free" => c.job \in Jobs
    /\ c.pc \in Held \cup {"check", "lock"} => c.at \in Instances
    /\ c.pc \in Taught => c.model \in Model
    /\ c.pc = "write" => c.seen \in Versions

\* The worker has a job that is active, with tries and attempts left, and its call is
\* about that job.
WorkerInv ==
    /\ \A j \in Jobs : /\ queue[j].status = "none" => queue[j].made = 0
                       /\ queue[j].status \in {"none", "waiting", "active"} => queue[j].made < Attempts
    /\ worker.job # None => queue[worker.job].status = "active"
    /\ worker.job # None /\ worker.call = None => worker.tries < Tries
    /\ worker.call # None => /\ worker.job # None
                             /\ call[worker.call].pc # "free"
                             /\ call[worker.call].job = worker.job

TypeInv == TypeOK /\ WorkerInv /\ \A k \in Calls : CallOK(call[k])

-----------------------------------------------------------------------------
(* The assignments of the model, once for all. *)

LEMMA TypeOKSplit ==
  TypeOK <=> /\ queue \in [Jobs -> Job]
             /\ worker \in [job : Jobs \cup {None}, tries : 0..Tries, call : Calls \cup {None}]
             /\ call \in [Calls -> CallType]
             /\ cache \in [Instances -> Model \cup {None}]
             /\ lock \in [Instances -> Calls \cup {None}]
             /\ latest \in Model \cup {None}
             /\ artifacts \subseteq Model
             /\ records \in Versions
             /\ faults \in 0..MaxFaults
  BY DEF TypeOK, Job, CallType

LEMMA FreeTyped == Free \in CallType /\ CallOK(Free)
  BY DEF Free, CallType, CallOK, Held, Taught, Places

LEMMA NewModelTyped == NewModel \in Model
  BY DEF NewModel, Model

\* call' is call but for k, which is c.
LEMMA SetCall ==
  ASSUME call \in [Calls -> CallType], \A n \in Calls : CallOK(call[n]),
         NEW k \in Calls, NEW c \in CallType, CallOK(c), call' = [call EXCEPT ![k] = c]
  PROVE  /\ call' \in [Calls -> CallType]
         /\ \A n \in Calls : CallOK(call[n])'
         /\ call'[k] = c
         /\ \A n \in Calls : n # k => call'[n] = call[n]
<1>1. /\ call' \in [Calls -> CallType]
      /\ call'[k] = c
      /\ \A n \in Calls : n # k => call'[n] = call[n]
  OBVIOUS
<1> QED
  BY <1>1 DEF CallOK

LEMMA GotoFacts ==
  ASSUME call \in [Calls -> CallType], \A n \in Calls : CallOK(call[n]),
         NEW k \in Calls, NEW p \in Places, Goto(k, p), CallOK([call[k] EXCEPT !.pc = p])
  PROVE  /\ call' \in [Calls -> CallType]
         /\ \A n \in Calls : CallOK(call[n])'
         /\ \A n \in Calls : n # k => call'[n] = call[n]
         /\ call'[k] = [call[k] EXCEPT !.pc = p]
         /\ call'[k].pc = p /\ call'[k].job = call[k].job /\ call'[k].at = call[k].at
         /\ call'[k].model = call[k].model /\ call'[k].seen = call[k].seen
<1>1. call[k] \in CallType
  OBVIOUS
<1>2. PICK c \in CallType : c = [call[k] EXCEPT !.pc = p]
  BY <1>1 DEF CallType
<1>3. call' = [call EXCEPT ![k] = c]
  BY <1>2 DEF Goto
<1>4. /\ call' \in [Calls -> CallType]
      /\ \A n \in Calls : CallOK(call[n])'
      /\ call'[k] = c
      /\ \A n \in Calls : n # k => call'[n] = call[n]
  BY <1>2, <1>3, SetCall
<1>5. /\ c.pc = p /\ c.job = call[k].job /\ c.at = call[k].at
      /\ c.model = call[k].model /\ c.seen = call[k].seen
  BY <1>1, <1>2 DEF CallType
<1> QED
  BY <1>2, <1>4, <1>5

LEMMA AnswerFacts ==
  ASSUME call \in [Calls -> CallType], \A n \in Calls : CallOK(call[n]),
         NEW k \in Calls, NEW a \in Answers, call[k].job \in Jobs, Answer(k, a)
  PROVE  /\ call' \in [Calls -> CallType]
         /\ \A n \in Calls : CallOK(call[n])'
         /\ \A n \in Calls : n # k => call'[n] = call[n]
         /\ IF worker.call = k
            THEN call'[k].pc = "answered" /\ call'[k].job = call[k].job /\ call'[k].answer = a
            ELSE call'[k] = Free
<1>1. CASE worker.call = k
  <2>1. PICK c : c = [Free EXCEPT !.pc = "answered", !.job = call[k].job, !.answer = a]
    OBVIOUS
  <2>2. /\ c \in CallType /\ CallOK(c)
        /\ c.pc = "answered" /\ c.job = call[k].job /\ c.answer = a
    BY <2>1 DEF Free, CallType, CallOK, Held, Taught, Places
  <2>3. call' = [call EXCEPT ![k] = c]
    BY <1>1, <2>1 DEF Answer
  <2> QED
    BY <1>1, <2>2, <2>3, SetCall
<1>2. CASE worker.call # k
  <2>1. call' = [call EXCEPT ![k] = Free]
    BY <1>2 DEF Answer
  <2> QED
    BY <1>2, <2>1, FreeTyped, SetCall DEF Free
<1> QED
  BY <1>1, <1>2

LEMMA LearnFacts ==
  ASSUME call \in [Calls -> CallType], \A n \in Calls : CallOK(call[n]),
         cache \in [Instances -> Model \cup {None}],
         NEW k \in Calls, call[k].pc \in Held, NEW m \in Model, Learn(k, m)
  PROVE  \E taught \in Model :
            /\ taught.version = m.version + Size[call[k].job]
            /\ \A j \in Jobs : taught.learned[j] =
                  IF j = call[k].job /\ Size[j] > 0 THEN m.learned[j] + 1 ELSE m.learned[j]
            /\ Size[call[k].job] = 0 => taught = m
            /\ cache' = [cache EXCEPT ![call[k].at] = taught]
            /\ call' \in [Calls -> CallType]
            /\ \A n \in Calls : CallOK(call[n])'
            /\ \A n \in Calls : n # k => call'[n] = call[n]
            /\ call'[k].pc = IF Size[call[k].job] > 0 THEN "save" ELSE "read"
            /\ call'[k].job = call[k].job /\ call'[k].at = call[k].at /\ call'[k].model = taught
<1>1. call[k] \in CallType /\ call[k].job \in Jobs /\ call[k].at \in Instances
  BY DEF CallOK, Held
<1>2. PICK j \in Jobs : j = call[k].job
  BY <1>1
<1>3. Size[j] \in Nat
  BY SizeAssumption
<1>4. m.version \in Nat /\ m.learned \in [Jobs -> Nat]
      /\ m = [version |-> m.version, learned |-> m.learned]
  BY DEF Model
<1> DEFINE taught == [version |-> m.version + Size[j],
                      learned |-> [m.learned EXCEPT ![j] = IF Size[j] > 0 THEN @ + 1 ELSE @]]
<1>5. /\ taught.version = m.version + Size[j]
      /\ \A l \in Jobs : taught.learned[l] =
            IF l = j /\ Size[l] > 0 THEN m.learned[l] + 1 ELSE m.learned[l]
  BY <1>4
<1>6. taught \in Model
  BY <1>3, <1>4 DEF Model
<1>7. Size[j] = 0 => taught = m
  BY <1>4
<1>8. PICK t \in Model : t = taught
  BY <1>6
<1>9. /\ cache' = [cache EXCEPT ![call[k].at] = t]
      /\ call' = [call EXCEPT ![k].model = t, ![k].pc = IF Size[j] > 0 THEN "save" ELSE "read"]
  BY <1>2, <1>8 DEF Learn
<1> HIDE DEF taught
<1>10. PICK c : c = [call[k] EXCEPT !.model = t, !.pc = IF Size[j] > 0 THEN "save" ELSE "read"]
  OBVIOUS
<1>11. /\ c \in CallType
       /\ c.pc = IF Size[j] > 0 THEN "save" ELSE "read"
       /\ c.job = call[k].job /\ c.at = call[k].at /\ c.model = t /\ c.seen = call[k].seen
  BY <1>1, <1>10 DEF CallType, Places
<1>12. CallOK(c)
  BY <1>1, <1>11 DEF CallOK
<1>13. call' = [call EXCEPT ![k] = c]
  BY <1>9, <1>10
<1>14. /\ call' \in [Calls -> CallType]
       /\ \A n \in Calls : CallOK(call[n])'
       /\ call'[k] = c
       /\ \A n \in Calls : n # k => call'[n] = call[n]
  BY <1>11, <1>12, <1>13, SetCall
<1>15. /\ t.version = m.version + Size[call[k].job]
       /\ \A l \in Jobs : t.learned[l] =
             IF l = call[k].job /\ Size[l] > 0 THEN m.learned[l] + 1 ELSE m.learned[l]
       /\ Size[call[k].job] = 0 => t = m
  BY <1>2, <1>5, <1>7, <1>8
<1> QED
  BY <1>2, <1>9, <1>11, <1>14, <1>15

-----------------------------------------------------------------------------
LEMMA MlInitTyped == Init => TypeInv
<1> SUFFICES ASSUME Init
             PROVE  TypeInv
  OBVIOUS
<1>1. TypeOK
  <2>1. queue \in [Jobs -> Job]
    BY RetryAssumption DEF Init, Job, Statuses
  <2>2. worker \in [job : Jobs \cup {None}, tries : 0..Tries, call : Calls \cup {None}]
    BY RetryAssumption DEF Init, NoWork
  <2>3. call \in [Calls -> CallType]
    BY FreeTyped DEF Init
  <2>4. /\ cache \in [Instances -> Model \cup {None}]
        /\ lock \in [Instances -> Calls \cup {None}]
        /\ latest \in Model \cup {None}
        /\ artifacts \subseteq Model
        /\ records \in Versions
        /\ faults \in 0..MaxFaults
    BY RetryAssumption DEF Init, Versions
  <2> QED
    BY <2>1, <2>2, <2>3, <2>4, TypeOKSplit
<1>2. WorkerInv
  BY RetryAssumption DEF Init, WorkerInv, NoWork
<1>3. \A k \in Calls : CallOK(call[k])
  BY FreeTyped DEF Init
<1> QED
  BY <1>1, <1>2, <1>3 DEF TypeInv

-----------------------------------------------------------------------------
(* The queue and its processor *)

\* They leave the service alone; of the calls, they start one or drop an answer; and a
\* job is completed by an answer.
QueueMoves ==
    /\ UNCHANGED <<cache, lock, latest, artifacts, records, faults>>
    /\ \A k \in Calls : \/ call'[k] = call[k]
                        \/ call[k].pc \in {"free", "answered"} /\ call'[k].pc \in {"free", "check"}
    /\ \A j \in Jobs : queue'[j].status = "completed" =>
          \/ queue[j].status = "completed"
          \/ \E k \in Calls : call[k].pc = "answered" /\ call[k].answer = "ok" /\ call[k].job = j

\* The processor gives up a try or an attempt.
LEMMA TryFailsFacts ==
  ASSUME TypeInv, worker.job \in Jobs, AttemptFails \/ TryFails
  PROVE  /\ queue' \in [Jobs -> Job]
         /\ \A j \in Jobs :
               /\ queue'[j].status = "none" => queue'[j].made = 0
               /\ queue'[j].status \in {"none", "waiting", "active"} => queue'[j].made < Attempts
               /\ queue'[j].status = "completed" => queue[j].status = "completed"
         /\ worker' \in [job : Jobs \cup {None}, tries : 0..Tries, call : Calls \cup {None}]
         /\ worker'.call = None
         /\ worker'.job # None => queue'[worker'.job].status = "active" /\ worker'.tries < Tries
<1>0. /\ queue \in [Jobs -> Job]
      /\ worker \in [job : Jobs \cup {None}, tries : 0..Tries, call : Calls \cup {None}]
  BY TypeOKSplit DEF TypeInv
<1>1. PICK w \in Jobs : w = worker.job
  OBVIOUS
<1>2. queue[w] \in Job /\ queue[w].status = "active" /\ queue[w].made < Attempts
  BY <1>0, <1>1, NoneAssumption DEF TypeInv, WorkerInv
<1>3. CASE AttemptFails
  <2>1. worker' = NoWork
    BY <1>3 DEF AttemptFails
  <2>2. PICK q : q = [queue[w] EXCEPT !.status = IF queue[w].made + 1 < Attempts THEN "waiting"
                                                                                ELSE "failed",
                                      !.made = queue[w].made + 1]
    OBVIOUS
  <2>3. queue' = [queue EXCEPT ![w] = q]
    BY <1>1, <1>3, <2>2 DEF AttemptFails
  <2>4. /\ q \in Job
        /\ q.status = IF queue[w].made + 1 < Attempts THEN "waiting" ELSE "failed"
        /\ q.made = queue[w].made + 1
    <3>1. queue[w].made \in Nat /\ Attempts \in Nat /\ queue[w].made + 1 \in 0..Attempts
      BY <1>2, RetryAssumption DEF Job
    <3>2. PICK s \in Statuses : s = IF queue[w].made + 1 < Attempts THEN "waiting" ELSE "failed"
      BY DEF Statuses
    <3>3. PICK m \in 0..Attempts : m = queue[w].made + 1
      BY <3>1
    <3>4. q = [queue[w] EXCEPT !.status = s, !.made = m]
      BY <2>2, <3>2, <3>3
    <3>5. q \in Job /\ q.status = s /\ q.made = m
      BY <1>2, <3>4 DEF Job
    <3> QED
      BY <3>2, <3>3, <3>5
  <2>5. queue' \in [Jobs -> Job] /\ queue'[w] = q /\ \A j \in Jobs : j # w => queue'[j] = queue[j]
    BY <1>0, <2>3, <2>4
  <2>6. \A j \in Jobs :
               /\ queue'[j].status = "none" => queue'[j].made = 0
               /\ queue'[j].status \in {"none", "waiting", "active"} => queue'[j].made < Attempts
               /\ queue'[j].status = "completed" => queue[j].status = "completed"
    BY <2>4, <2>5 DEF TypeInv, WorkerInv
  <2> QED
    BY <2>1, <2>5, <2>6, RetryAssumption DEF NoWork
<1>4. CASE TryFails /\ ~AttemptFails
  <2>1. worker.tries < Tries /\ worker' = [worker EXCEPT !.call = None] /\ queue' = queue
    BY <1>4 DEF TryFails
  <2> QED
    BY <1>0, <1>1, <1>2, <2>1 DEF TypeInv, WorkerInv
<1> QED
  BY <1>3, <1>4

LEMMA QueueTyped ==
  ASSUME TypeInv, WorkerStep \/ WorkerStops \/ \E j \in Jobs : Enqueue(j)
  PROVE  TypeInv' /\ QueueMoves
<1>0. /\ queue \in [Jobs -> Job]
      /\ worker \in [job : Jobs \cup {None}, tries : 0..Tries, call : Calls \cup {None}]
      /\ call \in [Calls -> CallType]
      /\ WorkerInv
      /\ \A k \in Calls : CallOK(call[k])
  BY TypeOKSplit DEF TypeInv
<1>a. ASSUME UNCHANGED <<serviceVars, faults>>,
             queue' \in [Jobs -> Job],
             worker' \in [job : Jobs \cup {None}, tries : 0..Tries, call : Calls \cup {None}],
             call' \in [Calls -> CallType]
      PROVE  TypeOK'
  BY <1>a, TypeOKSplit DEF TypeInv, TypeOK, Job, CallType, serviceVars
<1>1. ASSUME NEW j \in Jobs, Enqueue(j)
      PROVE  TypeInv' /\ QueueMoves
  <2>1. PICK q : q = [queue[j] EXCEPT !.status = "waiting"]
    OBVIOUS
  <2>2. queue[j] \in Job /\ q \in Job /\ q.status = "waiting" /\ q.made = queue[j].made
    BY <1>0, <2>1 DEF Job, Statuses
  <2>3. queue' = [queue EXCEPT ![j] = q] /\ UNCHANGED <<worker, call, serviceVars, faults>>
    BY <1>1, <2>1 DEF Enqueue
  <2>4. queue' \in [Jobs -> Job] /\ queue'[j] = q /\ \A i \in Jobs : i # j => queue'[i] = queue[i]
    BY <1>0, <2>2, <2>3
  <2>5. queue[j].status = "none"
    BY <1>1 DEF Enqueue
  <2>6. WorkerInv'
    BY <1>0, <2>2, <2>3, <2>4, <2>5, RetryAssumption DEF WorkerInv
  <2>7. \A k \in Calls : CallOK(call[k])'
    BY <1>0, <2>3 DEF CallOK
  <2> QED
    BY <1>0, <1>a, <2>2, <2>3, <2>4, <2>6, <2>7 DEF TypeInv, QueueMoves, serviceVars
<1>2. ASSUME NEW j \in Jobs, Take(j)
      PROVE  TypeInv' /\ QueueMoves
  <2>1. PICK q : q = [queue[j] EXCEPT !.status = "active"]
    OBVIOUS
  <2>2. queue[j] \in Job /\ q \in Job /\ q.status = "active" /\ q.made = queue[j].made
    BY <1>0, <2>1 DEF Job, Statuses
  <2>3. queue' = [queue EXCEPT ![j] = q] /\ UNCHANGED <<call, serviceVars, faults>>
    BY <1>2, <2>1 DEF Take
  <2>4. queue' \in [Jobs -> Job] /\ queue'[j] = q /\ \A i \in Jobs : i # j => queue'[i] = queue[i]
    BY <1>0, <2>2, <2>3
  <2>5. queue[j].status = "waiting" /\ worker' = [NoWork EXCEPT !.job = j]
    BY <1>2 DEF Take
  <2>6. worker'.job = j /\ worker'.tries = 0 /\ worker'.call = None
        /\ worker' \in [job : Jobs \cup {None}, tries : 0..Tries, call : Calls \cup {None}]
    BY <2>5, RetryAssumption DEF NoWork
  <2>7. WorkerInv'
    BY <1>0, <2>2, <2>4, <2>5, <2>6, RetryAssumption DEF WorkerInv
  <2>8. \A k \in Calls : CallOK(call[k])'
    BY <1>0, <2>3 DEF CallOK
  <2> QED
    BY <1>0, <1>a, <2>2, <2>3, <2>4, <2>6, <2>7, <2>8 DEF TypeInv, QueueMoves, serviceVars
<1>3. ASSUME NEW k \in Calls, NEW i \in Instances, Send(k, i)
      PROVE  TypeInv' /\ QueueMoves
  <2>1. /\ worker.job \in Jobs /\ worker.call = None /\ worker.tries < Tries
        /\ call[k] = Free
        /\ UNCHANGED <<queue, serviceVars, faults>>
    BY <1>0, <1>3 DEF Send, WorkerInv
  <2>2. PICK c : c = [Free EXCEPT !.pc = "check", !.job = worker.job, !.at = i]
    OBVIOUS
  <2>3. c \in CallType /\ c.pc = "check" /\ c.job = worker.job /\ CallOK(c)
    BY <2>1, <2>2 DEF Free, CallType, CallOK, Held, Taught, Places
  <2>4. call' = [call EXCEPT ![k] = c] /\ worker' = [worker EXCEPT !.call = k, !.tries = worker.tries + 1]
    BY <1>3, <2>2 DEF Send
  <2>5. /\ call' \in [Calls -> CallType]
        /\ \A n \in Calls : CallOK(call[n])'
        /\ call'[k] = c
        /\ \A n \in Calls : n # k => call'[n] = call[n]
    BY <1>0, <2>3, <2>4, SetCall
  <2>6. worker'.job = worker.job /\ worker'.call = k
        /\ worker' \in [job : Jobs \cup {None}, tries : 0..Tries, call : Calls \cup {None}]
    <3>1. PICK t \in 0..Tries : t = worker.tries + 1
      BY <1>0, <2>1, RetryAssumption
    <3>2. worker' = [worker EXCEPT !.call = k, !.tries = t]
      BY <2>4, <3>1
    <3> QED
      BY <1>0, <3>2
  <2>7. WorkerInv'
    BY <1>0, <2>1, <2>3, <2>5, <2>6, NoneAssumption DEF WorkerInv
  <2>8. call[k].pc = "free"
    BY <2>1 DEF Free
  <2> QED
    BY <1>0, <1>a, <2>1, <2>3, <2>5, <2>6, <2>7, <2>8 DEF TypeInv, QueueMoves, serviceVars
<1>b. ASSUME worker.job \in Jobs, AttemptFails \/ TryFails,
             call' \in [Calls -> CallType], \A n \in Calls : CallOK(call[n])',
             \A n \in Calls : \/ call'[n] = call[n]
                              \/ call[n].pc \in {"free", "answered"} /\ call'[n].pc \in {"free", "check"},
             UNCHANGED <<serviceVars, faults>>
      PROVE  TypeInv' /\ QueueMoves
  <2>1. WorkerInv'
    BY <1>b, TryFailsFacts DEF WorkerInv
  <2> QED
    BY <1>a, <1>b, <2>1, TryFailsFacts DEF TypeInv, QueueMoves, serviceVars
<1>c. worker.call # None => worker.call \in Calls /\ worker.job \in Jobs
                            /\ call[worker.call].job = worker.job
  BY <1>0 DEF WorkerInv
<1>4. CASE Hear
  <2>1. PICK k \in Calls : k = worker.call
    BY <1>c, <1>4 DEF Hear
  <2>2. /\ call[k].pc = "answered" /\ call' = [call EXCEPT ![k] = Free]
        /\ UNCHANGED <<serviceVars, faults>>
        /\ worker.job \in Jobs /\ call[k].job = worker.job
    BY <1>c, <1>4, <2>1, NoneAssumption DEF Hear
  <2>3. /\ call' \in [Calls -> CallType]
        /\ \A n \in Calls : CallOK(call[n])'
        /\ call'[k] = Free
        /\ \A n \in Calls : n # k => call'[n] = call[n]
    BY <1>0, <2>2, FreeTyped, SetCall
  <2>4. \A n \in Calls : \/ call'[n] = call[n]
                         \/ call[n].pc \in {"free", "answered"} /\ call'[n].pc \in {"free", "check"}
    BY <2>2, <2>3 DEF Free
  <2>5. CASE AttemptFails \/ TryFails
    BY <1>b, <2>2, <2>3, <2>4, <2>5
  <2>6. CASE /\ call[k].answer = "ok"
             /\ queue' = [queue EXCEPT ![worker.job].status = "completed"]
             /\ worker' = NoWork
    <3>1. PICK j \in Jobs : j = worker.job
      BY <2>2
    <3>2. PICK q : q = [queue[j] EXCEPT !.status = "completed"]
      OBVIOUS
    <3>3. queue[j] \in Job /\ q \in Job /\ q.status = "completed"
      BY <1>0, <3>2 DEF Job, Statuses
    <3>4. queue' = [queue EXCEPT ![j] = q]
      BY <2>6, <3>1, <3>2
    <3>5. queue' \in [Jobs -> Job] /\ queue'[j] = q /\ \A i \in Jobs : i # j => queue'[i] = queue[i]
      BY <1>0, <3>3, <3>4
    <3>6. worker'.job = None /\ worker'.call = None
          /\ worker' \in [job : Jobs \cup {None}, tries : 0..Tries, call : Calls \cup {None}]
      BY <2>6, RetryAssumption DEF NoWork
    <3>7. WorkerInv'
      BY <1>0, <3>3, <3>5, <3>6 DEF WorkerInv
    <3> QED
      BY <1>a, <2>2, <2>3, <2>4, <2>6, <3>1, <3>5, <3>6, <3>7 DEF TypeInv, QueueMoves, serviceVars
  <2> QED
    BY <1>4, <2>1, <2>5, <2>6 DEF Hear
<1>5. CASE Timeout
  <2>1. PICK k \in Calls : k = worker.call
    BY <1>c, <1>5 DEF Timeout
  <2>2. /\ TryFails /\ UNCHANGED <<serviceVars, faults>>
        /\ call' = [call EXCEPT ![k] = IF call[k].pc = "answered" THEN Free ELSE call[k]]
        /\ worker.job \in Jobs
    BY <1>c, <1>5, <2>1, NoneAssumption DEF Timeout
  <2>3. PICK c \in CallType : CallOK(c) /\ c = IF call[k].pc = "answered" THEN Free ELSE call[k]
    BY <1>0, FreeTyped
  <2>4. /\ call' \in [Calls -> CallType]
        /\ \A n \in Calls : CallOK(call[n])'
        /\ call'[k] = c
        /\ \A n \in Calls : n # k => call'[n] = call[n]
    BY <1>0, <2>2, <2>3, SetCall
  <2>5. \A n \in Calls : \/ call'[n] = call[n]
                         \/ call[n].pc \in {"free", "answered"} /\ call'[n].pc \in {"free", "check"}
    BY <2>3, <2>4 DEF Free
  <2> QED
    BY <1>b, <2>2, <2>4, <2>5
<1>6. CASE WorkerStops
  <2>1. PICK j \in Jobs : j = worker.job
    BY <1>0, <1>6 DEF WorkerStops
  <2>2. PICK q : q = [queue[j] EXCEPT !.status = IF queue[j].stalled THEN "failed" ELSE "waiting",
                                      !.stalled = TRUE]
    OBVIOUS
  <2>3. queue[j] \in Job /\ q \in Job /\ q.status \in {"failed", "waiting"} /\ q.made = queue[j].made
    BY <1>0, <2>2 DEF Job, Statuses
  <2>4. queue' = [queue EXCEPT ![j] = q] /\ worker' = NoWork /\ UNCHANGED <<serviceVars, faults>>
    BY <1>6, <2>1, <2>2 DEF WorkerStops
  <2>5. queue' \in [Jobs -> Job] /\ queue'[j] = q /\ \A i \in Jobs : i # j => queue'[i] = queue[i]
    BY <1>0, <2>3, <2>4
  <2>6. \A k \in Calls : call'[k] = IF call[k].pc = "answered" THEN Free ELSE call[k]
    BY <1>6 DEF WorkerStops
  <2>7. call' \in [Calls -> CallType] /\ \A n \in Calls : CallOK(call[n])'
    <3>1. \A k \in Calls : call'[k] \in CallType /\ CallOK(call'[k])
      BY <1>0, <2>6, FreeTyped
    <3>2. call' = [k \in Calls |-> IF call[k].pc = "answered" THEN Free ELSE call[k]]
      BY <1>6 DEF WorkerStops
    <3> QED
      BY <3>1, <3>2 DEF CallOK
  <2>8. worker'.job = None /\ worker'.call = None
        /\ worker' \in [job : Jobs \cup {None}, tries : 0..Tries, call : Calls \cup {None}]
    BY <2>4, RetryAssumption DEF NoWork
  <2>9. queue[j].status = "active"
    BY <1>0, <2>1, NoneAssumption DEF WorkerInv
  <2>10. WorkerInv'
    BY <1>0, <2>3, <2>5, <2>8, <2>9 DEF WorkerInv
  <2>11. QueueMoves
    BY <2>3, <2>4, <2>5, <2>6 DEF QueueMoves, serviceVars, Free
  <2> QED
    BY <1>a, <2>4, <2>5, <2>7, <2>8, <2>10, <2>11 DEF TypeInv
<1> QED
  BY <1>1, <1>2, <1>3, <1>4, <1>5, <1>6 DEF WorkerStep

-----------------------------------------------------------------------------
(* The invariant *)

Saving == {"save", "artifact", "manifest"}
Counting == {"read", "write"}

\* The model a restarted process would serve.
Saved == IF latest = None THEN NewModel ELSE latest

LockInv == \A k \in Calls : call[k].pc \in Held => lock[call[k].at] = k

\* What a call has established, by its place: its job has no record; its model is the saved
\* one, then the saved one that has learned the job, then the saved one again.
HolderOK(k) ==
    LET c == call[k] IN
    /\ c.pc \in Held \ {"recheck"} => records[c.job] = None
    /\ c.pc = "fetch" => latest # None /\ c.model = latest
    /\ c.pc \in Saving =>
          /\ Size[c.job] > 0
          /\ c.model.version > Saved.version
          /\ \A j \in Jobs : c.model.learned[j] = IF j = c.job THEN Saved.learned[j] + 1
                                                               ELSE Saved.learned[j]
          /\ cache[c.at] \in {None, c.model}
    /\ c.pc = "manifest" => c.model \in artifacts
    /\ c.pc \in Counting =>
          /\ c.model = Saved
          /\ Size[c.job] > 0 => latest # None /\ latest.learned[c.job] > 0
    /\ c.pc = "write" => c.seen = records

\* Unless a call is saving, what an instance has in memory is saved.
CacheInv ==
    (\A k \in Calls : call[k].pc \notin Saving) => \A i \in Instances : cache[i] \in {None, Saved}

\* A job is reported trained: to the queue, in the file, or in an answer under way.
Reported(j) ==
    \/ queue[j].status = "completed"
    \/ records[j] # None
    \/ \E k \in Calls : call[k].pc = "answered" /\ call[k].answer = "ok" /\ call[k].job = j

KeptInv == \A j \in Jobs : Size[j] > 0 /\ Reported(j) => latest # None /\ latest.learned[j] > 0

\* A job learned and saved is recorded, or about to be by a call; else a fault has lost it.
Accounted(j) ==
    \/ records[j] # None
    \/ \E k \in Calls : call[k].pc \in Counting /\ call[k].job = j

CountInv == \A j \in Jobs : Saved.learned[j] <= IF Accounted(j) THEN faults + 1 ELSE faults

ServiceInv == /\ LockInv
              /\ \A k \in Calls : HolderOK(k)
              /\ CacheInv
              /\ LatestLoads
              /\ KeptInv
              /\ CountInv

Inv == TypeInv /\ ServiceInv

-----------------------------------------------------------------------------
(* Steps of one call *)

LEMMA ServiceTyped ==
  ASSUME TypeInv, NEW k \in Calls, UNCHANGED <<queue, worker>>,
         call' \in [Calls -> CallType], \A n \in Calls : CallOK(call[n])',
         \A n \in Calls : n # k => call'[n] = call[n],
         worker.call = k => call'[k].pc # "free" /\ call'[k].job = call[k].job,
         cache' \in [Instances -> Model \cup {None}],
         lock' \in [Instances -> Calls \cup {None}],
         latest' \in Model \cup {None}, artifacts' \subseteq Model,
         records' \in Versions, faults' \in 0..MaxFaults
  PROVE  TypeInv'
<1>1. TypeOK'
  BY TypeOKSplit DEF TypeInv, TypeOK, Job, CallType
<1>2. WorkerInv'
  BY TypeOKSplit DEF TypeInv, WorkerInv
<1> QED
  BY <1>1, <1>2 DEF TypeInv

\* What every step starts from.
LEMMA InvFacts ==
  ASSUME Inv, NEW k \in Calls
  PROVE  /\ TypeInv /\ ServiceInv
         /\ call \in [Calls -> CallType] /\ call[k] \in CallType
         /\ \A n \in Calls : CallOK(call[n])
         /\ call[k].pc # "free" => call[k].job \in Jobs
         /\ call[k].pc \in Held => call[k].at \in Instances
         /\ worker.call = k => call[k].pc # "free"
         /\ cache \in [Instances -> Model \cup {None}]
         /\ lock \in [Instances -> Calls \cup {None}]
         /\ latest \in Model \cup {None} /\ artifacts \subseteq Model
         /\ records \in Versions /\ faults \in 0..MaxFaults /\ faults \in Nat
         /\ Saved \in Model
<1>1. /\ TypeInv /\ ServiceInv
      /\ call \in [Calls -> CallType] /\ call[k] \in CallType
      /\ \A n \in Calls : CallOK(call[n])
      /\ cache \in [Instances -> Model \cup {None}]
      /\ lock \in [Instances -> Calls \cup {None}]
      /\ latest \in Model \cup {None} /\ artifacts \subseteq Model
      /\ records \in Versions /\ faults \in 0..MaxFaults
  BY TypeOKSplit DEF Inv, TypeInv
<1>2. Saved \in Model
  BY <1>1, NewModelTyped DEF Saved
<1>3. worker.call = k => call[k].pc # "free"
  BY <1>1, NoneAssumption DEF TypeInv, WorkerInv
<1>4. call[k].pc # "free" => call[k].job \in Jobs
  BY <1>1 DEF CallOK
<1>5. call[k].pc \in Held => call[k].at \in Instances
  BY <1>1 DEF CallOK
<1>6. faults \in Nat
  BY <1>1, RetryAssumption
<1> QED
  BY <1>1, <1>2, <1>3, <1>4, <1>5, <1>6

\* One process, one lock: one call at a time past it.
LEMMA OneHolder ==
  ASSUME Inv, SingleInstance, NEW k \in Calls, call[k].pc \in Held
  PROVE  \A n \in Calls : n # k => call[n].pc \notin Held
<1> SUFFICES ASSUME NEW n \in Calls, call[n].pc \in Held
             PROVE  n = k
  OBVIOUS
<1>1. call[k].at \in Instances /\ call[n].at \in Instances
  BY InvFacts
<1>2. lock[call[k].at] = k /\ lock[call[n].at] = n
  BY DEF Inv, ServiceInv, LockInv
<1>3. call[k].at = call[n].at
  BY <1>1 DEF SingleInstance
<1> QED
  BY <1>2, <1>3

LEMMA AnsweredTyped ==
  ASSUME Inv, NEW k \in Calls, call[k].pc # "free", NEW a \in Answers, Answer(k, a)
  PROVE  /\ call' \in [Calls -> CallType]
         /\ \A n \in Calls : CallOK(call[n])'
         /\ \A n \in Calls : n # k => call'[n] = call[n]
         /\ call'[k].pc \in {"free", "answered"}
         /\ call'[k].pc \notin Held \cup Saving \cup Counting \cup {"fetch"}
         /\ call'[k].pc = "answered" => call'[k].job = call[k].job /\ call'[k].answer = a
         /\ worker.call = k => call'[k].pc # "free" /\ call'[k].job = call[k].job
         /\ HolderOK(k)'
<1>1. call \in [Calls -> CallType] /\ (\A n \in Calls : CallOK(call[n])) /\ call[k].job \in Jobs
  BY InvFacts
<1>2. /\ call' \in [Calls -> CallType]
      /\ \A n \in Calls : CallOK(call[n])'
      /\ \A n \in Calls : n # k => call'[n] = call[n]
      /\ IF worker.call = k
         THEN call'[k].pc = "answered" /\ call'[k].job = call[k].job /\ call'[k].answer = a
         ELSE call'[k] = Free
  BY <1>1, AnswerFacts
<1>3. call'[k].pc \in {"free", "answered"}
  BY <1>2 DEF Free
<1>4. call'[k].pc \notin Held \cup Saving \cup Counting \cup {"fetch"}
  BY <1>3 DEF Held, Saving, Counting
<1>5. HolderOK(k)'
  BY <1>4, <1>3 DEF HolderOK
<1>6. /\ call'[k].pc = "answered" => call'[k].job = call[k].job /\ call'[k].answer = a
      /\ worker.call = k => call'[k].pc # "free" /\ call'[k].job = call[k].job
  BY <1>2 DEF Free
<1> QED
  BY <1>2, <1>3, <1>4, <1>5, <1>6

LEMMA WentTyped ==
  ASSUME Inv, NEW k \in Calls, NEW p \in Places, Goto(k, p), call[k].pc # "free", p # "free",
         p # "answered",
         p \in Held \cup {"check", "lock"} => call[k].at \in Instances,
         p \in Taught => call[k].model \in Model,
         p = "write" => call[k].seen \in Versions
  PROVE  /\ call' \in [Calls -> CallType]
         /\ \A n \in Calls : CallOK(call[n])'
         /\ \A n \in Calls : n # k => call'[n] = call[n]
         /\ call'[k].pc = p /\ call'[k].job = call[k].job /\ call'[k].at = call[k].at
         /\ call'[k].model = call[k].model /\ call'[k].seen = call[k].seen
         /\ worker.call = k => call'[k].pc # "free" /\ call'[k].job = call[k].job
<1>1. /\ call \in [Calls -> CallType] /\ call[k] \in CallType
      /\ (\A n \in Calls : CallOK(call[n])) /\ call[k].job \in Jobs
  BY InvFacts
<1>2. PICK c : c = [call[k] EXCEPT !.pc = p]
  OBVIOUS
<1>3. c.pc = p /\ c.job = call[k].job /\ c.at = call[k].at /\ c.model = call[k].model
      /\ c.seen = call[k].seen
  BY <1>1, <1>2 DEF CallType
<1>4. CallOK([call[k] EXCEPT !.pc = p])
  BY <1>1, <1>2, <1>3 DEF CallOK
<1> QED
  BY <1>1, <1>4, GotoFacts

-----------------------------------------------------------------------------
(* What a step of the call that holds the lock has to show *)

LEMMA HolderStep ==
  ASSUME Inv, NEW k \in Calls,
         \A n \in Calls : n # k => call[n].pc \notin Held /\ call'[n] = call[n],
         call'[k].pc \in Held => lock'[call'[k].at] = k,
         HolderOK(k)',
         call'[k].pc \notin Saving => \A i \in Instances : cache'[i] \in {None, Saved'},
         LatestLoads', KeptInv', CountInv'
  PROVE  ServiceInv'
<1>1. \A n \in Calls : n # k => call'[n].pc \notin Held
  OBVIOUS
<1>2. LockInv'
  BY <1>1 DEF LockInv
<1>3. ASSUME NEW n \in Calls
      PROVE  HolderOK(n)'
  <2>1. CASE n = k
    BY <2>1
  <2>2. CASE n # k
    BY <1>1, <2>2 DEF HolderOK, Held, Saving, Counting
  <2> QED
    BY <2>1, <2>2
<1>4. CacheInv'
  BY DEF CacheInv
<1> QED
  BY <1>2, <1>3, <1>4 DEF ServiceInv

\* Reports rest on what was reported, if the call answers "ok" only for a recorded job.
LEMMA KeptStays ==
  ASSUME Inv, NEW k \in Calls, UNCHANGED <<queue, latest, records>>,
         \A n \in Calls : n # k => call'[n] = call[n],
         call'[k].pc = "answered" /\ call'[k].answer = "ok" => Reported(call'[k].job)
  PROVE  KeptInv'
<1> SUFFICES ASSUME NEW j \in Jobs, Size[j] > 0, Reported(j)'
             PROVE  latest # None /\ latest.learned[j] > 0
  BY DEF KeptInv
<1>1. Reported(j)
  BY DEF Reported
<1> QED
  BY <1>1 DEF Inv, ServiceInv, KeptInv

\* Nothing new is saved, and the call does not drop a job it has to record.
LEMMA CountStays ==
  ASSUME Inv, NEW k \in Calls, UNCHANGED latest, \A n \in Calls : n # k => call'[n] = call[n],
         \/ faults' = faults + 1
         \/ /\ faults' = faults
            /\ \A j \in Jobs : records[j] # None => records'[j] # None
            /\ call[k].pc \in Counting => \/ call'[k].pc \in Counting /\ call'[k].job = call[k].job
                                          \/ records'[call[k].job] # None
  PROVE  CountInv'
<1> SUFFICES ASSUME NEW j \in Jobs
             PROVE  Saved'.learned[j] <= IF Accounted(j)' THEN faults' + 1 ELSE faults'
  BY DEF CountInv
<1>1. Saved' = Saved
  BY DEF Saved
<1>2. Saved \in Model /\ faults \in Nat
  BY InvFacts
<1>3. Saved.learned[j] \in Nat
  BY <1>2 DEF Model
<1>4. Saved.learned[j] <= IF Accounted(j) THEN faults + 1 ELSE faults
  BY DEF Inv, ServiceInv, CountInv
<1>5. CASE faults' = faults + 1
  BY <1>1, <1>2, <1>3, <1>4, <1>5
<1>6. CASE faults' # faults + 1
  <2>1. Accounted(j) => Accounted(j)'
    BY <1>6 DEF Accounted
  <2> QED
    BY <1>1, <1>2, <1>3, <1>4, <1>6, <2>1
<1> QED
  BY <1>5, <1>6

-----------------------------------------------------------------------------
(* The actions of the service *)

LEMMA RecordedFacts ==
  ASSUME Inv, NEW k \in Calls, call[k].pc # "free", records[call[k].job] # None
  PROVE  Recorded(records[call[k].job]) \in Answers /\ Reported(call[k].job)
  BY DEF Recorded, Answers, Reported

LEMMA CheckKeeps ==
  ASSUME Inv, NEW k \in Calls, Check(k)
  PROVE  Inv'
<1>0. /\ call[k].pc = "check" /\ UNCHANGED <<queue, worker, serviceVars, faults>>
      /\ IF records[call[k].job] = None THEN Goto(k, "lock")
                                        ELSE Answer(k, Recorded(records[call[k].job]))
  BY DEF Check, At
<1>1. /\ call' \in [Calls -> CallType]
      /\ \A n \in Calls : CallOK(call[n])'
      /\ \A n \in Calls : n # k => call'[n] = call[n]
      /\ call'[k].pc \in {"lock", "free", "answered"}
      /\ call'[k].pc = "answered" => Reported(call'[k].job)
      /\ worker.call = k => call'[k].pc # "free" /\ call'[k].job = call[k].job
  <2>1. CASE records[call[k].job] = None
    <3>1. Goto(k, "lock") /\ "lock" \in Places /\ "lock" \notin Taught /\ call[k].at \in Instances
      BY <1>0, <2>1, InvFacts DEF Places, Taught, CallOK
    <3> QED
      BY <1>0, <3>1, WentTyped
  <2>2. CASE records[call[k].job] # None
    <3>1. Answer(k, Recorded(records[call[k].job]))
      BY <1>0, <2>2
    <3> QED
      BY <1>0, <2>2, <3>1, RecordedFacts, AnsweredTyped
  <2> QED
    BY <2>1, <2>2
<1>2. TypeInv'
  BY <1>0, <1>1, InvFacts, ServiceTyped DEF serviceVars
<1>3. LockInv'
  BY <1>0, <1>1 DEF Inv, ServiceInv, LockInv, Held, serviceVars
<1>4. ASSUME NEW n \in Calls
      PROVE  HolderOK(n)'
  <2>1. CASE n = k
    BY <1>1, <2>1 DEF HolderOK, Held, Saving, Counting
  <2>2. CASE n # k
    <3>1. HolderOK(n)
      BY DEF Inv, ServiceInv
    <3> QED
      BY <1>0, <1>1, <2>2, <3>1 DEF HolderOK, serviceVars, Saved
  <2> QED
    BY <2>1, <2>2
<1>5. CacheInv'
  <2>1. (\A n \in Calls : call'[n].pc \notin Saving) => \A n \in Calls : call[n].pc \notin Saving
    BY <1>0, <1>1 DEF Saving
  <2> QED
    BY <1>0, <2>1 DEF Inv, ServiceInv, CacheInv, Saved, serviceVars
<1>6. LatestLoads'
  BY <1>0 DEF Inv, ServiceInv, LatestLoads, serviceVars
<1>7. KeptInv'
  BY <1>0, <1>1, KeptStays DEF serviceVars
<1>8. CountInv'
  BY <1>0, <1>1, CountStays DEF serviceVars, Counting
<1> QED
  BY <1>2, <1>3, <1>4, <1>5, <1>6, <1>7, <1>8 DEF Inv, ServiceInv

LEMMA AcquireKeeps ==
  ASSUME Inv, SingleInstance, NEW k \in Calls, Acquire(k)
  PROVE  Inv'
<1>0. /\ call[k].pc = "lock" /\ lock[call[k].at] = None
      /\ lock' = [lock EXCEPT ![call[k].at] = k] /\ Goto(k, "recheck")
      /\ UNCHANGED <<queue, worker, cache, latest, artifacts, records, faults>>
  BY DEF Acquire, At
<1>a. call[k].at \in Instances
  BY <1>0, InvFacts DEF CallOK
<1>1. \A n \in Calls : call[n].pc \notin Held
  <2> SUFFICES ASSUME NEW n \in Calls, call[n].pc \in Held
               PROVE  FALSE
    OBVIOUS
  <2>1. call[n].at \in Instances /\ lock[call[n].at] = n
    BY InvFacts DEF Inv, ServiceInv, LockInv
  <2>2. call[n].at = call[k].at
    BY <1>a, <2>1 DEF SingleInstance
  <2> QED
    BY <1>0, <2>1, <2>2, NoneAssumption
<1>2. /\ call' \in [Calls -> CallType]
      /\ \A n \in Calls : CallOK(call[n])'
      /\ \A n \in Calls : n # k => call'[n] = call[n]
      /\ call'[k].pc = "recheck" /\ call'[k].job = call[k].job /\ call'[k].at = call[k].at
      /\ worker.call = k => call'[k].pc # "free" /\ call'[k].job = call[k].job
  <2>1. "recheck" \in Places /\ "recheck" \notin Taught
    BY DEF Places, Taught
  <2> QED
    BY <1>0, <1>a, <2>1, WentTyped
<1>3. lock' \in [Instances -> Calls \cup {None}] /\ lock'[call'[k].at] = k
  BY <1>0, <1>a, <1>2, InvFacts
<1>4. TypeInv'
  BY <1>0, <1>2, <1>3, InvFacts, ServiceTyped
<1>5. HolderOK(k)'
  BY <1>2 DEF HolderOK, Held, Saving, Counting
<1>6. \A i \in Instances : cache'[i] \in {None, Saved'}
  BY <1>0, <1>1 DEF Inv, ServiceInv, CacheInv, Saved, Saving, Held
<1>7. LatestLoads'
  BY <1>0 DEF Inv, ServiceInv, LatestLoads
<1>8. KeptInv'
  BY <1>0, <1>2, KeptStays
<1>9. CountInv'
  BY <1>0, <1>2, CountStays DEF Counting
<1>10. ServiceInv'
  BY <1>1, <1>2, <1>3, <1>5, <1>6, <1>7, <1>8, <1>9, HolderStep
<1> QED
  BY <1>4, <1>10 DEF Inv

\* The call ends; what it leaves in memory is saved, or nothing.
LEMMA CallEnds ==
  ASSUME Inv, SingleInstance, NEW k \in Calls, call[k].pc \in Held, NEW a \in Answers,
         Answer(k, a), UNCHANGED <<queue, worker>>,
         \/ cache' = cache /\ latest' = latest /\ call[k].pc \notin Saving
         \/ cache' = Evicted(call[k].at),
         lock' \in [Instances -> Calls \cup {None}], latest' \in Model \cup {None},
         artifacts' \subseteq Model, records' \in Versions, faults' \in 0..MaxFaults,
         LatestLoads', KeptInv', CountInv'
  PROVE  Inv'
<1>1. /\ call' \in [Calls -> CallType]
      /\ \A n \in Calls : CallOK(call[n])'
      /\ \A n \in Calls : n # k => call'[n] = call[n]
      /\ call'[k].pc \notin Held
      /\ worker.call = k => call'[k].pc # "free" /\ call'[k].job = call[k].job
      /\ HolderOK(k)'
  <2>1. call[k].pc # "free"
    BY DEF Held
  <2> QED
    BY <2>1, AnsweredTyped
<1>2. \A n \in Calls : n # k => call[n].pc \notin Held /\ call'[n] = call[n]
  BY <1>1, OneHolder
<1>3. call[k].at \in Instances
  BY InvFacts
<1>4. \A i \in Instances : cache'[i] \in {None, Saved'}
  <2>1. CASE cache' = cache /\ latest' = latest /\ call[k].pc \notin Saving
    BY <1>2, <2>1 DEF Inv, ServiceInv, CacheInv, Saving, Held, Saved
  <2>2. CASE cache' = Evicted(call[k].at)
    <3>1. \A i \in Instances : i = call[k].at
      BY <1>3 DEF SingleInstance
    <3> QED
      BY <1>3, <2>2, <3>1, InvFacts DEF Evicted
  <2> QED
    BY <2>1, <2>2
<1>5. TypeInv'
  <2>1. cache' \in [Instances -> Model \cup {None}]
    BY <1>3, InvFacts DEF Evicted
  <2> QED
    BY <1>1, <2>1, InvFacts, ServiceTyped
<1>6. ServiceInv'
  BY <1>1, <1>2, <1>4, HolderStep
<1> QED
  BY <1>5, <1>6 DEF Inv

\* The call answers from a record.
LEMMA RecordedEnds ==
  ASSUME Inv, SingleInstance, NEW k \in Calls, call[k].pc \in Held \ Saving,
         records[call[k].job] # None, Answer(k, Recorded(records[call[k].job])), Release(k),
         UNCHANGED <<queue, worker, cache, latest, artifacts, records, faults>>
  PROVE  Inv'
<1>1. call[k].pc # "free" /\ call[k].at \in Instances
  BY InvFacts DEF Held
<1>2. Recorded(records[call[k].job]) \in Answers /\ Reported(call[k].job)
  BY <1>1, RecordedFacts
<1>3. /\ \A n \in Calls : n # k => call'[n] = call[n]
      /\ call'[k].pc = "answered" => call'[k].job = call[k].job
  BY <1>1, <1>2, AnsweredTyped
<1>4. KeptInv'
  BY <1>2, <1>3, KeptStays
<1>5. CountInv'
  BY <1>3, CountStays
<1>6. LatestLoads'
  BY DEF Inv, ServiceInv, LatestLoads
<1>7. lock' \in [Instances -> Calls \cup {None}]
  BY <1>1, InvFacts DEF Release
<1> QED
  BY <1>2, <1>4, <1>5, <1>6, <1>7, InvFacts, CallEnds

LEMMA RecheckKeeps ==
  ASSUME Inv, SingleInstance, NEW k \in Calls, Recheck(k)
  PROVE  Inv'
<1>0. /\ call[k].pc = "recheck" /\ UNCHANGED <<queue, worker, cache, latest, artifacts, records, faults>>
      /\ \/ records[call[k].job] = None /\ Goto(k, "load") /\ UNCHANGED lock
         \/ /\ records[call[k].job] # None
            /\ Answer(k, Recorded(records[call[k].job])) /\ Release(k)
  BY DEF Recheck, At
<1>a. call[k].pc \in Held /\ call[k].pc \notin Saving \cup Counting
  BY <1>0 DEF Held, Saving, Counting
<1>1. CASE records[call[k].job] # None
  BY <1>0, <1>1, <1>a, RecordedEnds
<1>2. CASE records[call[k].job] = None
  <2>1. /\ call' \in [Calls -> CallType]
        /\ \A n \in Calls : CallOK(call[n])'
        /\ \A n \in Calls : n # k => call'[n] = call[n]
        /\ call'[k].pc = "load" /\ call'[k].job = call[k].job /\ call'[k].at = call[k].at
        /\ worker.call = k => call'[k].pc # "free" /\ call'[k].job = call[k].job
    <3>1. "load" \in Places /\ "load" \notin Taught /\ call[k].at \in Instances
      BY <1>a, InvFacts DEF Places, Taught
    <3> QED
      BY <1>0, <1>2, <3>1, WentTyped
  <2>2. \A n \in Calls : n # k => call[n].pc \notin Held /\ call'[n] = call[n]
    BY <1>a, <2>1, OneHolder
  <2>3. lock'[call'[k].at] = k
    BY <1>0, <1>2, <1>a, <2>1 DEF Inv, ServiceInv, LockInv
  <2>4. HolderOK(k)'
    BY <1>0, <1>2, <2>1 DEF HolderOK, Held, Saving, Counting
  <2>5. \A i \in Instances : cache'[i] \in {None, Saved'}
    BY <1>0, <1>a, <2>2 DEF Inv, ServiceInv, CacheInv, Saved, Saving, Held
  <2>6. LatestLoads'
    BY <1>0 DEF Inv, ServiceInv, LatestLoads
  <2>7. KeptInv'
    BY <1>0, <2>1, KeptStays
  <2>8. CountInv'
    BY <1>0, <1>a, <2>1, CountStays
  <2>9. TypeInv'
    BY <1>0, <1>2, <2>1, InvFacts, ServiceTyped
  <2>10. ServiceInv'
    BY <2>1, <2>2, <2>3, <2>4, <2>5, <2>6, <2>7, <2>8, HolderStep
  <2> QED
    BY <2>9, <2>10 DEF Inv
<1> QED
  BY <1>1, <1>2

\* The call learns from the saved model, which it has in memory.
LEMMA LearnKeeps ==
  ASSUME Inv, SingleInstance, NEW k \in Calls, call[k].pc \in {"load", "fetch"},
         NEW m \in Model, m = Saved, Learn(k, m),
         UNCHANGED <<queue, worker, lock, latest, artifacts, records, faults>>
  PROVE  Inv'
<1>a. /\ call[k].pc \in Held /\ call[k].pc \notin Saving \cup Counting
      /\ call[k].job \in Jobs /\ call[k].at \in Instances
  BY InvFacts DEF Held, Saving, Counting
<1>1. PICK taught \in Model :
            /\ taught.version = m.version + Size[call[k].job]
            /\ \A j \in Jobs : taught.learned[j] =
                  IF j = call[k].job /\ Size[j] > 0 THEN m.learned[j] + 1 ELSE m.learned[j]
            /\ Size[call[k].job] = 0 => taught = m
            /\ cache' = [cache EXCEPT ![call[k].at] = taught]
            /\ call' \in [Calls -> CallType]
            /\ \A n \in Calls : CallOK(call[n])'
            /\ \A n \in Calls : n # k => call'[n] = call[n]
            /\ call'[k].pc = IF Size[call[k].job] > 0 THEN "save" ELSE "read"
            /\ call'[k].job = call[k].job /\ call'[k].at = call[k].at /\ call'[k].model = taught
  BY <1>a, InvFacts, LearnFacts
<1>2. \A n \in Calls : n # k => call[n].pc \notin Held /\ call'[n] = call[n]
  BY <1>a, <1>1, OneHolder
<1>3. lock'[call'[k].at] = k
  BY <1>a, <1>1 DEF Inv, ServiceInv, LockInv
<1>4. records[call[k].job] = None
  BY <1>a DEF Inv, ServiceInv, HolderOK
<1>5. Saved' = Saved
  BY DEF Saved
<1>6. cache' \in [Instances -> Model \cup {None}] /\ cache'[call[k].at] = taught
  BY <1>a, <1>1, InvFacts
<1>7. HolderOK(k)'
  <2>1. CASE Size[call[k].job] > 0
    <3>1. call'[k].pc = "save" /\ Size[call[k].job] \in Nat /\ m.version \in Nat
      BY <1>a, <1>1, <2>1, SizeAssumption DEF Model
    <3>2. taught.version > Saved.version
      BY <1>1, <2>1, <3>1
    <3>3. \A j \in Jobs : taught.learned[j] = IF j = call[k].job THEN Saved.learned[j] + 1
                                                                ELSE Saved.learned[j]
      BY <1>1, <2>1
    <3> QED
      BY <1>1, <1>4, <1>5, <1>6, <2>1, <3>1, <3>2, <3>3 DEF HolderOK, Held, Saving, Counting
  <2>2. CASE ~(Size[call[k].job] > 0)
    <3>1. call'[k].pc = "read" /\ taught = m
      BY <1>a, <1>1, <2>2, SizeAssumption
    <3> QED
      BY <1>1, <1>4, <1>5, <2>2, <3>1 DEF HolderOK, Held, Saving, Counting
  <2> QED
    BY <2>1, <2>2
<1>8. call'[k].pc \notin Saving => \A i \in Instances : cache'[i] \in {None, Saved'}
  <2>1. SUFFICES ASSUME call'[k].pc \notin Saving
                 PROVE  \A i \in Instances : cache'[i] = Saved'
    OBVIOUS
  <2>2. taught = Saved'
    BY <1>a, <1>1, <1>5, <2>1, SizeAssumption DEF Saving
  <2>3. \A i \in Instances : i = call[k].at
    BY <1>a DEF SingleInstance
  <2> QED
    BY <1>6, <2>2, <2>3
<1>9. LatestLoads'
  BY DEF Inv, ServiceInv, LatestLoads
<1>10. KeptInv'
  BY <1>1, KeptStays
<1>11. CountInv'
  BY <1>1, <1>a, CountStays
<1>12. TypeInv'
  <2>1. call'[k].pc # "free"
    BY <1>1
  <2> QED
    BY <1>1, <1>6, <2>1, InvFacts, ServiceTyped
<1>13. ServiceInv'
  BY <1>2, <1>1, <1>3, <1>7, <1>8, <1>9, <1>10, <1>11, HolderStep
<1> QED
  BY <1>12, <1>13 DEF Inv

LEMMA LoadKeeps ==
  ASSUME Inv, SingleInstance, NEW k \in Calls, Load(k)
  PROVE  Inv'
<1>0. call[k].pc = "load" /\ UNCHANGED <<queue, worker, lock, latest, artifacts, records, faults>>
  BY DEF Load, At
<1>a. /\ call[k].pc \in Held /\ call[k].pc \notin Saving \cup Counting
      /\ call[k].job \in Jobs /\ call[k].at \in Instances
  BY <1>0, InvFacts DEF Held, Saving, Counting
<1>b. cache[call[k].at] \in {None, Saved}
  BY <1>a, OneHolder DEF Inv, ServiceInv, CacheInv, Saving, Held
<1>1. CASE cache[call[k].at] # None /\ Learn(k, cache[call[k].at])
  BY <1>0, <1>1, <1>b, InvFacts, LearnKeeps
<1>2. CASE NothingSaved /\ Learn(k, NewModel)
  BY <1>0, <1>2, NewModelTyped, LearnKeeps DEF NothingSaved, Saved
<1>3. CASE /\ ~NothingSaved
           /\ call' = [call EXCEPT ![k].pc = "fetch", ![k].model = latest]
           /\ UNCHANGED cache
  <2>1. latest \in Model
    BY <1>3, InvFacts DEF NothingSaved
  <2>2. PICK c : c = [call[k] EXCEPT !.pc = "fetch", !.model = latest]
    OBVIOUS
  <2>3. /\ c \in CallType /\ c.pc = "fetch" /\ c.job = call[k].job /\ c.at = call[k].at
        /\ c.model = latest
    BY <2>1, <2>2, InvFacts DEF CallType, Places
  <2>4. CallOK(c)
    BY <1>a, <2>1, <2>3 DEF CallOK
  <2>5. call' = [call EXCEPT ![k] = c]
    BY <1>3, <2>2
  <2>6. /\ call' \in [Calls -> CallType]
        /\ \A n \in Calls : CallOK(call[n])'
        /\ call'[k] = c
        /\ \A n \in Calls : n # k => call'[n] = call[n]
    BY <2>3, <2>4, <2>5, InvFacts, SetCall
  <2>7. \A n \in Calls : n # k => call[n].pc \notin Held /\ call'[n] = call[n]
    BY <1>a, <2>6, OneHolder
  <2>8. lock'[call'[k].at] = k
    BY <1>0, <1>a, <2>3, <2>6 DEF Inv, ServiceInv, LockInv
  <2>9. HolderOK(k)'
    <3>1. records[call[k].job] = None
      BY <1>0, <1>a DEF Inv, ServiceInv, HolderOK
    <3> QED
      BY <1>0, <1>3, <2>3, <2>6, <3>1 DEF HolderOK, Held, Saving, Counting, NothingSaved
  <2>10. \A i \in Instances : cache'[i] \in {None, Saved'}
    BY <1>0, <1>3, <1>a, <2>7 DEF Inv, ServiceInv, CacheInv, Saved, Saving, Held
  <2>11. LatestLoads'
    BY <1>0 DEF Inv, ServiceInv, LatestLoads
  <2>12. KeptInv'
    BY <1>0, <2>3, <2>6, KeptStays
  <2>13. CountInv'
    BY <1>0, <1>a, <2>6, CountStays
  <2>14. TypeInv'
    BY <1>0, <1>3, <2>3, <2>6, InvFacts, ServiceTyped
  <2>15. ServiceInv'
    BY <2>7, <2>8, <2>9, <2>10, <2>11, <2>12, <2>13, HolderStep
  <2> QED
    BY <2>14, <2>15 DEF Inv
<1> QED
  BY <1>1, <1>2, <1>3 DEF Load

LEMMA FetchKeeps ==
  ASSUME Inv, SingleInstance, NEW k \in Calls, Fetch(k)
  PROVE  Inv'
<1>0. /\ call[k].pc = "fetch" /\ UNCHANGED <<queue, worker, latest, artifacts, records, faults>>
      /\ \/ call[k].model \in artifacts /\ Learn(k, call[k].model) /\ UNCHANGED lock
         \/ call[k].model \notin artifacts
  BY DEF Fetch, At
<1>1. latest # None /\ call[k].model = latest
  BY <1>0 DEF Inv, ServiceInv, HolderOK
<1>2. latest \in artifacts /\ latest \in Model /\ Saved = latest
  BY <1>1, InvFacts DEF Inv, ServiceInv, LatestLoads, Saved
<1> QED
  BY <1>0, <1>1, <1>2, LearnKeeps

LEMMA CheckVersionKeeps ==
  ASSUME Inv, SingleInstance, NEW k \in Calls, CheckVersion(k)
  PROVE  Inv'
<1>0. call[k].pc = "save" /\ UNCHANGED <<queue, worker, latest, artifacts, records, faults>>
  BY DEF CheckVersion, At
<1>a. /\ call[k].pc \in Held /\ call[k].pc \notin Counting
      /\ call[k].job \in Jobs /\ call[k].at \in Instances /\ call[k].model \in Model
  BY <1>0, InvFacts DEF Held, Counting, CallOK, Taught
<1>b. HolderOK(k)
  BY DEF Inv, ServiceInv
<1>1. Newer(call[k].model)
  BY <1>0, <1>b DEF HolderOK, Saving, Newer, Saved
<1>2. Goto(k, "artifact") /\ UNCHANGED <<cache, lock>>
  BY <1>1 DEF CheckVersion
<1>3. /\ call' \in [Calls -> CallType]
      /\ \A n \in Calls : CallOK(call[n])'
      /\ \A n \in Calls : n # k => call'[n] = call[n]
      /\ call'[k].pc = "artifact" /\ call'[k].job = call[k].job /\ call'[k].at = call[k].at
      /\ call'[k].model = call[k].model
      /\ worker.call = k => call'[k].pc # "free" /\ call'[k].job = call[k].job
  <2>1. "artifact" \in Places
    BY DEF Places
  <2> QED
    BY <1>0, <1>2, <1>a, <2>1, WentTyped
<1>4. \A n \in Calls : n # k => call[n].pc \notin Held /\ call'[n] = call[n]
  BY <1>a, <1>3, OneHolder
<1>5. lock'[call'[k].at] = k
  BY <1>2, <1>a, <1>3 DEF Inv, ServiceInv, LockInv
<1>6. HolderOK(k)'
  BY <1>0, <1>2, <1>3, <1>b DEF HolderOK, Held, Saving, Counting, Saved
<1>7. LatestLoads'
  BY <1>0 DEF Inv, ServiceInv, LatestLoads
<1>8. KeptInv'
  BY <1>0, <1>3, KeptStays
<1>9. CountInv'
  BY <1>0, <1>a, <1>3, CountStays
<1>10. TypeInv'
  BY <1>0, <1>2, <1>3, InvFacts, ServiceTyped
<1>11. ServiceInv'
  BY <1>3, <1>4, <1>5, <1>6, <1>7, <1>8, <1>9, HolderStep DEF Saving
<1> QED
  BY <1>10, <1>11 DEF Inv

\* The file of another version, the manifest's among them, is left alone.
LEMMA StoredFacts ==
  ASSUME Inv, NEW k \in Calls, call[k].pc \in Saving, artifacts' \in {artifacts, Stored(call[k].model)},
         latest' = latest
  PROVE  artifacts' \subseteq Model /\ LatestLoads'
<1>1. call[k].model \in Model
  BY InvFacts DEF CallOK, Saving, Taught
<1>2. latest # None => latest \in artifacts /\ call[k].model.version > latest.version
  BY DEF Inv, ServiceInv, HolderOK, LatestLoads, Saved
<1>3. latest # None => latest \in Model /\ latest.version \in Nat /\ call[k].model.version \in Nat
  BY <1>1, InvFacts DEF Model
<1>4. latest # None => latest.version # call[k].model.version
  BY <1>2, <1>3
<1> QED
  BY <1>1, <1>2, <1>4, InvFacts DEF Stored, LatestLoads

LEMMA PutArtifactKeeps ==
  ASSUME Inv, SingleInstance, NEW k \in Calls, PutArtifact(k)
  PROVE  Inv'
<1>0. /\ call[k].pc = "artifact" /\ artifacts' = Stored(call[k].model) /\ Goto(k, "manifest")
      /\ UNCHANGED <<queue, worker, cache, lock, latest, records, faults>>
  BY DEF PutArtifact, At
<1>a. /\ call[k].pc \in Held /\ call[k].pc \in Saving /\ call[k].pc \notin Counting
      /\ call[k].job \in Jobs /\ call[k].at \in Instances /\ call[k].model \in Model
  BY <1>0, InvFacts DEF Held, Saving, Counting, CallOK, Taught
<1>b. HolderOK(k)
  BY DEF Inv, ServiceInv
<1>3. /\ call' \in [Calls -> CallType]
      /\ \A n \in Calls : CallOK(call[n])'
      /\ \A n \in Calls : n # k => call'[n] = call[n]
      /\ call'[k].pc = "manifest" /\ call'[k].job = call[k].job /\ call'[k].at = call[k].at
      /\ call'[k].model = call[k].model
      /\ worker.call = k => call'[k].pc # "free" /\ call'[k].job = call[k].job
  <2>1. "manifest" \in Places
    BY DEF Places
  <2> QED
    BY <1>0, <1>a, <2>1, WentTyped
<1>4. \A n \in Calls : n # k => call[n].pc \notin Held /\ call'[n] = call[n]
  BY <1>a, <1>3, OneHolder
<1>5. lock'[call'[k].at] = k
  BY <1>0, <1>a, <1>3 DEF Inv, ServiceInv, LockInv
<1>6. HolderOK(k)'
  BY <1>0, <1>3, <1>b DEF HolderOK, Held, Saving, Counting, Saved, Stored
<1>7. artifacts' \subseteq Model /\ LatestLoads'
  BY <1>0, <1>a, StoredFacts
<1>8. KeptInv'
  BY <1>0, <1>3, KeptStays
<1>9. CountInv'
  BY <1>0, <1>a, <1>3, CountStays
<1>10. TypeInv'
  BY <1>0, <1>3, <1>7, InvFacts, ServiceTyped
<1>11. ServiceInv'
  BY <1>3, <1>4, <1>5, <1>6, <1>7, <1>8, <1>9, HolderStep DEF Saving
<1> QED
  BY <1>10, <1>11 DEF Inv

\* The manifest is replaced: the saved model has learned the job once more.
LEMMA ManifestFacts ==
  ASSUME Inv, SingleInstance, NEW k \in Calls, call[k].pc = "manifest", latest' = call[k].model
  PROVE  /\ latest' \in Model /\ latest' # None /\ Saved' = latest'
         /\ \A j \in Jobs : /\ Saved.learned[j] \in Nat
                            /\ Saved'.learned[j] = IF j = call[k].job THEN Saved.learned[j] + 1
                                                                      ELSE Saved.learned[j]
                            /\ j = call[k].job => Saved.learned[j] <= faults
                            /\ latest # None /\ latest.learned[j] > 0 => latest'.learned[j] > 0
         /\ Size[call[k].job] > 0 /\ records[call[k].job] = None
         /\ call[k].model \in artifacts
         /\ cache[call[k].at] \in {None, call[k].model}
<1>1. HolderOK(k) /\ call[k].model \in Model /\ Saved \in Model
  BY InvFacts DEF Inv, ServiceInv, CallOK, Taught
<1>2. latest' \in Model /\ latest' # None /\ Saved' = latest'
  BY <1>1, ModelAssumption DEF Saved
<1>3. /\ Size[call[k].job] > 0 /\ records[call[k].job] = None
      /\ call[k].model \in artifacts
      /\ cache[call[k].at] \in {None, call[k].model}
      /\ \A j \in Jobs : call[k].model.learned[j] = IF j = call[k].job THEN Saved.learned[j] + 1
                                                                      ELSE Saved.learned[j]
  BY <1>1 DEF HolderOK, Saving, Held
<1>4. \A j \in Jobs : Saved.learned[j] \in Nat
  BY <1>1 DEF Model
<1>5. ~Accounted(call[k].job)
  <2>1. \A n \in Calls : call[n].pc \notin Counting
    BY OneHolder DEF Held, Counting
  <2> QED
    BY <1>3, <2>1 DEF Accounted
<1>6. call[k].job \in Jobs => Saved.learned[call[k].job] <= faults
  BY <1>5 DEF Inv, ServiceInv, CountInv
<1>7. ASSUME NEW j \in Jobs, latest # None, latest.learned[j] > 0
      PROVE  latest'.learned[j] > 0
  BY <1>3, <1>4, <1>7 DEF Saved
<1> QED
  BY <1>2, <1>3, <1>4, <1>6, <1>7

LEMMA PutManifestKeeps ==
  ASSUME Inv, SingleInstance, NEW k \in Calls, PutManifest(k)
  PROVE  Inv'
<1>0. /\ call[k].pc = "manifest" /\ latest' = call[k].model /\ Goto(k, "read")
      /\ UNCHANGED <<queue, worker, cache, lock, artifacts, records, faults>>
  BY DEF PutManifest, At
<1>a. /\ call[k].pc \in Held /\ call[k].job \in Jobs /\ call[k].at \in Instances
      /\ call[k].model \in Model
  BY <1>0, InvFacts DEF Held, CallOK, Taught
<1>3. /\ call' \in [Calls -> CallType]
      /\ \A n \in Calls : CallOK(call[n])'
      /\ \A n \in Calls : n # k => call'[n] = call[n]
      /\ call'[k].pc = "read" /\ call'[k].job = call[k].job /\ call'[k].at = call[k].at
      /\ call'[k].model = call[k].model
      /\ worker.call = k => call'[k].pc # "free" /\ call'[k].job = call[k].job
  <2>1. "read" \in Places
    BY DEF Places
  <2> QED
    BY <1>0, <1>a, <2>1, WentTyped
<1>4. \A n \in Calls : n # k => call[n].pc \notin Held /\ call'[n] = call[n]
  BY <1>a, <1>3, OneHolder
<1>5. lock'[call'[k].at] = k
  BY <1>0, <1>a, <1>3 DEF Inv, ServiceInv, LockInv
<1>6. HolderOK(k)'
  <2>1. latest' # None /\ latest'.learned[call[k].job] > 0
    BY <1>0, <1>a, ManifestFacts
  <2> QED
    BY <1>0, <1>3, <2>1, ManifestFacts DEF HolderOK, Held, Saving, Counting
<1>7. \A i \in Instances : cache'[i] \in {None, Saved'}
  <2>1. \A i \in Instances : i = call[k].at
    BY <1>a DEF SingleInstance
  <2> QED
    BY <1>0, <2>1, ManifestFacts
<1>8. LatestLoads'
  BY <1>0, ManifestFacts DEF LatestLoads
<1>9. KeptInv'
  <2> SUFFICES ASSUME NEW j \in Jobs, Size[j] > 0, Reported(j)'
               PROVE  latest' # None /\ latest'.learned[j] > 0
    BY DEF KeptInv
  <2>1. Reported(j)
    BY <1>0, <1>3 DEF Reported
  <2> QED
    BY <1>0, <2>1, ManifestFacts DEF Inv, ServiceInv, KeptInv
<1>10. CountInv'
  <2> SUFFICES ASSUME NEW j \in Jobs
               PROVE  Saved'.learned[j] <= IF Accounted(j)' THEN faults' + 1 ELSE faults'
    BY DEF CountInv
  <2>1. Saved.learned[j] <= IF Accounted(j) THEN faults + 1 ELSE faults
    BY DEF Inv, ServiceInv, CountInv
  <2>2. Accounted(j) => Accounted(j)'
    BY <1>0, <1>3 DEF Accounted, Counting
  <2>3. j = call[k].job => Accounted(j)'
    BY <1>3 DEF Accounted, Counting
  <2> QED
    BY <1>0, <2>1, <2>2, <2>3, ManifestFacts, InvFacts
<1>11. TypeInv'
  BY <1>0, <1>3, ManifestFacts, InvFacts, ServiceTyped
<1>12. ServiceInv'
  BY <1>4, <1>5, <1>6, <1>7, <1>8, <1>9, <1>10, HolderStep
<1> QED
  BY <1>11, <1>12 DEF Inv

\* The lock shows it: the record cannot have appeared since the recheck.
LEMMA ReadRecordsKeeps ==
  ASSUME Inv, SingleInstance, NEW k \in Calls, ReadRecords(k)
  PROVE  Inv'
<1>0. call[k].pc = "read" /\ UNCHANGED <<queue, worker, latest, artifacts, records, faults>>
  BY DEF ReadRecords, At
<1>a. /\ call[k].pc \in Held /\ call[k].pc \notin Saving /\ call[k].pc \in Counting
      /\ call[k].job \in Jobs /\ call[k].at \in Instances /\ call[k].model \in Model
  BY <1>0, InvFacts DEF Held, Saving, Counting, CallOK, Taught
<1>b. HolderOK(k)
  BY DEF Inv, ServiceInv
<1>1. records[call[k].job] = None
  BY <1>0, <1>b DEF HolderOK, Held
<1>2. call' = [call EXCEPT ![k].pc = "write", ![k].seen = records] /\ UNCHANGED <<cache, lock>>
  BY <1>1 DEF ReadRecords
<1>3. PICK c : c = [call[k] EXCEPT !.pc = "write", !.seen = records]
  OBVIOUS
<1>4. /\ c \in CallType /\ c.pc = "write" /\ c.job = call[k].job /\ c.at = call[k].at
      /\ c.model = call[k].model /\ c.seen = records
  BY <1>3, InvFacts DEF CallType, Places
<1>5. CallOK(c)
  BY <1>a, <1>4, InvFacts DEF CallOK
<1>6. call' = [call EXCEPT ![k] = c]
  BY <1>2, <1>3
<1>7. /\ call' \in [Calls -> CallType]
      /\ \A n \in Calls : CallOK(call[n])'
      /\ call'[k] = c
      /\ \A n \in Calls : n # k => call'[n] = call[n]
  BY <1>4, <1>5, <1>6, InvFacts, SetCall
<1>8. \A n \in Calls : n # k => call[n].pc \notin Held /\ call'[n] = call[n]
  BY <1>a, <1>7, OneHolder
<1>9. lock'[call'[k].at] = k
  BY <1>2, <1>a, <1>4, <1>7 DEF Inv, ServiceInv, LockInv
<1>10. HolderOK(k)'
  BY <1>0, <1>1, <1>b, <1>4, <1>7 DEF HolderOK, Held, Saving, Counting, Saved
<1>11. \A i \in Instances : cache'[i] \in {None, Saved'}
  BY <1>0, <1>2, <1>a, <1>8 DEF Inv, ServiceInv, CacheInv, Saved, Saving, Held
<1>12. LatestLoads'
  BY <1>0 DEF Inv, ServiceInv, LatestLoads
<1>13. KeptInv'
  BY <1>0, <1>4, <1>7, KeptStays
<1>14. CountInv'
  BY <1>0, <1>4, <1>7, CountStays DEF Counting
<1>15. TypeInv'
  BY <1>0, <1>2, <1>4, <1>7, InvFacts, ServiceTyped
<1>16. ServiceInv'
  BY <1>8, <1>9, <1>10, <1>11, <1>12, <1>13, <1>14, HolderStep
<1> QED
  BY <1>15, <1>16 DEF Inv

\* The file is written back from what was read of it, and nobody wrote it meanwhile.
LEMMA WrittenFacts ==
  ASSUME Inv, NEW k \in Calls, call[k].pc = "write",
         records' = [call[k].seen EXCEPT ![call[k].job] = call[k].model.version]
  PROVE  /\ records' \in Versions /\ records'[call[k].job] # None
         /\ \A j \in Jobs : j # call[k].job => records'[j] = records[j]
         /\ Size[call[k].job] > 0 => latest # None /\ latest.learned[call[k].job] > 0
<1>1. HolderOK(k) /\ call[k].model \in Model /\ call[k].job \in Jobs /\ records \in Versions
  BY InvFacts DEF Inv, ServiceInv, CallOK, Taught
<1>2. call[k].seen = records /\ call[k].model.version \in Nat
  BY <1>1 DEF HolderOK, Model
<1>3. Size[call[k].job] > 0 => latest # None /\ latest.learned[call[k].job] > 0
  BY <1>1 DEF HolderOK, Counting
<1> QED
  BY <1>1, <1>2, <1>3, NoneAssumption DEF Versions

LEMMA WrittenKeeps ==
  ASSUME Inv, SingleInstance, NEW k \in Calls, call[k].pc = "write",
         NEW a \in Answers, Answer(k, a), UNCHANGED <<queue, worker, cache, latest, artifacts>>,
         records' = [call[k].seen EXCEPT ![call[k].job] = call[k].model.version],
         lock' \in [Instances -> Calls \cup {None}], faults' \in 0..MaxFaults,
         faults' = faults \/ faults' = faults + 1
  PROVE  Inv'
<1>a. call[k].pc \in Held /\ call[k].pc \notin Saving
  BY DEF Held, Saving
<1>1. /\ \A n \in Calls : n # k => call'[n] = call[n]
      /\ call'[k].pc = "answered" => call'[k].job = call[k].job
  BY AnsweredTyped
<1>2. KeptInv'
  <2> SUFFICES ASSUME NEW j \in Jobs, Size[j] > 0, Reported(j)'
               PROVE  latest # None /\ latest.learned[j] > 0
    BY DEF KeptInv
  <2>1. CASE j = call[k].job
    BY <2>1, WrittenFacts
  <2>2. CASE j # call[k].job
    <3>1. Reported(j)
      BY <1>1, <2>2, WrittenFacts DEF Reported
    <3> QED
      BY <3>1 DEF Inv, ServiceInv, KeptInv
  <2> QED
    BY <2>1, <2>2
<1>3. CountInv'
  BY <1>1, WrittenFacts, CountStays
<1>4. LatestLoads'
  BY DEF Inv, ServiceInv, LatestLoads
<1> QED
  BY <1>a, <1>2, <1>3, <1>4, WrittenFacts, InvFacts, CallEnds

LEMMA WriteRecordsKeeps ==
  ASSUME Inv, SingleInstance, NEW k \in Calls, WriteRecords(k)
  PROVE  Inv'
<1>0. /\ call[k].pc = "write" /\ Answer(k, "ok") /\ Release(k) /\ "ok" \in Answers
      /\ records' = [call[k].seen EXCEPT ![call[k].job] = call[k].model.version]
      /\ UNCHANGED <<queue, worker, cache, latest, artifacts, faults>>
  BY DEF WriteRecords, At, Answers
<1>1. lock' \in [Instances -> Calls \cup {None}]
  BY <1>0, InvFacts DEF Release, Held
<1> QED
  BY <1>0, <1>1, InvFacts, WrittenKeeps

-----------------------------------------------------------------------------
(* Faults *)

LEMMA StoreFailsKeeps ==
  ASSUME Inv, SingleInstance, NEW k \in Calls, StoreFails(k)
  PROVE  Inv'
<1>0. /\ faults' = faults + 1 /\ faults' \in 0..MaxFaults
      /\ call[k].pc \notin {"free", "lock", "answered"}
      /\ Answer(k, "error") /\ "error" \in Answers /\ UNCHANGED <<queue, worker>>
      /\ lock' = [i \in Instances |-> IF lock[i] = k THEN None ELSE lock[i]]
  BY InvFacts, RetryAssumption DEF StoreFails, Fault, Answers
<1>1. lock' \in [Instances -> Calls \cup {None}]
  BY <1>0, InvFacts
<1>2. artifacts' \in {artifacts} \cup (IF At(k, "artifact") THEN {Stored(call[k].model)} ELSE {})
  BY DEF StoreFails
<1>3. latest' \in {latest} \cup (IF At(k, "manifest") THEN {call[k].model} ELSE {})
  BY DEF StoreFails
<1>4. records' \in {records} \cup
          (IF At(k, "write")
           THEN {[call[k].seen EXCEPT ![call[k].job] = call[k].model.version]} ELSE {})
  BY DEF StoreFails
<1>5. cache' = IF call[k].pc \in {"save", "artifact", "manifest"} THEN Evicted(call[k].at) ELSE cache
  BY DEF StoreFails
<1>6. /\ call' \in [Calls -> CallType]
      /\ \A n \in Calls : CallOK(call[n])'
      /\ \A n \in Calls : n # k => call'[n] = call[n]
      /\ call'[k].pc \in {"free", "answered"}
      /\ call'[k].pc = "answered" => call'[k].job = call[k].job /\ call'[k].answer = "error"
      /\ worker.call = k => call'[k].pc # "free" /\ call'[k].job = call[k].job
      /\ HolderOK(k)'
  BY <1>0, AnsweredTyped
<1>7. CASE call[k].pc = "check"
  <2>1. UNCHANGED <<cache, latest, artifacts, records>>
    BY <1>2, <1>3, <1>4, <1>5, <1>7 DEF At
  <2>2. TypeInv'
    BY <1>0, <1>1, <1>6, <2>1, InvFacts, ServiceTyped
  <2>3. LockInv'
    <3> SUFFICES ASSUME NEW n \in Calls, call'[n].pc \in Held
                 PROVE  lock'[call'[n].at] = n
      BY DEF LockInv
    <3>1. n # k
      BY <1>6 DEF Held
    <3>2. call'[n] = call[n] /\ lock[call[n].at] = n /\ call[n].at \in Instances
      BY <1>6, <3>1, InvFacts DEF Inv, ServiceInv, LockInv
    <3> QED
      BY <1>0, <3>1, <3>2
  <2>4. ASSUME NEW n \in Calls
        PROVE  HolderOK(n)'
    <3>1. CASE n = k
      BY <1>6, <3>1
    <3>2. CASE n # k
      <4>1. HolderOK(n)
        BY DEF Inv, ServiceInv
      <4> QED
        BY <1>6, <2>1, <3>2, <4>1 DEF HolderOK, Saved
    <3> QED
      BY <3>1, <3>2
  <2>5. CacheInv'
    <3>1. (\A n \in Calls : call'[n].pc \notin Saving) => \A n \in Calls : call[n].pc \notin Saving
      BY <1>6, <1>7 DEF Saving
    <3> QED
      BY <2>1, <3>1 DEF Inv, ServiceInv, CacheInv, Saved
  <2>6. LatestLoads'
    BY <2>1 DEF Inv, ServiceInv, LatestLoads
  <2>7. KeptInv'
    BY <1>0, <1>6, <2>1, KeptStays
  <2>8. CountInv'
    BY <1>0, <1>6, <2>1, CountStays
  <2> QED
    BY <2>2, <2>3, <2>4, <2>5, <2>6, <2>7, <2>8 DEF Inv, ServiceInv
<1>8. CASE call[k].pc # "check"
  <2>a. call[k].pc \in Held
    BY <1>0, <1>8, InvFacts DEF CallType, Places, Held
  <2>1. CASE call[k].pc = "write" /\ records' # records
    <3>1. UNCHANGED <<cache, latest, artifacts>>
      BY <1>2, <1>3, <1>5, <2>1 DEF At
    <3>2. records' = [call[k].seen EXCEPT ![call[k].job] = call[k].model.version]
      BY <1>4, <2>1 DEF At
    <3> QED
      BY <1>0, <1>1, <2>1, <3>1, <3>2, WrittenKeeps
  <2>2. CASE call[k].pc = "manifest" /\ latest' # latest
    <3>1. latest' = call[k].model /\ UNCHANGED <<artifacts, records>>
      BY <1>2, <1>3, <1>4, <2>2 DEF At
    <3>2. cache' = Evicted(call[k].at)
      BY <1>5, <2>2
    <3>3. LatestLoads' /\ latest' \in Model
      BY <2>2, <3>1, ManifestFacts DEF LatestLoads
    <3>4. KeptInv'
      <4> SUFFICES ASSUME NEW j \in Jobs, Size[j] > 0, Reported(j)'
                   PROVE  latest' # None /\ latest'.learned[j] > 0
        BY DEF KeptInv
      <4>1. Reported(j)
        BY <1>0, <1>6, <3>1 DEF Reported
      <4> QED
        BY <2>2, <3>1, <4>1, ManifestFacts DEF Inv, ServiceInv, KeptInv
    <3>5. CountInv'
      <4> SUFFICES ASSUME NEW j \in Jobs
                   PROVE  Saved'.learned[j] <= IF Accounted(j)' THEN faults' + 1 ELSE faults'
        BY DEF CountInv
      <4>1. Saved.learned[j] <= IF Accounted(j) THEN faults + 1 ELSE faults
        BY DEF Inv, ServiceInv, CountInv
      <4>2. Accounted(j) /\ j # call[k].job => Accounted(j)'
        BY <1>6, <2>2, <3>1 DEF Accounted, Counting
      <4> QED
        BY <1>0, <2>2, <3>1, <4>1, <4>2, ManifestFacts, InvFacts
    <3> QED
      BY <1>0, <1>1, <2>a, <3>1, <3>2, <3>3, <3>4, <3>5, InvFacts, CallEnds
  <2>3. CASE UNCHANGED <<latest, records>>
    <3>1. artifacts' \subseteq Model /\ LatestLoads'
      <4>1. CASE artifacts' = artifacts
        BY <2>3, <4>1, InvFacts DEF Inv, ServiceInv, LatestLoads
      <4>2. CASE artifacts' # artifacts
        <5>1. call[k].pc \in Saving /\ artifacts' = Stored(call[k].model)
          BY <1>2, <4>2 DEF At, Saving
        <5> QED
          BY <2>3, <5>1, StoredFacts
      <4> QED
        BY <4>1, <4>2
    <3>2. KeptInv'
      BY <1>0, <1>6, <2>3, KeptStays
    <3>3. CountInv'
      BY <1>0, <1>6, <2>3, CountStays
    <3>4. \/ cache' = cache /\ latest' = latest /\ call[k].pc \notin Saving
          \/ cache' = Evicted(call[k].at)
      BY <1>5, <2>3 DEF Saving
    <3> QED
      BY <1>0, <1>1, <2>3, <2>a, <3>1, <3>2, <3>3, <3>4, InvFacts, CallEnds
  <2> QED
    BY <1>3, <1>4, <2>1, <2>2, <2>3 DEF At
<1> QED
  BY <1>7, <1>8

\* The process takes its calls, its memory and its lock with it.
LEMMA RestartKeeps ==
  ASSUME Inv, SingleInstance, NEW i \in Instances, Restart(i)
  PROVE  Inv'
<1>0. /\ faults' = faults + 1 /\ cache' = Evicted(i) /\ lock' = [lock EXCEPT ![i] = None]
      /\ UNCHANGED <<queue, worker, latest, artifacts, records>>
      /\ call' = [k \in Calls |->
                    IF call[k].at # i THEN call[k]
                    ELSE IF worker.call = k
                         THEN [Free EXCEPT !.pc = "answered", !.job = call[k].job,
                                           !.answer = "error"]
                         ELSE Free]
  BY DEF Restart, Fault
<1>a. faults' = faults + 1 /\ UNCHANGED <<queue, worker, latest, artifacts, records>>
  BY <1>0
<1>1. /\ TypeInv /\ ServiceInv
      /\ call \in [Calls -> CallType] /\ (\A n \in Calls : CallOK(call[n])) /\ WorkerInv
      /\ cache \in [Instances -> Model \cup {None}] /\ lock \in [Instances -> Calls \cup {None}]
      /\ latest \in Model \cup {None} /\ artifacts \subseteq Model /\ records \in Versions
      /\ faults \in Nat
  BY TypeOKSplit, RetryAssumption DEF Inv, TypeInv
<1>2. faults' \in 0..MaxFaults
  <2>1. faults < MaxFaults
    BY DEF Restart, Fault
  <2> QED
    BY <1>a, <1>1, <2>1, RetryAssumption
<1>3. ASSUME NEW n \in Calls
      PROVE  /\ call'[n] \in CallType /\ CallOK(call'[n])
             /\ call'[n].pc \notin Held
             /\ call'[n] = call[n] \/ call'[n].pc = "free" \/ call'[n].answer # "ok"
             /\ worker.call = n => call'[n].pc # "free" /\ call'[n].job = call[n].job
  <2>1. CASE call[n].at # i
    <3>1. call'[n] = call[n] /\ call[n].pc \notin Held
      BY <1>0, <1>1, <2>1 DEF CallOK, SingleInstance
    <3> QED
      BY <1>1, <3>1, NoneAssumption DEF WorkerInv
  <2>2. CASE call[n].at = i /\ worker.call = n
    <3>1. call[n].job \in Jobs
      BY <1>1, <2>2, NoneAssumption DEF WorkerInv, CallOK
    <3>2. PICK c : c = [Free EXCEPT !.pc = "answered", !.job = call[n].job, !.answer = "error"]
      OBVIOUS
    <3>3. /\ c \in CallType /\ CallOK(c)
          /\ c.pc = "answered" /\ c.job = call[n].job /\ c.answer = "error"
      BY <3>1, <3>2 DEF Free, CallType, CallOK, Held, Taught, Places, Answers
    <3>4. call'[n] = c
      BY <1>0, <2>2, <3>2
    <3> QED
      BY <3>3, <3>4 DEF Held
  <2>3. CASE call[n].at = i /\ worker.call # n
    <3>1. call'[n] = Free
      BY <1>0, <2>3
    <3>2. Free.pc = "free"
      BY DEF Free
    <3> QED
      BY <2>3, <3>1, <3>2, FreeTyped DEF Held
  <2> QED
    BY <2>1, <2>2, <2>3
<1>4. TypeInv'
  <2>1. call' \in [Calls -> CallType] /\ \A n \in Calls : CallOK(call[n])'
    <3>1. \A n \in Calls : call'[n] \in CallType /\ CallOK(call'[n])
      BY <1>3
    <3>2. DOMAIN call' = Calls /\ call' = [n \in Calls |-> call'[n]]
      BY <1>0
    <3> QED
      BY <3>1, <3>2 DEF CallOK
  <2>2. cache' \in [Instances -> Model \cup {None}] /\ lock' \in [Instances -> Calls \cup {None}]
    BY <1>0, <1>1 DEF Evicted
  <2>3. TypeOK'
    BY <1>0, <1>1, <1>2, <2>1, <2>2, TypeOKSplit DEF TypeInv, TypeOK, Job, CallType
  <2>4. WorkerInv'
    <3>1. worker \in [job : Jobs \cup {None}, tries : 0..Tries, call : Calls \cup {None}]
      BY <1>1, TypeOKSplit DEF TypeInv
    <3>2. worker.call # None => /\ worker.job # None
                                /\ call'[worker.call].pc # "free"
                                /\ call'[worker.call].job = worker.job
      BY <1>1, <1>3, <3>1 DEF WorkerInv
    <3> QED
      BY <1>0, <1>1, <3>2 DEF WorkerInv
  <2> QED
    BY <2>1, <2>3, <2>4 DEF TypeInv
<1>5. LockInv' /\ \A n \in Calls : HolderOK(n)'
  BY <1>3 DEF LockInv, HolderOK, Held, Saving, Counting
<1>6. CacheInv'
  BY <1>0, <1>1 DEF CacheInv, Evicted, SingleInstance
<1>7. LatestLoads'
  BY <1>0, <1>1 DEF ServiceInv, LatestLoads
<1>8. KeptInv'
  <2>1. \A j \in Jobs : Reported(j)' => Reported(j)
    BY <1>a, <1>3 DEF Reported
  <2> QED
    BY <1>a, <1>1, <2>1 DEF ServiceInv, KeptInv
<1>9. CountInv'
  <2> SUFFICES ASSUME NEW j \in Jobs
               PROVE  Saved'.learned[j] <= IF Accounted(j)' THEN faults' + 1 ELSE faults'
    BY DEF CountInv
  <2>1. Saved' = Saved
    BY <1>0 DEF Saved
  <2>2. Saved.learned[j] <= IF Accounted(j) THEN faults + 1 ELSE faults
    BY <1>1 DEF ServiceInv, CountInv
  <2>3. Saved.learned[j] \in Nat
    BY <1>1, NewModelTyped DEF Saved, Model
  <2> QED
    BY <1>a, <1>1, <2>1, <2>2, <2>3
<1> QED
  BY <1>4, <1>5, <1>6, <1>7, <1>8, <1>9 DEF Inv, ServiceInv

\* The cache is emptied, or filled under the lock with what is saved.
LEMMA CacheKeeps ==
  ASSUME Inv, SingleInstance, NEW i \in Instances, Evict(i) \/ Predict(i)
  PROVE  Inv'
<1>1. /\ TypeInv /\ ServiceInv /\ WorkerInv
      /\ call \in [Calls -> CallType] /\ \A n \in Calls : CallOK(call[n])
      /\ cache \in [Instances -> Model \cup {None}]
      /\ latest \in Model \cup {None}
  BY TypeOKSplit DEF Inv, TypeInv
<1>2. UNCHANGED <<queue, worker, call, lock, latest, artifacts, records, faults>>
  BY DEF Evict, Predict
<1>3. Saved \in Model /\ Saved' = Saved
  BY <1>1, <1>2, NewModelTyped DEF Saved
<1>4. cache'[i] \in {None, Saved} /\ cache' \in [Instances -> Model \cup {None}]
  BY <1>1, <1>3 DEF Evict, Evicted, Predict, Saved
<1>5. Predict(i) => \A n \in Calls : call[n].pc \notin Held
  <2> SUFFICES ASSUME Predict(i), NEW n \in Calls, call[n].pc \in Held
               PROVE  FALSE
    OBVIOUS
  <2>1. call[n].at = i /\ lock[call[n].at] = n
    BY <1>1 DEF CallOK, SingleInstance, ServiceInv, LockInv
  <2> QED
    BY <2>1, NoneAssumption DEF Predict
<1>6. TypeInv'
  <2>1. TypeOK'
    BY <1>1, <1>2, <1>4 DEF TypeInv, TypeOK
  <2>2. WorkerInv' /\ \A n \in Calls : CallOK(call[n])'
    BY <1>1, <1>2 DEF WorkerInv, CallOK
  <2> QED
    BY <2>1, <2>2 DEF TypeInv
<1>7. ASSUME NEW n \in Calls
      PROVE  HolderOK(n)'
  <2>1. HolderOK(n)
    BY <1>1 DEF ServiceInv
  <2>2. call[n].pc \in Saving => cache'[call[n].at] \in {None, call[n].model}
    <3> SUFFICES ASSUME call[n].pc \in Saving
                 PROVE  cache'[call[n].at] \in {None, call[n].model}
      OBVIOUS
    <3>1. Evict(i) /\ call[n].at \in Instances
      BY <1>1, <1>5 DEF Saving, Held, CallOK
    <3>2. cache' = [cache EXCEPT ![i] = None]
      BY <3>1 DEF Evict, Evicted
    <3> QED
      BY <1>1, <2>1, <3>1, <3>2 DEF HolderOK
  <2> QED
    BY <1>2, <1>3, <2>1, <2>2 DEF HolderOK
<1>8. CacheInv'
  <2>1. \A n \in Instances : n = i
    BY DEF SingleInstance
  <2> QED
    BY <1>3, <1>4, <2>1 DEF CacheInv
<1>9. LockInv' /\ LatestLoads' /\ KeptInv' /\ CountInv'
  BY <1>1, <1>2, <1>3 DEF ServiceInv, LockInv, LatestLoads, KeptInv, Reported, CountInv, Accounted
<1> QED
  BY <1>6, <1>7, <1>8, <1>9 DEF Inv, ServiceInv

\* A job the queue completes has been answered "ok", and so is learned.
LEMMA QueueKeeps ==
  ASSUME Inv, WorkerStep \/ WorkerStops \/ \E j \in Jobs : Enqueue(j)
  PROVE  Inv'
<1>1. TypeInv' /\ QueueMoves
  BY QueueTyped DEF Inv
<1>2. /\ UNCHANGED <<cache, lock, latest, artifacts, records, faults>>
      /\ \A k \in Calls : \/ call'[k] = call[k]
                          \/ call[k].pc \in {"free", "answered"} /\ call'[k].pc \in {"free", "check"}
      /\ \A j \in Jobs : queue'[j].status = "completed" => Reported(j)
  BY <1>1 DEF QueueMoves, Reported
<1>3. ServiceInv /\ Saved' = Saved
  BY <1>2 DEF Inv, Saved
<1>4. LockInv'
  BY <1>2, <1>3 DEF ServiceInv, LockInv, Held
<1>5. ASSUME NEW n \in Calls
      PROVE  HolderOK(n)'
  <2>1. CASE call'[n] = call[n]
    <3>1. HolderOK(n)
      BY <1>3 DEF ServiceInv
    <3> QED
      BY <1>2, <1>3, <2>1, <3>1 DEF HolderOK
  <2>2. CASE call'[n].pc \in {"free", "check"}
    BY <2>2 DEF HolderOK, Held, Saving, Counting
  <2> QED
    BY <1>2, <2>1, <2>2
<1>6. CacheInv'
  <2>1. (\A n \in Calls : call'[n].pc \notin Saving) => \A n \in Calls : call[n].pc \notin Saving
    BY <1>2 DEF Saving
  <2> QED
    BY <1>2, <1>3, <2>1 DEF ServiceInv, CacheInv
<1>7. KeptInv'
  <2>1. \A j \in Jobs : Reported(j)' => Reported(j)
    BY <1>2 DEF Reported
  <2> QED
    BY <1>2, <1>3, <2>1 DEF ServiceInv, KeptInv
<1>8. CountInv'
  <2>1. \A j \in Jobs : Accounted(j)' <=> Accounted(j)
    BY <1>2 DEF Accounted, Counting
  <2> QED
    BY <1>2, <1>3, <2>1 DEF ServiceInv, CountInv
<1>9. LatestLoads'
  BY <1>2, <1>3 DEF ServiceInv, LatestLoads
<1> QED
  BY <1>1, <1>4, <1>5, <1>6, <1>7, <1>8, <1>9 DEF Inv, ServiceInv

-----------------------------------------------------------------------------
(* The theorems for one process *)

LEMMA InvInit == Init => Inv
<1> SUFFICES ASSUME Init
             PROVE  Inv
  OBVIOUS
<1>1. TypeInv
  BY MlInitTyped
<1>2. \A k \in Calls : call[k].pc = "free"
  BY DEF Init, Free
<1>3. LockInv /\ (\A k \in Calls : HolderOK(k)) /\ CacheInv
  BY <1>2 DEF Init, LockInv, HolderOK, CacheInv, Held, Saving, Counting
<1>4. LatestLoads /\ KeptInv
  BY <1>2 DEF Init, LatestLoads, KeptInv, Reported
<1>5. CountInv
  BY <1>2 DEF Init, CountInv, Accounted, Saved, NewModel, Counting
<1> QED
  BY <1>1, <1>3, <1>4, <1>5 DEF Inv, ServiceInv

LEMMA InvNext ==
  ASSUME Inv, SingleInstance, [Next]_vars
  PROVE  Inv'
<1>1. CASE WorkerStep \/ WorkerStops \/ \E j \in Jobs : Enqueue(j)
  BY <1>1, QueueKeeps
<1>2. ASSUME NEW k \in Calls, CallStep(k)
      PROVE  Inv'
  BY <1>2, CheckKeeps, AcquireKeeps, RecheckKeeps, LoadKeeps, FetchKeeps, CheckVersionKeeps,
     PutArtifactKeeps, PutManifestKeeps, ReadRecordsKeeps, WriteRecordsKeeps DEF CallStep
<1>3. ASSUME NEW k \in Calls, StoreFails(k)
      PROVE  Inv'
  BY <1>3, StoreFailsKeeps
<1>4. ASSUME NEW i \in Instances, Restart(i) \/ Evict(i) \/ Predict(i)
      PROVE  Inv'
  BY <1>4, RestartKeeps, CacheKeeps
<1>5. CASE UNCHANGED vars
  BY <1>5 DEF vars, serviceVars, Inv, TypeInv, TypeOK, WorkerInv, CallOK, ServiceInv, LockInv,
     HolderOK, CacheInv, LatestLoads, KeptInv, CountInv, Reported, Accounted, Saved
<1> QED
  BY <1>1, <1>2, <1>3, <1>4, <1>5 DEF Next

LEMMA InvAlways ==
  ASSUME SingleInstance
  PROVE  Spec => []Inv
<1>1. Inv /\ [Next]_vars => Inv'
  BY InvNext
<1> QED
  BY <1>1, InvInit, PTL DEF Spec

\* With one process, what is served is what is saved, and what is saved can be loaded,
\* whatever crashes, restarts and store failures there are
\* (model_service.py:377-426, r2_store.py:178-222).
THEOREM StoreStaysSafe ==
  ASSUME SingleInstance
  PROVE  Spec => []StoreSafe
<1>1. Inv => StoreSafe
  <2> SUFFICES ASSUME Inv
               PROVE  ServedModelIsSaved
    BY DEF Inv, TypeInv, ServiceInv, StoreSafe
  <2> SUFFICES ASSUME NEW i \in Instances, lock[i] = None, cache[i] # None
               PROVE  cache[i] = Saved
    BY DEF ServedModelIsSaved, Saved
  <2>1. ASSUME NEW k \in Calls
        PROVE  call[k].pc \notin Saving
    <3>1. call[k].pc \in Held => lock[i] = k
      BY InvFacts DEF SingleInstance, Inv, ServiceInv, LockInv
    <3> QED
      BY <3>1, NoneAssumption DEF Saving, Held
  <2> QED
    BY <2>1 DEF Inv, ServiceInv, CacheInv
<1> QED
  BY <1>1, InvAlways, PTL

\* With one process, a job that the queue shows completed, or that the idempotency file
\* holds, has been learned by the saved model (model_service.py:369-440).
THEOREM FeedbackStaysKept ==
  ASSUME SingleInstance
  PROVE  Spec => []FeedbackKept
<1>1. Inv => FeedbackKept
  BY DEF Inv, ServiceInv, KeptInv, Reported, FeedbackKept
<1> QED
  BY <1>1, InvAlways, PTL

\* With one process, a job is learned twice only after as many crashes or store failures
\* (model_service.py:369-440, ml-client.service.ts:291-323).
THEOREM RepeatsCostFaults ==
  ASSUME SingleInstance
  PROVE  Spec => []RepeatsNeedFaults
<1>1. Inv => RepeatsNeedFaults
  <2> SUFFICES ASSUME Inv, latest # None, NEW j \in Jobs
               PROVE  latest.learned[j] <= 1 + faults
    BY DEF RepeatsNeedFaults
  <2>1. latest \in Model /\ faults \in Nat
    BY TypeOKSplit, RetryAssumption DEF Inv, TypeInv
  <2>2. latest.learned[j] <= IF Accounted(j) THEN faults + 1 ELSE faults
    BY DEF Inv, ServiceInv, CountInv, Saved
  <2>3. latest.learned[j] \in Nat
    BY <2>1 DEF Model
  <2> QED
    BY <2>1, <2>2, <2>3
<1> QED
  BY <1>1, InvAlways, PTL

\* With one process, no call writes the idempotency file back from an older reading
\* (r2_store.py:310-353).
THEOREM RecordsStayKept ==
  ASSUME SingleInstance
  PROVE  Spec => RecordsKept
<1>1. Inv /\ [Next]_vars => [\A j \in Jobs : records[j] # None => records'[j] # None]_records
  <2> SUFFICES ASSUME Inv, Next, records' # records
               PROVE  \A j \in Jobs : records[j] # None => records'[j] # None
    BY DEF vars, serviceVars
  <2>1. PICK k \in Calls : WriteRecords(k) \/ StoreFails(k)
    BY DEF Next, Enqueue, WorkerStep, Take, Send, Hear, Timeout, WorkerStops, CallStep, Check,
       Acquire, Recheck, Load, Fetch, CheckVersion, PutArtifact, PutManifest, ReadRecords,
       Restart, Evict, Predict, serviceVars
  <2>2. call[k].pc = "write" /\ records' = [call[k].seen EXCEPT ![call[k].job] = call[k].model.version]
    BY <2>1 DEF WriteRecords, StoreFails, At
  <2> QED
    BY <2>2, WrittenFacts
<1> QED
  BY <1>1, InvAlways, PTL DEF Spec, RecordsKept

-----------------------------------------------------------------------------
(* Any number of processes *)

\* The places a call passes at most before it ends, this one included.
ToGo(place) ==
    CASE place = "check" -> 10
      [] place = "lock" -> 9
      [] place = "recheck" -> 8
      [] place = "load" -> 7
      [] place = "fetch" -> 6
      [] place = "save" -> 5
      [] place = "artifact" -> 4
      [] place = "manifest" -> 3
      [] place = "read" -> 2
      [] place = "write" -> 1
      [] OTHER -> 0

Ended == {"free", "answered"}

\* A lock is held by a call that is past it and runs in that process, an answer is kept for
\* the worker, and a job is active because the worker has it: nothing waits for what nobody
\* is to do.
NothingIsStranded ==
    /\ \A i \in Instances, k \in Calls : lock[i] = k <=> call[k].pc \in Held /\ call[k].at = i
    /\ \A k \in Calls : call[k].pc = "answered" => worker.call = k
    /\ \A j \in Jobs : queue[j].status = "active" <=> worker.job = j
    /\ worker.call # None => /\ call[worker.call].pc # "free"
                             /\ call[worker.call].job = worker.job

Sound == TypeInv /\ NothingIsStranded

\* A call stays where it is, goes on to a later place, or ends.
MovesOn ==
    \A k \in Calls : call[k].pc \notin Ended =>
        call'[k] = call[k] \/ ToGo(call'[k].pc) < ToGo(call[k].pc)

CallsMoveOn == [][MovesOn]_vars

\* A job that runs is given back to the queue for one of its attempts, or for its one
\* stall; a job that has ended stays so.
RunsOut ==
    \A j \in Jobs : LET now == queue[j]
                        then == queue'[j] IN
        /\ now.made <= then.made /\ (now.stalled => then.stalled)
        /\ now.status = "active" /\ then.status = "waiting" =>
              now.made < then.made \/ (~now.stalled /\ then.stalled)
        /\ now.status \in {"completed", "failed"} => then = now

JobsRunOut == [][RunsOut]_vars

LEMMA SoundFacts ==
  ASSUME Sound, NEW k \in Calls
  PROVE  /\ TypeInv /\ WorkerInv
         /\ call \in [Calls -> CallType] /\ call[k] \in CallType
         /\ \A n \in Calls : CallOK(call[n])
         /\ call[k].pc # "free" => call[k].job \in Jobs
         /\ call[k].pc \in Held \cup {"check", "lock"} => call[k].at \in Instances
         /\ worker.call = k => call[k].pc # "free"
         /\ queue \in [Jobs -> Job]
         /\ worker \in [job : Jobs \cup {None}, tries : 0..Tries, call : Calls \cup {None}]
         /\ cache \in [Instances -> Model \cup {None}]
         /\ lock \in [Instances -> Calls \cup {None}]
         /\ latest \in Model \cup {None} /\ artifacts \subseteq Model
         /\ records \in Versions /\ faults \in 0..MaxFaults
<1>1. /\ TypeInv /\ WorkerInv
      /\ call \in [Calls -> CallType] /\ call[k] \in CallType
      /\ \A n \in Calls : CallOK(call[n])
      /\ queue \in [Jobs -> Job]
      /\ worker \in [job : Jobs \cup {None}, tries : 0..Tries, call : Calls \cup {None}]
      /\ cache \in [Instances -> Model \cup {None}]
      /\ lock \in [Instances -> Calls \cup {None}]
      /\ latest \in Model \cup {None} /\ artifacts \subseteq Model
      /\ records \in Versions /\ faults \in 0..MaxFaults
  BY TypeOKSplit DEF Sound, TypeInv
<1>2. worker.call = k => call[k].pc # "free"
  BY <1>1, NoneAssumption DEF WorkerInv
<1>3. call[k].pc # "free" => call[k].job \in Jobs
  BY <1>1 DEF CallOK
<1>4. call[k].pc \in Held \cup {"check", "lock"} => call[k].at \in Instances
  BY <1>1 DEF CallOK
<1> QED
  BY <1>1, <1>2, <1>3, <1>4

LEMMA QueueStays ==
  ASSUME Sound, UNCHANGED queue
  PROVE  RunsOut
<1>1. \A j \in Jobs : queue[j].made \in 0..Attempts
  BY TypeOKSplit DEF Sound, TypeInv, Job
<1> QED
  BY <1>1, RetryAssumption DEF RunsOut

\* What one call does, as far as the locks and the worker are concerned.
LEMMA CallMoves ==
  ASSUME Sound, NEW k \in Calls, TypeInv', UNCHANGED <<queue, worker>>,
         \A n \in Calls : n # k => call'[n] = call[n],
         call'[k].pc # "answered", call'[k].at = call[k].at,
         ToGo(call'[k].pc) < ToGo(call[k].pc),
         worker.call = k => call'[k].pc # "free" /\ call'[k].job = call[k].job,
         \/ lock' = lock /\ (call'[k].pc \in Held <=> call[k].pc \in Held)
         \/ /\ call[k].pc \notin Held /\ call'[k].pc \in Held
            /\ lock[call[k].at] = None /\ call[k].at \in Instances
            /\ lock' = [lock EXCEPT ![call[k].at] = k]
  PROVE  Sound' /\ MovesOn /\ RunsOut
<1>1. MovesOn
  BY DEF MovesOn
<1>2. ASSUME NEW i \in Instances, NEW n \in Calls
      PROVE  lock'[i] = n <=> call'[n].pc \in Held /\ call'[n].at = i
  <2>0. lock[i] = n <=> call[n].pc \in Held /\ call[n].at = i
    BY DEF Sound, NothingIsStranded
  <2>1. CASE lock' = lock /\ (call'[k].pc \in Held <=> call[k].pc \in Held)
    BY <2>0, <2>1
  <2>2. CASE /\ call[k].pc \notin Held /\ call'[k].pc \in Held
             /\ lock[call[k].at] = None /\ call[k].at \in Instances
             /\ lock' = [lock EXCEPT ![call[k].at] = k]
    BY <2>0, <2>2, SoundFacts, NoneAssumption
  <2> QED
    BY <2>1, <2>2
<1>3. \A n \in Calls : call'[n].pc = "answered" => worker'.call = n
  BY DEF Sound, NothingIsStranded
<1>4. /\ \A j \in Jobs : queue'[j].status = "active" <=> worker'.job = j
      /\ worker'.call # None => /\ call'[worker'.call].pc # "free"
                                /\ call'[worker'.call].job = worker'.job
  BY SoundFacts DEF Sound, NothingIsStranded
<1>5. NothingIsStranded'
  BY <1>2, <1>3, <1>4 DEF NothingIsStranded
<1> QED
  BY <1>1, <1>5, QueueStays DEF Sound

\* A call that answers gives its lock back.
LEMMA CallAnswers ==
  ASSUME Sound, NEW k \in Calls, call[k].pc \notin Ended, NEW a \in Answers, Answer(k, a),
         UNCHANGED <<queue, worker>>,
         \/ call[k].pc \in Held /\ Release(k)
         \/ call[k].pc \notin Held /\ lock' = lock
         \/ lock' = [i \in Instances |-> IF lock[i] = k THEN None ELSE lock[i]],
         cache' \in [Instances -> Model \cup {None}],
         latest' \in Model \cup {None}, artifacts' \subseteq Model,
         records' \in Versions, faults' \in 0..MaxFaults
  PROVE  Sound' /\ MovesOn /\ RunsOut
<1>0. call[k].job \in Jobs /\ call[k] \in CallType /\ call[k].pc # "free"
  BY SoundFacts DEF Ended
<1>1. /\ call' \in [Calls -> CallType]
      /\ \A n \in Calls : CallOK(call[n])'
      /\ \A n \in Calls : n # k => call'[n] = call[n]
      /\ IF worker.call = k
         THEN call'[k].pc = "answered" /\ call'[k].job = call[k].job /\ call'[k].answer = a
         ELSE call'[k] = Free
  BY <1>0, SoundFacts, AnswerFacts
<1>2. /\ call'[k].pc \in Ended /\ call'[k].pc \notin Held
      /\ call'[k].pc = "answered" => worker.call = k
      /\ worker.call = k => call'[k].pc # "free" /\ call'[k].job = call[k].job
  BY <1>1 DEF Free, Ended, Held
<1>3. \A i \in Instances : lock'[i] = IF lock[i] = k THEN None ELSE lock[i]
  <2>1. \A i \in Instances : lock[i] = k <=> call[k].pc \in Held /\ call[k].at = i
    BY DEF Sound, NothingIsStranded
  <2>2. CASE call[k].pc \in Held /\ Release(k)
    <3>1. PICK i \in Instances : i = call[k].at
      BY <2>2, SoundFacts
    <3>2. lock \in [Instances -> Calls \cup {None}] /\ lock' = [lock EXCEPT ![i] = None]
      BY <2>2, <3>1, SoundFacts DEF Release
    <3> QED
      BY <2>1, <2>2, <3>1, <3>2
  <2>3. CASE call[k].pc \notin Held /\ lock' = lock
    BY <2>1, <2>3
  <2> QED
    BY <2>2, <2>3
<1>4. lock' \in [Instances -> Calls \cup {None}]
  <2>1. lock \in [Instances -> Calls \cup {None}]
    BY SoundFacts
  <2> QED
    BY <2>1 DEF Release
<1>5. TypeInv'
  BY <1>1, <1>2, <1>4, SoundFacts, ServiceTyped
<1>6. MovesOn
  <2>1. ToGo(call[k].pc) > 0
    BY <1>0 DEF CallType, Places, Ended, ToGo
  <2>2. ToGo(call'[k].pc) = 0
    BY <1>2 DEF Ended, ToGo
  <2>3. ToGo(call'[k].pc) < ToGo(call[k].pc)
    BY <2>1, <2>2
  <2> QED
    BY <1>1, <2>3 DEF MovesOn
<1>7. ASSUME NEW i \in Instances, NEW n \in Calls
      PROVE  lock'[i] = n <=> call'[n].pc \in Held /\ call'[n].at = i
  <2>1. lock[i] = n <=> call[n].pc \in Held /\ call[n].at = i
    BY DEF Sound, NothingIsStranded
  <2> QED
    BY <1>1, <1>2, <1>3, <2>1, NoneAssumption
<1>8. \A n \in Calls : call'[n].pc = "answered" => worker'.call = n
  BY <1>1, <1>2 DEF Sound, NothingIsStranded
<1>9. /\ \A j \in Jobs : queue'[j].status = "active" <=> worker'.job = j
      /\ worker'.call # None => /\ call'[worker'.call].pc # "free"
                                /\ call'[worker'.call].job = worker'.job
  BY <1>1, <1>2, SoundFacts DEF Sound, NothingIsStranded
<1>10. NothingIsStranded'
  BY <1>7, <1>8, <1>9 DEF NothingIsStranded
<1> QED
  BY <1>5, <1>6, <1>10, QueueStays DEF Sound

\* The steps of one call, each to a later place or to its answer.
LEMMA RecordedAnswers == \A version : Recorded(version) \in Answers
  BY DEF Recorded, Answers

\* A call goes from one place to a later one.
LEMMA WentOn ==
  ASSUME Sound, NEW k \in Calls, NEW p \in Places \ Ended, Goto(k, p),
         call[k].pc \notin Ended, p \in Taught => call[k].model \in Model, p # "write",
         ToGo(p) < ToGo(call[k].pc),
         UNCHANGED <<queue, worker, cache, records, faults>>,
         latest' \in Model \cup {None}, artifacts' \subseteq Model,
         \/ lock' = lock /\ (p \in Held <=> call[k].pc \in Held)
         \/ /\ call[k].pc \notin Held /\ p \in Held
            /\ lock[call[k].at] = None
            /\ lock' = [lock EXCEPT ![call[k].at] = k]
  PROVE  Sound' /\ MovesOn /\ RunsOut
<1>1. /\ call[k] \in CallType /\ call[k].job \in Jobs
      /\ call[k].at \in Instances
  <2>1. call[k] \in CallType /\ call[k].pc \in Held \cup {"check", "lock"}
    BY SoundFacts DEF CallType, Places, Held, Ended
  <2> QED
    BY <2>1, SoundFacts DEF Ended
<1>2. PICK c : c = [call[k] EXCEPT !.pc = p]
  OBVIOUS
<1>3. c.pc = p /\ c.job = call[k].job /\ c.at = call[k].at /\ c.model = call[k].model
  BY <1>1, <1>2 DEF CallType
<1>4. CallOK(c)
  BY <1>1, <1>3 DEF CallOK
<1>5. /\ call' \in [Calls -> CallType]
      /\ \A n \in Calls : CallOK(call[n])'
      /\ \A n \in Calls : n # k => call'[n] = call[n]
      /\ call'[k].pc = p /\ call'[k].job = call[k].job /\ call'[k].at = call[k].at
  BY <1>2, <1>4, SoundFacts, GotoFacts
<1>6. /\ worker.call = k => call'[k].pc # "free" /\ call'[k].job = call[k].job
      /\ call'[k].pc # "answered"
  BY <1>5 DEF Ended
<1>7. lock' \in [Instances -> Calls \cup {None}]
  BY <1>1, SoundFacts
<1>8. TypeInv'
  BY <1>5, <1>6, <1>7, SoundFacts, ServiceTyped
<1> QED
  BY <1>1, <1>5, <1>6, <1>8, CallMoves

LEMMA EarlySteps ==
  ASSUME Sound, NEW k \in Calls, Check(k) \/ Acquire(k) \/ Recheck(k)
  PROVE  Sound' /\ MovesOn /\ RunsOut
<1>0. /\ cache \in [Instances -> Model \cup {None}]
      /\ latest \in Model \cup {None} /\ artifacts \subseteq Model
      /\ records \in Versions /\ faults \in 0..MaxFaults
  BY SoundFacts
<1>1. CASE Check(k)
  <2>1. call[k].pc = "check" /\ UNCHANGED <<queue, worker, cache, lock, latest, artifacts, records, faults>>
    BY <1>1 DEF Check, At, serviceVars
  <2>2. CASE Goto(k, "lock")
    <3>1. /\ "lock" \in Places \ Ended /\ "lock" \notin Taught /\ call[k].pc \notin Ended
          /\ ToGo("lock") < ToGo(call[k].pc) /\ ("lock" \in Held <=> call[k].pc \in Held)
      BY <2>1 DEF Places, Ended, Taught, Held, ToGo
    <3> QED
      BY <1>0, <2>1, <2>2, <3>1, WentOn
  <2>3. CASE Answer(k, Recorded(records[call[k].job]))
    <3>1. call[k].pc \notin Ended /\ call[k].pc \notin Held
      BY <2>1 DEF Ended, Held
    <3> QED
      BY <1>0, <2>1, <2>3, <3>1, RecordedAnswers, CallAnswers
  <2> QED
    BY <1>1, <2>2, <2>3 DEF Check
<1>2. CASE Acquire(k)
  <2>1. /\ call[k].pc = "lock" /\ Goto(k, "recheck") /\ lock[call[k].at] = None
        /\ lock' = [lock EXCEPT ![call[k].at] = k]
        /\ UNCHANGED <<queue, worker, cache, latest, artifacts, records, faults>>
    BY <1>2 DEF Acquire, At
  <2>2. /\ "recheck" \in Places \ Ended /\ "recheck" \notin Taught /\ call[k].pc \notin Ended
        /\ ToGo("recheck") < ToGo(call[k].pc) /\ "recheck" \in Held /\ call[k].pc \notin Held
    BY <2>1 DEF Places, Ended, Taught, Held, ToGo
  <2> QED
    BY <1>0, <2>1, <2>2, WentOn
<1>3. CASE Recheck(k)
  <2>1. call[k].pc = "recheck" /\ UNCHANGED <<queue, worker, cache, latest, artifacts, records, faults>>
    BY <1>3 DEF Recheck, At
  <2>2. CASE Goto(k, "load") /\ UNCHANGED lock
    <3>1. /\ "load" \in Places \ Ended /\ "load" \notin Taught /\ call[k].pc \notin Ended
          /\ ToGo("load") < ToGo(call[k].pc) /\ ("load" \in Held <=> call[k].pc \in Held)
      BY <2>1 DEF Places, Ended, Taught, Held, ToGo
    <3> QED
      BY <1>0, <2>1, <2>2, <3>1, WentOn
  <2>3. CASE Answer(k, Recorded(records[call[k].job])) /\ Release(k)
    <3>1. call[k].pc \notin Ended /\ call[k].pc \in Held
      BY <2>1 DEF Ended, Held
    <3> QED
      BY <1>0, <2>1, <2>3, <3>1, RecordedAnswers, CallAnswers
  <2> QED
    BY <1>3, <2>2, <2>3 DEF Recheck
<1> QED
  BY <1>1, <1>2, <1>3

LEMMA LearnMoves ==
  ASSUME Sound, NEW k \in Calls, call[k].pc \in {"load", "fetch"}, NEW m \in Model, Learn(k, m),
         UNCHANGED <<queue, worker, lock, latest, artifacts, records, faults>>
  PROVE  Sound' /\ MovesOn /\ RunsOut
<1>1. call[k].pc \in Held /\ call[k].at \in Instances
  BY SoundFacts DEF Held
<1>2. PICK taught \in Model :
            /\ cache' = [cache EXCEPT ![call[k].at] = taught]
            /\ call' \in [Calls -> CallType]
            /\ \A n \in Calls : CallOK(call[n])'
            /\ \A n \in Calls : n # k => call'[n] = call[n]
            /\ call'[k].pc = IF Size[call[k].job] > 0 THEN "save" ELSE "read"
            /\ call'[k].job = call[k].job /\ call'[k].at = call[k].at
  BY <1>1, SoundFacts, LearnFacts
<1>3. cache' \in [Instances -> Model \cup {None}]
  BY <1>1, <1>2, SoundFacts
<1>4. /\ call'[k].pc \in {"save", "read"} /\ call'[k].pc \in Held
      /\ ToGo(call'[k].pc) < ToGo(call[k].pc) /\ call'[k].pc \notin Ended
  BY <1>2 DEF Held, ToGo, Ended
<1>5. TypeInv'
  BY <1>2, <1>3, <1>4, SoundFacts, ServiceTyped
<1> QED
  BY <1>1, <1>2, <1>4, <1>5, CallMoves

LEMMA LoadMoves ==
  ASSUME Sound, NEW k \in Calls, Load(k) \/ Fetch(k)
  PROVE  Sound' /\ MovesOn /\ RunsOut
<1>0. /\ cache \in [Instances -> Model \cup {None}]
      /\ latest \in Model \cup {None} /\ artifacts \subseteq Model
      /\ records \in Versions /\ faults \in 0..MaxFaults
      /\ call \in [Calls -> CallType] /\ call[k] \in CallType
      /\ \A n \in Calls : CallOK(call[n])
  BY SoundFacts
<1>1. CASE Load(k)
  <2>1. call[k].pc = "load" /\ UNCHANGED <<queue, worker, lock, latest, artifacts, records, faults>>
    BY <1>1 DEF Load, At
  <2>2. call[k].at \in Instances /\ call[k].job \in Jobs
    BY <2>1, SoundFacts DEF Held
  <2>3. CASE cache[call[k].at] # None /\ Learn(k, cache[call[k].at])
    <3>1. cache[call[k].at] \in Model
      BY <1>0, <2>2, <2>3
    <3> QED
      BY <2>1, <2>3, <3>1, LearnMoves
  <2>4. CASE Learn(k, NewModel)
    BY <2>1, <2>4, NewModelTyped, LearnMoves
  <2>5. CASE /\ ~NothingSaved
             /\ call' = [call EXCEPT ![k].pc = "fetch", ![k].model = latest]
             /\ UNCHANGED cache
    <3>1. latest \in Model
      BY <1>0, <2>5 DEF NothingSaved
    <3>2. PICK c : c = [call[k] EXCEPT !.pc = "fetch", !.model = latest]
      OBVIOUS
    <3>3. /\ c \in CallType /\ c.pc = "fetch" /\ c.job = call[k].job /\ c.at = call[k].at
          /\ c.model = latest
      BY <1>0, <3>1, <3>2 DEF CallType, Places
    <3>4. CallOK(c)
      BY <2>2, <3>1, <3>3 DEF CallOK
    <3>5. call' = [call EXCEPT ![k] = c]
      BY <2>5, <3>2
    <3>6. /\ call' \in [Calls -> CallType]
          /\ \A n \in Calls : CallOK(call[n])'
          /\ call'[k] = c
          /\ \A n \in Calls : n # k => call'[n] = call[n]
      BY <1>0, <3>3, <3>4, <3>5, SetCall
    <3>7. TypeInv'
      BY <1>0, <2>1, <2>5, <3>3, <3>6, SoundFacts, ServiceTyped
    <3>8. ToGo(call'[k].pc) < ToGo(call[k].pc) /\ call'[k].pc \in Held /\ call[k].pc \in Held
      BY <2>1, <3>3, <3>6 DEF ToGo, Held
    <3> QED
      BY <2>1, <3>3, <3>6, <3>7, <3>8, CallMoves
  <2> QED
    BY <1>1, <2>3, <2>4, <2>5 DEF Load
<1>2. CASE Fetch(k)
  <2>1. call[k].pc = "fetch" /\ UNCHANGED <<queue, worker, latest, artifacts, records, faults>>
    BY <1>2 DEF Fetch, At
  <2>2. CASE Learn(k, call[k].model) /\ UNCHANGED lock
    <3>1. call[k].model \in Model
      BY <1>0, <2>1 DEF CallOK, Taught
    <3> QED
      BY <2>1, <2>2, <3>1, LearnMoves
  <2>3. CASE Answer(k, "corrupt") /\ Release(k) /\ UNCHANGED cache
    <3>1. call[k].pc \notin Ended /\ call[k].pc \in Held /\ "corrupt" \in Answers
      BY <2>1 DEF Ended, Held, Answers
    <3> QED
      BY <1>0, <2>1, <2>3, <3>1, CallAnswers
  <2> QED
    BY <1>2, <2>2, <2>3 DEF Fetch
<1> QED
  BY <1>1, <1>2

LEMMA SaveMoves ==
  ASSUME Sound, NEW k \in Calls, CheckVersion(k) \/ PutArtifact(k) \/ PutManifest(k)
  PROVE  Sound' /\ MovesOn /\ RunsOut
<1>0. /\ cache \in [Instances -> Model \cup {None}]
      /\ latest \in Model \cup {None} /\ artifacts \subseteq Model
      /\ records \in Versions /\ faults \in 0..MaxFaults
  BY SoundFacts
<1>1. call[k].pc \in {"save", "artifact", "manifest"}
  BY DEF CheckVersion, PutArtifact, PutManifest, At
<1>2. /\ call[k].model \in Model /\ call[k].at \in Instances
      /\ call[k].pc \in Held /\ call[k].pc \notin Ended
  BY <1>1, SoundFacts DEF Held, Taught, CallOK, Ended
<1>3. Evicted(call[k].at) \in [Instances -> Model \cup {None}]
  BY <1>0, <1>2 DEF Evicted
<1>4. CASE CheckVersion(k)
  <2>1. call[k].pc = "save" /\ UNCHANGED <<queue, worker, latest, artifacts, records, faults>>
    BY <1>4 DEF CheckVersion, At
  <2>2. CASE Goto(k, "artifact") /\ UNCHANGED <<cache, lock>>
    <3>1. "artifact" \in Places \ Ended /\ "artifact" \in Held /\ ToGo("artifact") < ToGo(call[k].pc)
      BY <2>1 DEF Places, Ended, Held, ToGo
    <3> QED
      BY <1>0, <1>2, <2>1, <2>2, <3>1, WentOn
  <2>3. CASE cache' = Evicted(call[k].at) /\ Answer(k, "conflict") /\ Release(k)
    <3>1. "conflict" \in Answers
      BY DEF Answers
    <3> QED
      BY <1>0, <1>2, <1>3, <2>1, <2>3, <3>1, CallAnswers
  <2> QED
    BY <1>4, <2>2, <2>3 DEF CheckVersion
<1>5. CASE PutArtifact(k)
  <2>1. /\ call[k].pc = "artifact" /\ Goto(k, "manifest") /\ artifacts' = Stored(call[k].model)
        /\ UNCHANGED <<queue, worker, cache, lock, latest, records, faults>>
    BY <1>5 DEF PutArtifact, At
  <2>2. artifacts' \subseteq Model
    BY <1>0, <1>2, <2>1 DEF Stored
  <2>3. "manifest" \in Places \ Ended /\ "manifest" \in Held /\ ToGo("manifest") < ToGo(call[k].pc)
    BY <2>1 DEF Places, Ended, Held, ToGo
  <2> QED
    BY <1>0, <1>2, <2>1, <2>2, <2>3, WentOn
<1>6. CASE PutManifest(k)
  <2>1. /\ call[k].pc = "manifest" /\ Goto(k, "read") /\ latest' = call[k].model
        /\ UNCHANGED <<queue, worker, cache, lock, artifacts, records, faults>>
    BY <1>6 DEF PutManifest, At
  <2>2. "read" \in Places \ Ended /\ "read" \in Held /\ ToGo("read") < ToGo(call[k].pc)
    BY <2>1 DEF Places, Ended, Held, ToGo
  <2> QED
    BY <1>0, <1>2, <2>1, <2>2, WentOn
<1> QED
  BY <1>4, <1>5, <1>6

\* The file as the call writes it.
LEMMA WrittenTyped ==
  ASSUME Sound, NEW k \in Calls, call[k].pc = "write"
  PROVE  [call[k].seen EXCEPT ![call[k].job] = call[k].model.version] \in Versions
<1>1. call[k].seen \in Versions /\ call[k].model \in Model /\ call[k].job \in Jobs
  BY SoundFacts DEF CallOK, Taught
<1>2. call[k].model.version \in Nat
  BY <1>1 DEF Model
<1> QED
  BY <1>1, <1>2 DEF Versions

LEMMA RecordMoves ==
  ASSUME Sound, NEW k \in Calls, ReadRecords(k) \/ WriteRecords(k)
  PROVE  Sound' /\ MovesOn /\ RunsOut
<1>0. /\ cache \in [Instances -> Model \cup {None}]
      /\ latest \in Model \cup {None} /\ artifacts \subseteq Model
      /\ records \in Versions /\ faults \in 0..MaxFaults
      /\ call \in [Calls -> CallType] /\ call[k] \in CallType
      /\ \A n \in Calls : CallOK(call[n])
  BY SoundFacts
<1>1. call[k].pc \in {"read", "write"}
  BY DEF ReadRecords, WriteRecords, At
<1>2. /\ call[k].model \in Model /\ call[k].at \in Instances /\ call[k].job \in Jobs
      /\ call[k].pc \in Held /\ call[k].pc \notin Ended
  BY <1>1, SoundFacts DEF Held, Taught, CallOK, Ended
<1>3. CASE ReadRecords(k)
  <2>1. call[k].pc = "read" /\ UNCHANGED <<queue, worker, latest, artifacts, records, faults>>
    BY <1>3 DEF ReadRecords, At
  <2>2. CASE /\ call' = [call EXCEPT ![k].pc = "write", ![k].seen = records]
             /\ UNCHANGED <<cache, lock>>
    <3>1. PICK c : c = [call[k] EXCEPT !.pc = "write", !.seen = records]
      OBVIOUS
    <3>2. /\ c \in CallType /\ c.pc = "write" /\ c.job = call[k].job /\ c.at = call[k].at
          /\ c.model = call[k].model /\ c.seen = records
      BY <1>0, <3>1 DEF CallType, Places
    <3>3. CallOK(c)
      BY <1>0, <1>2, <3>2 DEF CallOK
    <3>4. call' = [call EXCEPT ![k] = c]
      BY <2>2, <3>1
    <3>5. /\ call' \in [Calls -> CallType]
          /\ \A n \in Calls : CallOK(call[n])'
          /\ call'[k] = c
          /\ \A n \in Calls : n # k => call'[n] = call[n]
      BY <1>0, <3>2, <3>3, <3>4, SetCall
    <3>6. TypeInv'
      BY <1>0, <2>1, <2>2, <3>2, <3>5, SoundFacts, ServiceTyped
    <3>7. ToGo(call'[k].pc) < ToGo(call[k].pc) /\ call'[k].pc \in Held
      BY <2>1, <3>2, <3>5 DEF ToGo, Held
    <3> QED
      BY <1>2, <2>1, <2>2, <3>2, <3>5, <3>6, <3>7, CallMoves
  <2>3. CASE /\ cache' \in {cache, Evicted(call[k].at)}
             /\ Answer(k, Recorded(records[call[k].job])) /\ Release(k)
    <3>1. cache' \in [Instances -> Model \cup {None}]
      BY <1>0, <1>2, <2>3 DEF Evicted
    <3> QED
      BY <1>0, <1>2, <2>1, <2>3, <3>1, RecordedAnswers, CallAnswers
  <2> QED
    BY <1>3, <2>2, <2>3 DEF ReadRecords
<1>4. CASE WriteRecords(k)
  <2>1. /\ call[k].pc = "write" /\ Answer(k, "ok") /\ Release(k) /\ "ok" \in Answers
        /\ records' = [call[k].seen EXCEPT ![call[k].job] = call[k].model.version]
        /\ UNCHANGED <<queue, worker, cache, latest, artifacts, faults>>
    BY <1>4 DEF WriteRecords, At, Answers
  <2>2. records' \in Versions
    BY <2>1, WrittenTyped
  <2> QED
    BY <1>0, <1>2, <2>1, <2>2, CallAnswers
<1> QED
  BY <1>3, <1>4

LEMMA FailureMoves ==
  ASSUME Sound, NEW k \in Calls, StoreFails(k)
  PROVE  Sound' /\ MovesOn /\ RunsOut
<1>0. /\ cache \in [Instances -> Model \cup {None}]
      /\ latest \in Model \cup {None} /\ artifacts \subseteq Model
      /\ records \in Versions /\ faults \in 0..MaxFaults /\ call[k] \in CallType
  BY SoundFacts
<1>1. /\ faults' \in 0..MaxFaults /\ call[k].pc \notin Ended /\ call[k].pc # "lock"
      /\ Answer(k, "error") /\ "error" \in Answers /\ UNCHANGED <<queue, worker>>
      /\ lock' = [i \in Instances |-> IF lock[i] = k THEN None ELSE lock[i]]
  BY <1>0, RetryAssumption DEF StoreFails, Fault, Answers, Ended
<1>2. call[k].pc \in Held \cup {"check"}
  BY <1>0, <1>1 DEF CallType, Places, Held, Ended
<1>3. call[k].at \in Instances /\ (call[k].pc \in Taught => call[k].model \in Model)
  BY <1>2, SoundFacts DEF CallOK
<1>4. artifacts' \subseteq Model
  <2>1. artifacts' \in {artifacts} \cup (IF At(k, "artifact") THEN {Stored(call[k].model)} ELSE {})
    BY DEF StoreFails
  <2> QED
    BY <1>0, <1>3, <2>1 DEF At, Taught, Stored
<1>5. latest' \in Model \cup {None}
  <2>1. latest' \in {latest} \cup (IF At(k, "manifest") THEN {call[k].model} ELSE {})
    BY DEF StoreFails
  <2> QED
    BY <1>0, <1>3, <2>1 DEF At, Taught
<1>6. records' \in Versions
  <2>1. records' \in {records} \cup
          (IF At(k, "write")
           THEN {[call[k].seen EXCEPT ![call[k].job] = call[k].model.version]} ELSE {})
    BY DEF StoreFails
  <2> QED
    BY <1>0, <2>1, WrittenTyped DEF At
<1>7. cache' \in [Instances -> Model \cup {None}]
  <2>1. cache' \in {cache, Evicted(call[k].at)}
    BY DEF StoreFails
  <2> QED
    BY <1>0, <1>3, <2>1 DEF Evicted
<1> QED
  BY <1>1, <1>4, <1>5, <1>6, <1>7, CallAnswers

\* A process that stops ends its calls and frees its lock, and those of no other.
LEMMA RestartMoves ==
  ASSUME Sound, NEW i \in Instances, Restart(i)
  PROVE  Sound' /\ MovesOn /\ RunsOut
<1>0. /\ cache' = Evicted(i) /\ lock' = [lock EXCEPT ![i] = None]
      /\ UNCHANGED <<queue, worker, latest, artifacts, records>>
      /\ call' = [k \in Calls |->
                    IF call[k].at # i THEN call[k]
                    ELSE IF worker.call = k
                         THEN [Free EXCEPT !.pc = "answered", !.job = call[k].job,
                                           !.answer = "error"]
                         ELSE Free]
  BY DEF Restart, Fault
<1>1. /\ TypeInv /\ WorkerInv
      /\ queue \in [Jobs -> Job]
      /\ worker \in [job : Jobs \cup {None}, tries : 0..Tries, call : Calls \cup {None}]
      /\ call \in [Calls -> CallType] /\ \A n \in Calls : CallOK(call[n])
      /\ cache \in [Instances -> Model \cup {None}] /\ lock \in [Instances -> Calls \cup {None}]
      /\ latest \in Model \cup {None} /\ artifacts \subseteq Model /\ records \in Versions
      /\ faults \in 0..MaxFaults
  BY TypeOKSplit DEF Sound, TypeInv
<1>2. faults' \in 0..MaxFaults
  <2>1. faults < MaxFaults /\ faults' = faults + 1
    BY DEF Restart, Fault
  <2> QED
    BY <1>1, <2>1, RetryAssumption
<1>3. ASSUME NEW n \in Calls
      PROVE  /\ call'[n] \in CallType /\ CallOK(call'[n])
             /\ call[n].at # i => call'[n] = call[n]
             /\ call[n].at = i => call'[n].pc \in Ended /\ call'[n].pc \notin Held
             /\ call'[n].pc = "answered" => worker.call = n
             /\ worker.call = n => call'[n].pc # "free" /\ call'[n].job = call[n].job
  <2>1. CASE call[n].at # i
    <3>1. call'[n] = call[n]
      BY <1>0, <2>1
    <3>2. /\ call[n].pc = "answered" => worker.call = n
          /\ worker.call = n => call[n].pc # "free"
      BY SoundFacts DEF Sound, NothingIsStranded
    <3> QED
      BY <1>1, <2>1, <3>1, <3>2
  <2>2. CASE call[n].at = i /\ worker.call = n
    <3>1. call[n].job \in Jobs
      BY <1>1, <2>2, NoneAssumption DEF WorkerInv, CallOK
    <3>2. PICK c : c = [Free EXCEPT !.pc = "answered", !.job = call[n].job, !.answer = "error"]
      OBVIOUS
    <3>3. /\ c \in CallType /\ CallOK(c)
          /\ c.pc = "answered" /\ c.job = call[n].job
      BY <3>1, <3>2 DEF Free, CallType, CallOK, Held, Taught, Places, Answers
    <3>4. call'[n] = c
      BY <1>0, <2>2, <3>2
    <3> QED
      BY <2>2, <3>3, <3>4 DEF Held, Ended
  <2>3. CASE call[n].at = i /\ worker.call # n
    <3>1. call'[n] = Free
      BY <1>0, <2>3
    <3>2. Free.pc = "free"
      BY DEF Free
    <3> QED
      BY <2>3, <3>1, <3>2, FreeTyped DEF Held, Ended
  <2> QED
    BY <2>1, <2>2, <2>3
<1>4. TypeInv'
  <2>1. call' \in [Calls -> CallType] /\ \A n \in Calls : CallOK(call[n])'
    <3>1. \A n \in Calls : call'[n] \in CallType /\ CallOK(call'[n])
      BY <1>3
    <3>2. DOMAIN call' = Calls /\ call' = [n \in Calls |-> call'[n]]
      BY <1>0
    <3> QED
      BY <3>1, <3>2 DEF CallOK
  <2>2. cache' \in [Instances -> Model \cup {None}] /\ lock' \in [Instances -> Calls \cup {None}]
    BY <1>0, <1>1 DEF Evicted
  <2>3. TypeOK'
    BY <1>0, <1>1, <1>2, <2>1, <2>2, TypeOKSplit DEF TypeInv, TypeOK, Job, CallType
  <2>4. WorkerInv'
    <3>1. worker.call # None => /\ worker.job # None
                                /\ call'[worker.call].pc # "free"
                                /\ call'[worker.call].job = worker.job
      BY <1>1, <1>3 DEF WorkerInv
    <3> QED
      BY <1>0, <1>1, <3>1 DEF WorkerInv
  <2> QED
    BY <2>1, <2>3, <2>4 DEF TypeInv
<1>5. MovesOn
  <2> SUFFICES ASSUME NEW n \in Calls, call[n].pc \notin Ended, call'[n] # call[n]
               PROVE  ToGo(call'[n].pc) < ToGo(call[n].pc)
    BY DEF MovesOn
  <2>1. ToGo(call[n].pc) > 0
    <3>1. call[n].pc \in Places
      BY <1>1 DEF CallType
    <3> QED
      BY <3>1 DEF Places, Ended, ToGo
  <2>2. ToGo(call'[n].pc) = 0
    BY <1>3 DEF Ended, ToGo
  <2> QED
    BY <2>1, <2>2
<1>6. ASSUME NEW h \in Instances, NEW n \in Calls
      PROVE  lock'[h] = n <=> call'[n].pc \in Held /\ call'[n].at = h
  <2>1. lock[h] = n <=> call[n].pc \in Held /\ call[n].at = h
    BY DEF Sound, NothingIsStranded
  <2>2. lock'[h] = IF h = i THEN None ELSE lock[h]
    BY <1>0, <1>1
  <2> QED
    BY <1>3, <2>1, <2>2, NoneAssumption
<1>7. NothingIsStranded'
  <2>1. \A n \in Calls : call'[n].pc = "answered" => worker'.call = n
    BY <1>0, <1>3
  <2>2. \A j \in Jobs : queue'[j].status = "active" <=> worker'.job = j
    BY <1>0 DEF Sound, NothingIsStranded
  <2>3. worker'.call # None => /\ call'[worker'.call].pc # "free"
                               /\ call'[worker'.call].job = worker'.job
    BY <1>4 DEF TypeInv, WorkerInv
  <2> QED
    BY <1>6, <2>1, <2>2, <2>3 DEF NothingIsStranded
<1> QED
  BY <1>0, <1>4, <1>5, <1>7, QueueStays DEF Sound

LEMMA CacheMoves ==
  ASSUME Sound, NEW i \in Instances, Evict(i) \/ Predict(i)
  PROVE  Sound' /\ MovesOn /\ RunsOut
<1>1. /\ TypeInv /\ cache \in [Instances -> Model \cup {None}] /\ latest \in Model \cup {None}
  BY TypeOKSplit DEF Sound, TypeInv
<1>2. UNCHANGED <<queue, worker, call, lock, latest, artifacts, records, faults>>
  BY DEF Evict, Predict
<1>3. cache' \in [Instances -> Model \cup {None}]
  BY <1>1, NewModelTyped DEF Evict, Evicted, Predict
<1>4. TypeInv'
  <2>1. TypeOK'
    BY <1>1, <1>2, <1>3 DEF TypeInv, TypeOK
  <2>2. WorkerInv' /\ \A n \in Calls : CallOK(call[n])'
    BY <1>1, <1>2 DEF TypeInv, WorkerInv, CallOK
  <2> QED
    BY <2>1, <2>2 DEF TypeInv
<1>5. NothingIsStranded' /\ MovesOn
  BY <1>2 DEF Sound, NothingIsStranded, MovesOn
<1> QED
  BY <1>2, <1>4, <1>5, QueueStays DEF Sound

\* What the queue and the worker do to the status of one job.
LEMMA JobMoves ==
  ASSUME Sound, NEW w \in Jobs, NEW q \in Job, queue' = [queue EXCEPT ![w] = q],
         queue[w].made <= q.made, queue[w].stalled => q.stalled,
         queue[w].status \notin {"completed", "failed"},
         queue[w].status = "active" /\ q.status = "waiting" =>
             queue[w].made < q.made \/ (~queue[w].stalled /\ q.stalled)
  PROVE  /\ RunsOut
         /\ \A j \in Jobs : queue'[j].status = IF j = w THEN q.status ELSE queue[j].status
<1>1. queue \in [Jobs -> Job] /\ \A j \in Jobs : queue[j].made \in Nat
  <2>1. queue \in [Jobs -> Job]
    BY TypeOKSplit DEF Sound, TypeInv
  <2> QED
    BY <2>1, RetryAssumption DEF Job
<1>2. queue'[w] = q /\ \A j \in Jobs : j # w => queue'[j] = queue[j]
  BY <1>1
<1>3. RunsOut
  BY <1>1, <1>2 DEF RunsOut
<1> QED
  BY <1>2, <1>3

\* The calls and the locks under a step of the queue or the worker.
LEMMA QueueLeavesLocks ==
  ASSUME Sound, QueueMoves
  PROVE  /\ MovesOn
         /\ \A i \in Instances, k \in Calls : lock'[i] = k <=> call'[k].pc \in Held /\ call'[k].at = i
<1>1. \A k \in Calls : \/ call'[k] = call[k]
                       \/ call[k].pc \in {"free", "answered"} /\ call'[k].pc \in {"free", "check"}
  BY DEF QueueMoves
<1>2. MovesOn
  BY <1>1 DEF MovesOn, Ended
<1>3. ASSUME NEW i \in Instances, NEW k \in Calls
      PROVE  lock'[i] = k <=> call'[k].pc \in Held /\ call'[k].at = i
  <2>1. lock[i] = k <=> call[k].pc \in Held /\ call[k].at = i
    BY DEF Sound, NothingIsStranded
  <2>2. lock' = lock
    BY DEF QueueMoves
  <2> QED
    BY <1>1, <2>1, <2>2 DEF Held
<1> QED
  BY <1>2, <1>3

\* The worker gives up a try, or an attempt.
LEMMA GivesUp ==
  ASSUME Sound, worker.job \in Jobs, AttemptFails \/ TryFails
  PROVE  /\ RunsOut
         /\ \A j \in Jobs : queue'[j].status = "active" <=> worker'.job = j
         /\ worker'.call = None
<1>0. /\ TypeInv /\ queue \in [Jobs -> Job]
      /\ worker \in [job : Jobs \cup {None}, tries : 0..Tries, call : Calls \cup {None}]
  BY TypeOKSplit DEF Sound, TypeInv
<1>1. PICK w \in Jobs : w = worker.job
  OBVIOUS
<1>2. /\ queue[w] \in Job /\ queue[w].status = "active" /\ queue[w].made < Attempts
      /\ \A j \in Jobs : queue[j].status = "active" <=> j = w
  BY <1>0, <1>1, NoneAssumption DEF Sound, NothingIsStranded, TypeInv, WorkerInv
<1>3. CASE AttemptFails
  <2>1. queue[w].made \in Nat /\ Attempts \in Nat /\ queue[w].made + 1 \in 0..Attempts
    BY <1>2, RetryAssumption DEF Job
  <2>2. PICK s \in Statuses : s = IF queue[w].made + 1 < Attempts THEN "waiting" ELSE "failed"
    BY DEF Statuses
  <2>3. PICK m \in 0..Attempts : m = queue[w].made + 1
    BY <2>1
  <2>4. PICK q : q = [queue[w] EXCEPT !.status = s, !.made = m]
    OBVIOUS
  <2>5. q \in Job /\ q.status = s /\ q.made = m /\ q.stalled = queue[w].stalled
    BY <1>2, <2>4 DEF Job
  <2>6. queue' = [queue EXCEPT ![w] = q] /\ worker' = NoWork
    BY <1>1, <1>3, <2>2, <2>3, <2>4 DEF AttemptFails
  <2>7. RunsOut /\ \A j \in Jobs : queue'[j].status = IF j = w THEN q.status ELSE queue[j].status
    <3>1. queue[w].made < q.made /\ queue[w].made <= q.made
      BY <2>1, <2>3, <2>5
    <3>2. queue[w].status \notin {"completed", "failed"} /\ (queue[w].stalled => q.stalled)
      BY <1>2, <2>5
    <3> QED
      BY <2>5, <2>6, <3>1, <3>2, JobMoves
  <2>8. q.status # "active" /\ worker'.job = None /\ worker'.call = None
    BY <2>2, <2>5, <2>6 DEF NoWork
  <2> QED
    BY <1>2, <2>7, <2>8, NoneAssumption
<1>4. CASE TryFails /\ ~AttemptFails
  <2>1. worker' = [worker EXCEPT !.call = None] /\ queue' = queue
    BY <1>4 DEF TryFails
  <2>2. worker'.job = w /\ worker'.call = None
    BY <1>0, <1>1, <2>1
  <2> QED
    BY <1>2, <2>1, <2>2, QueueStays
<1> QED
  BY <1>3, <1>4

LEMMA QueueIsSound ==
  ASSUME Sound, WorkerStep \/ WorkerStops \/ \E j \in Jobs : Enqueue(j)
  PROVE  Sound' /\ MovesOn /\ RunsOut
<1>0. /\ TypeInv /\ WorkerInv /\ queue \in [Jobs -> Job]
      /\ worker \in [job : Jobs \cup {None}, tries : 0..Tries, call : Calls \cup {None}]
      /\ call \in [Calls -> CallType]
      /\ TypeInv' /\ QueueMoves
      /\ \A j \in Jobs : queue[j].made \in Nat /\ queue[j].made <= queue[j].made
  <2>1. /\ TypeInv /\ WorkerInv /\ queue \in [Jobs -> Job]
        /\ worker \in [job : Jobs \cup {None}, tries : 0..Tries, call : Calls \cup {None}]
        /\ call \in [Calls -> CallType]
        /\ TypeInv' /\ QueueMoves
    BY TypeOKSplit, QueueTyped DEF Sound, TypeInv
  <2>2. \A j \in Jobs : queue[j].made \in Nat
    BY <2>1, RetryAssumption DEF Job
  <2> QED
    BY <2>1, <2>2
<1>a. ASSUME RunsOut,
             \A k \in Calls : call'[k].pc = "answered" => worker'.call = k,
             \A j \in Jobs : queue'[j].status = "active" <=> worker'.job = j
      PROVE  Sound' /\ MovesOn /\ RunsOut
  <2>1. worker'.call # None => /\ call'[worker'.call].pc # "free"
                               /\ call'[worker'.call].job = worker'.job
    BY <1>0 DEF TypeInv, WorkerInv
  <2> QED
    BY <1>0, <1>a, <2>1, QueueLeavesLocks DEF Sound, NothingIsStranded
<1>b. /\ \A k \in Calls : call[k].pc = "answered" => worker.call = k
      /\ \A j \in Jobs : queue[j].status = "active" <=> worker.job = j
  BY DEF Sound, NothingIsStranded
<1>1. ASSUME NEW j \in Jobs, Enqueue(j)
      PROVE  Sound' /\ MovesOn /\ RunsOut
  <2>1. PICK q : q = [queue[j] EXCEPT !.status = "waiting"]
    OBVIOUS
  <2>2. queue[j] \in Job /\ q \in Job /\ q.status = "waiting" /\ q.made = queue[j].made
        /\ q.stalled = queue[j].stalled
    BY <1>0, <2>1 DEF Job, Statuses
  <2>3. queue' = [queue EXCEPT ![j] = q] /\ queue[j].status = "none" /\ UNCHANGED <<worker, call>>
    BY <1>1, <2>1 DEF Enqueue
  <2>4. RunsOut /\ \A i \in Jobs : queue'[i].status = IF i = j THEN "waiting" ELSE queue[i].status
    BY <1>0, <2>2, <2>3, JobMoves
  <2> QED
    BY <1>a, <1>b, <2>3, <2>4
<1>2. ASSUME NEW j \in Jobs, Take(j)
      PROVE  Sound' /\ MovesOn /\ RunsOut
  <2>1. PICK q : q = [queue[j] EXCEPT !.status = "active"]
    OBVIOUS
  <2>2. queue[j] \in Job /\ q \in Job /\ q.status = "active" /\ q.made = queue[j].made
        /\ q.stalled = queue[j].stalled
    BY <1>0, <2>1 DEF Job, Statuses
  <2>3. queue' = [queue EXCEPT ![j] = q] /\ queue[j].status = "waiting" /\ call' = call
        /\ worker = NoWork /\ worker' = [NoWork EXCEPT !.job = j]
    BY <1>2, <2>1 DEF Take
  <2>4. RunsOut /\ \A i \in Jobs : queue'[i].status = IF i = j THEN "active" ELSE queue[i].status
    BY <1>0, <2>2, <2>3, JobMoves
  <2>5. worker.job = None /\ worker.call = None /\ worker'.job = j /\ worker'.call = None
    BY <2>3 DEF NoWork
  <2> QED
    BY <1>a, <1>b, <2>3, <2>4, <2>5, NoneAssumption
<1>3. ASSUME NEW k \in Calls, NEW i \in Instances, Send(k, i)
      PROVE  Sound' /\ MovesOn /\ RunsOut
  <2>1. worker.job # None /\ worker.call = None /\ queue' = queue
        /\ call' = [call EXCEPT ![k] = [Free EXCEPT !.pc = "check", !.job = worker.job, !.at = i]]
        /\ worker' = [worker EXCEPT !.call = k, !.tries = @ + 1]
    BY <1>3 DEF Send
  <2>2. worker'.job = worker.job
    BY <1>0, <2>1
  <2>3. call'[k].pc = "check" /\ \A n \in Calls : n # k => call'[n] = call[n]
    BY <1>0, <2>1 DEF Free
  <2>4. \A n \in Calls : call'[n].pc # "answered"
    BY <1>b, <2>1, <2>3, NoneAssumption
  <2> QED
    BY <1>a, <1>b, <2>1, <2>2, <2>4, QueueStays
<1>4. CASE Hear \/ Timeout
  <2>1. PICK k \in Calls : k = worker.call
    BY <1>0, <1>4 DEF Hear, Timeout
  <2>2. worker.job \in Jobs
    BY <1>0, <2>1, NoneAssumption DEF WorkerInv
  <2>3. \A n \in Calls : call'[n].pc # "answered"
    <3>1. \A n \in Calls : n # k => call[n].pc # "answered"
      BY <1>b, <2>1
    <3>2. \/ call' = [call EXCEPT ![k] = Free]
          \/ call' = [call EXCEPT ![k] = IF call[k].pc = "answered" THEN Free ELSE call[k]]
      BY <1>4, <2>1 DEF Hear, Timeout
    <3>3. call'[k].pc # "answered" /\ \A n \in Calls : n # k => call'[n] = call[n]
      BY <1>0, <1>4, <2>1, <3>2 DEF Free
    <3> QED
      BY <3>1, <3>3
  <2>4. CASE AttemptFails \/ TryFails
    BY <1>a, <2>2, <2>3, <2>4, GivesUp
  <2>5. CASE queue' = [queue EXCEPT ![worker.job].status = "completed"] /\ worker' = NoWork
    <3>1. PICK j \in Jobs : j = worker.job
      BY <2>2
    <3>2. PICK q : q = [queue[j] EXCEPT !.status = "completed"]
      OBVIOUS
    <3>3. /\ queue[j] \in Job /\ q \in Job /\ q.status = "completed" /\ q.made = queue[j].made
          /\ q.stalled = queue[j].stalled
      BY <1>0, <3>2 DEF Job, Statuses
    <3>4. queue' = [queue EXCEPT ![j] = q]
      BY <2>5, <3>1, <3>2
    <3>5. queue[j].status = "active"
      BY <1>b, <3>1
    <3>6. RunsOut /\ \A i \in Jobs : queue'[i].status = IF i = j THEN "completed" ELSE queue[i].status
      BY <1>0, <3>3, <3>4, <3>5, JobMoves
    <3>7. worker'.job = None
      BY <2>5 DEF NoWork
    <3> QED
      BY <1>a, <1>b, <2>3, <3>1, <3>6, <3>7, NoneAssumption
  <2> QED
    BY <1>4, <2>4, <2>5 DEF Hear, Timeout
<1>5. CASE WorkerStops
  <2>1. PICK j \in Jobs : j = worker.job
    BY <1>0, <1>5 DEF WorkerStops
  <2>2. PICK q : q = [queue[j] EXCEPT !.status = IF queue[j].stalled THEN "failed" ELSE "waiting",
                                      !.stalled = TRUE]
    OBVIOUS
  <2>3. /\ queue[j] \in Job /\ q \in Job /\ q.made = queue[j].made /\ q.stalled
        /\ q.status = IF queue[j].stalled THEN "failed" ELSE "waiting"
    BY <1>0, <2>2 DEF Job, Statuses
  <2>4. queue' = [queue EXCEPT ![j] = q] /\ worker' = NoWork
    BY <1>5, <2>1, <2>2 DEF WorkerStops
  <2>5. queue[j].status = "active"
    BY <1>b, <2>1
  <2>6. RunsOut /\ \A i \in Jobs : queue'[i].status = IF i = j THEN q.status ELSE queue[i].status
    BY <1>0, <2>3, <2>4, <2>5, JobMoves
  <2>7. worker'.job = None /\ q.status # "active"
    BY <2>3, <2>4 DEF NoWork
  <2>8. \A k \in Calls : call'[k].pc # "answered"
    BY <1>5 DEF WorkerStops, Free
  <2> QED
    BY <1>a, <1>b, <2>1, <2>6, <2>7, <2>8, NoneAssumption
<1> QED
  BY <1>1, <1>2, <1>3, <1>4, <1>5 DEF WorkerStep

LEMMA SoundInit == Init => Sound
<1> SUFFICES ASSUME Init
             PROVE  NothingIsStranded
  BY MlInitTyped DEF Sound
<1>1. \A k \in Calls : call[k].pc = "free"
  BY DEF Init, Free
<1> QED
  BY <1>1, NoneAssumption DEF Init, NothingIsStranded, Held, NoWork

LEMMA SoundNext ==
  ASSUME Sound, [Next]_vars
  PROVE  Sound' /\ MovesOn /\ RunsOut
<1>1. CASE WorkerStep \/ WorkerStops \/ \E j \in Jobs : Enqueue(j)
  BY <1>1, QueueIsSound
<1>2. ASSUME NEW k \in Calls, CallStep(k)
      PROVE  Sound' /\ MovesOn /\ RunsOut
  BY <1>2, EarlySteps, LoadMoves, SaveMoves, RecordMoves DEF CallStep
<1>3. ASSUME NEW k \in Calls, StoreFails(k)
      PROVE  Sound' /\ MovesOn /\ RunsOut
  BY <1>3, FailureMoves
<1>4. ASSUME NEW i \in Instances, Restart(i) \/ Evict(i) \/ Predict(i)
      PROVE  Sound' /\ MovesOn /\ RunsOut
  BY <1>4, RestartMoves, CacheMoves
<1>5. CASE UNCHANGED vars
  <2>1. Sound'
    BY <1>5 DEF vars, serviceVars, Sound, TypeInv, TypeOK, WorkerInv, CallOK, NothingIsStranded
  <2>2. MovesOn
    BY <1>5 DEF vars, MovesOn
  <2>3. RunsOut
    BY <1>5, QueueStays DEF vars
  <2> QED
    BY <2>1, <2>2, <2>3
<1> QED
  BY <1>1, <1>2, <1>3, <1>4, <1>5 DEF Next

LEMMA SoundAlways == Spec => []Sound
<1>1. Sound /\ [Next]_vars => Sound'
  BY SoundNext
<1> QED
  BY <1>1, SoundInit, PTL DEF Spec

\* With any number of processes, a lock of the tenant is held by a call that is past it and
\* still runs in that process, an answer is kept for the worker, and a job is active
\* because the worker has it (model_service.py:377-440, ml-training.processor.ts:20-48).
THEOREM NothingGetsStranded == Spec => []NothingIsStranded
<1>1. Sound => NothingIsStranded
  BY DEF Sound
<1> QED
  BY <1>1, SoundAlways, PTL

\* With any number of processes, each step of a call of the service takes it to a later
\* place or ends it, so that it takes ten at most (model_service.py:369-440).
THEOREM CallsGoOn == Spec => CallsMoveOn
<1>1. Sound /\ [Next]_vars => [MovesOn]_vars
  BY SoundNext
<1> QED
  BY <1>1, SoundAlways, PTL DEF Spec, CallsMoveOn

\* A job that goes back to the queue has spent one of its attempts, or its one stall, and a
\* job that has ended stays so (queue.module.ts:25-36).
THEOREM RetriesRunOut == Spec => JobsRunOut
<1>1. Sound /\ [Next]_vars => [RunsOut]_vars
  BY SoundNext
<1> QED
  BY <1>1, SoundAlways, PTL DEF Spec, JobsRunOut
=============================================================================
