--------------------------- MODULE DetectionQueue ---------------------------
(***************************************************************************)
(* Task detection in one chat: the listener saves messages and coalesces   *)
(* them into debounced jobs (src/app/database/repository.py), workers      *)
(* lease a job, show its messages to the model and commit the answer with  *)
(* the tasks made of it (src/app/agent/queue.py, worker.py), and an        *)
(* operator may cancel queued jobs.                                        *)
(*                                                                         *)
(* save and claim write before they read, so each is one step.  start_run, *)
(* complete, fail and cancel_jobs read first and write afterwards in a     *)
(* transaction that starts with the write: two steps each.                 *)
(***************************************************************************)
EXTENDS DetectionContext

CONSTANTS
    Ids,             \* database ids of messages, in the order they are saved
    Sizes,           \* lengths a message can have
    Workers,         \* worker slots; each run of one is a process
    Instants,        \* the instants the clock visits: the bound on time
    Debounce,        \* DETECTION_DEBOUNCE_SECONDS
    MaxAttempts,     \* max_attempts of every job
    LeaseSeconds,    \* DETECTION_WORKER_LEASE_SECONDS
    RetryBase,       \* DETECTION_WORKER_RETRY_BASE_SECONDS
    MaxRuns,         \* bound: processes started per worker slot
    Operations,      \* which optional operations the instance exercises
    None             \* SQL NULL

ASSUME IdAssumption == Ids \subseteq Nat \ {0} /\ Sizes \subseteq Nat
ASSUME ClockAssumption == Instants \subseteq Int
ASSUME LimitAssumption ==
    /\ Debounce \in 1..60 /\ LeaseSeconds \in 10..3600 /\ RetryBase \in 1..3600
    /\ MaxAttempts \in 1..10
    /\ MaxRuns \in Nat \ {0}
ASSUME NullAssumption == None \notin Ids /\ None \notin Workers \X (1..MaxRuns)

VARIABLES
    now,          \* the clock every process of the host reads
    message,      \* messages, by id
    job,          \* detection_jobs, by the id of the message that created it
    run,          \* detection_runs, by their unique key (job, attempt)
    materialized, \* detection_materializations: runs whose tasks exist
    pc,           \* where each worker process is
    process,      \* number of the process in each slot: part of its worker_id
    lease,        \* the DetectionJobLease the process holds in memory
    request       \* the operator's cancel_jobs: asked for, found queued, reported

vars == <<now, message, job, run, materialized, pc, process, lease, request>>
workerVars == <<pc, process, lease>>

-----------------------------------------------------------------------------
(* Rows. *)

Message == [created : Int, received : Int, size : Sizes, kind : MessageKinds]

WorkerIds == Workers \X (1..MaxRuns)

(* batch is a history variable: the messages coalesced into the job. *)
Job == [status    : {"absent", "queued", "running", "completed", "dead", "cancelled"},
        trigger   : Ids \cup {None},
        since     : Int,                  \* created_at: when the batch began
        attempt   : 0..MaxAttempts,
        ready     : Int,                  \* available_at
        worker    : WorkerIds \cup {None},
        expires   : Int,                  \* 0 when not leased
        completed : BOOLEAN,              \* completed_at is set
        cancelled : BOOLEAN,              \* cancelled_at is set
        batch     : SUBSET Ids]

NoJob == [status |-> "absent", trigger |-> None, since |-> 0, attempt |-> 0,
          ready |-> 0, worker |-> None, expires |-> 0,
          completed |-> FALSE, cancelled |-> FALSE, batch |-> {}]

(* The CHECK constraints of detection_jobs. *)
JobChecks(j) ==
    /\ j.attempt \in 0..MaxAttempts
    /\ (j.status = "running") <=> (j.worker # None)
    /\ (j.worker = None) => (j.expires = 0)
    /\ (j.status = "completed") <=> j.completed
    /\ (j.status = "cancelled") <=> j.cancelled

RunKeys == Ids \X (1..MaxAttempts)
Run == [status : {"absent", "running", "succeeded", "failed"},
        error  : BOOLEAN,                 \* error_code is set
        focus  : SUBSET Ids]
NoRun == [status |-> "absent", error |-> FALSE, focus |-> {}]

\* Mutant: the result state of a run is not checked.
RunChecksNothing(r) == r.status \in {"absent", "running", "succeeded", "failed"}

(* ck_detection_runs_result_state. *)
RunChecks(r) ==
    /\ r.status = "succeeded" => ~r.error
    /\ r.status = "failed" => r.error

Unleased(j, status) == [j EXCEPT !.status = status, !.worker = None, !.expires = 0]

-----------------------------------------------------------------------------
(* The listener: MessageRepository.save.  A second delivery of a message finds
   its id and changes nothing, so it is no step here. *)

\* Mutant: a job that waits for its next attempt takes messages again.
CoalescibleAgain(at) == {j \in Ids : job[j].status = "queued" /\ job[j].ready > at}

Coalescible(at) ==
    {j \in Ids : job[j].status = "queued" /\ job[j].attempt = 0 /\ job[j].ready > at}

\* Mutant: the trigger follows the order of arrival.
LatestArrived(msgs, trigger, m) == m

(* The trigger never moves backwards in the conversation. *)
LatestTrigger(msgs, trigger, m) ==
    IF AtOrBefore(msgs, trigger, m) THEN m ELSE trigger

Coalesced(j, msgs, m) ==
    [j EXCEPT !.trigger = LatestTrigger(msgs, @, m),
              !.ready = now + Debounce,
              !.batch = @ \cup {m}]

Created(m) ==
    [NoJob EXCEPT !.status = "queued", !.trigger = m, !.since = now,
                  !.ready = now + Debounce, !.batch = {m}]

(* Detection is queued in the transaction that saves the message. *)
Enqueue(msgs, m) ==
    LET pending == Coalescible(now)
    IN  IF pending = {}
        THEN job' = [job EXCEPT ![m] = Created(m)]
        ELSE \E j \in pending :
                /\ \A i \in pending :
                      job[i].ready < job[j].ready \/ (job[i].ready = job[j].ready /\ i <= j)
                /\ job' = [job EXCEPT ![j] = Coalesced(@, msgs, m)]

Save(m) ==
    /\ message[m].kind = "none"
    /\ \A n \in Ids : n < m => message[n].kind # "none"
    /\ \E created \in Instants, size \in Sizes, kind \in MessageKinds \ {"none"} :
          LET msgs == [message EXCEPT ![m] = [created |-> created, received |-> now,
                                              size |-> size, kind |-> kind]]
          IN  /\ kind \in {"chat"} \cup Operations
              /\ message' = msgs
              /\ IF kind = "chat" THEN Enqueue(msgs, m) ELSE UNCHANGED job
    /\ UNCHANGED <<now, run, materialized, pc, process, lease, request>>

-----------------------------------------------------------------------------
(* _claim: recover the expired leases, then take the best queued job. *)

Expired(j, at) == j.status = "running" /\ j.expires <= at

RecoveredJob(j, at) ==
    IF Expired(j, at)
    THEN [Unleased(j, IF j.attempt >= MaxAttempts THEN "dead" ELSE "queued")
             EXCEPT !.ready = at]
    ELSE j

\* Mutant: a recovered run fails without an error code.
RunsFailedSilently(at) ==
    [r \in RunKeys |-> IF Expired(job[r[1]], at) /\ run[r].status = "running"
                       THEN [run[r] EXCEPT !.status = "failed"]
                       ELSE run[r]]

\* Mutant: recovery leaves the runs of the lost worker running.
RunsLeftRunning(at) == run

RecoveredRuns(at) ==
    [r \in RunKeys |-> IF Expired(job[r[1]], at) /\ run[r].status = "running"
                       THEN [run[r] EXCEPT !.status = "failed", !.error = TRUE]
                       ELSE run[r]]

\* Mutant: only first attempts are ready.
ReadyOnce(jobs, at) ==
    {j \in Ids : jobs[j].status = "queued" /\ jobs[j].ready <= at /\ jobs[j].attempt = 0}

Ready(jobs, at) ==
    {j \in Ids : /\ jobs[j].status = "queued"
                 /\ jobs[j].ready <= at
                 /\ jobs[j].attempt < MaxAttempts}

(* Every job has priority 0: the earliest available, then the oldest. *)
First(jobs, ready, j) ==
    \A i \in ready : jobs[j].ready < jobs[i].ready \/ (jobs[j].ready = jobs[i].ready /\ j <= i)

WorkerId(w) == <<w, process[w]>>

Held(j, attempt, trigger) ==
    [job |-> j, attempt |-> attempt, trigger |-> trigger, focus |-> {}, retryAt |-> 0]
NoLease == Held(None, 0, None)

TakenJob(j, id, at) ==
    [j EXCEPT !.status = "running", !.attempt = @ + 1,
              !.worker = id, !.expires = at + LeaseSeconds]

Take(w, jobs, j) ==
    /\ job' = [jobs EXCEPT ![j] = TakenJob(@, WorkerId(w), now)]
    /\ lease' = [lease EXCEPT ![w] = Held(j, jobs[j].attempt + 1, jobs[j].trigger)]
    /\ pc' = [pc EXCEPT ![w] = "claimed"]
    /\ UNCHANGED process

Claim(w) ==
    /\ pc[w] = "idle"
    /\ run' = RecoveredRuns(now)
    /\ LET jobs == [j \in Ids |-> RecoveredJob(job[j], now)]
           ready == Ready(jobs, now)
       IN  \/ ready = {} /\ job' = jobs /\ UNCHANGED workerVars
           \/ \E j \in ready : First(jobs, ready, j) /\ Take(w, jobs, j)
    /\ UNCHANGED <<now, message, materialized, request>>

(* claim_job, of the command that processes one given job. *)
ClaimJob(w, j) ==
    /\ "targeted" \in Operations
    /\ pc[w] = "idle"
    /\ run' = RecoveredRuns(now)
    /\ LET jobs == [i \in Ids |-> RecoveredJob(job[i], now)]
       IN  \/ j \notin Ready(jobs, now) /\ job' = jobs /\ UNCHANGED workerVars
           \/ j \in Ready(jobs, now) /\ Take(w, jobs, j)
    /\ UNCHANGED <<now, message, materialized, request>>

-----------------------------------------------------------------------------
(* The worker process: DetectionWorker.run_once after the claim. *)

Goto(w, place) == pc' = [pc EXCEPT ![w] = place] /\ UNCHANGED <<process, lease>>

(* run_once returns or the process ends: either way the lease is forgotten. *)
Forget(w, place) ==
    /\ pc' = [pc EXCEPT ![w] = place]
    /\ lease' = [lease EXCEPT ![w] = NoLease]
    /\ UNCHANGED process

(* _require_owned_job, with the clock read just before. *)
Owns(w) ==
    LET j == job[lease[w].job]
    IN  /\ j.status = "running"
        /\ j.worker = WorkerId(w)
        /\ j.attempt = lease[w].attempt
        /\ j.expires > now

RunKey(w) == <<lease[w].job, lease[w].attempt>>

(* The job's row and the run's row as the queue reads them before it writes. *)
OwnsRun(w) == Owns(w) /\ run[RunKey(w)].status = "running"

(* The context is built and start_run reads the job.  Nothing the two read can
   change from one to the other except that messages arrive or the lease ends,
   which is a later Prepare or a Crash.  A context that cannot be built is still
   recorded, with the trigger as its focus. *)
Prepare(w) ==
    /\ pc[w] = "claimed"
    /\ \/ ~Owns(w) /\ Forget(w, "down")
       \/ /\ Owns(w)
          /\ \/ /\ lease' = [lease EXCEPT ![w].focus =
                       Focus(message, lease[w].trigger, job[lease[w].job].since)]
                /\ pc' = [pc EXCEPT ![w] = "starting"]
             \/ /\ lease' = [lease EXCEPT ![w].focus = {lease[w].trigger}]
                /\ pc' = [pc EXCEPT ![w] = "spoiled"]
          /\ UNCHANGED process
    /\ UNCHANGED <<now, message, job, run, materialized, request>>

(* start_run inserts the run, whatever became of the job in between. *)
StartRun(w) ==
    /\ pc[w] \in {"starting", "spoiled"}
    /\ run' = [run EXCEPT ![RunKey(w)] =
                  [status |-> "running", error |-> FALSE, focus |-> lease[w].focus]]
    /\ Goto(w, IF pc[w] = "starting" THEN "model" ELSE "failed")
    /\ UNCHANGED <<now, message, job, materialized, request>>

(* detect_batch, one call of the model service with its retries. *)
ModelAnswers(w) ==
    /\ pc[w] = "model"
    /\ Goto(w, "answered")
    /\ UNCHANGED <<now, message, job, run, materialized, request>>

(* ModelProviderError, or KeyboardInterrupt: then Crash follows. *)
ModelFails(w) ==
    /\ pc[w] = "model"
    /\ Goto(w, "failed")
    /\ UNCHANGED <<now, message, job, run, materialized, request>>

(* A lost lease is no error run_once handles: it ends the process. *)
CompleteReads(w) ==
    /\ pc[w] = "answered"
    /\ \/ OwnsRun(w) /\ Goto(w, "completing")
       \/ ~OwnsRun(w) /\ Forget(w, "down")
    /\ UNCHANGED <<now, message, job, run, materialized, request>>

(* The UPDATEs by primary key write the columns that differ from what was read:
   attempt_count, cancelled_at and an error_code that was NULL are left alone. *)
SucceededRun(w) == [run[RunKey(w)] EXCEPT !.status = "succeeded"]
CompletedJob(w) == [Unleased(job[lease[w].job], "completed") EXCEPT !.completed = TRUE]

CompleteWrites(w) ==
    /\ pc[w] = "completing"
    /\ LET checks == RunChecks(SucceededRun(w)) /\ JobChecks(CompletedJob(w))
       IN  \/ /\ checks
              /\ job' = [job EXCEPT ![lease[w].job] = CompletedJob(w)]
              /\ run' = [run EXCEPT ![RunKey(w)] = SucceededRun(w)]
              /\ materialized' = materialized \cup {RunKey(w)}
              /\ Forget(w, "idle")
           \/ ~checks /\ Forget(w, "down") /\ UNCHANGED <<job, run, materialized>>
    /\ UNCHANGED <<now, message, request>>

\* Mutant: the completion is committed before its tasks are made.
TasksFailAfterCommit(w) ==
    /\ pc[w] = "completing"
    /\ RunChecks(SucceededRun(w)) /\ JobChecks(CompletedJob(w))
    /\ job' = [job EXCEPT ![lease[w].job] = CompletedJob(w)]
    /\ run' = [run EXCEPT ![RunKey(w)] = SucceededRun(w)]
    /\ Goto(w, "failed")
    /\ UNCHANGED <<now, message, materialized, request>>

(* TaskMaterializationError: the completion is rolled back with the tasks. *)
TasksFail(w) ==
    /\ pc[w] = "completing"
    /\ RunChecks(SucceededRun(w)) /\ JobChecks(CompletedJob(w))
    /\ Goto(w, "failed")
    /\ UNCHANGED <<now, message, job, run, materialized, request>>

(* _record_failure: min(3600, base * 2^(attempt - 1)) seconds. *)
Backoff(attempt) ==
    LET delay == RetryBase * 2^(attempt - 1)
    IN  IF delay > 3600 THEN 3600 ELSE delay

FailReads(w) ==
    /\ pc[w] = "failed"
    /\ \/ ~OwnsRun(w) /\ Forget(w, "down")
       \/ /\ OwnsRun(w)
          /\ lease' = [lease EXCEPT ![w].retryAt = now + Backoff(lease[w].attempt)]
          /\ pc' = [pc EXCEPT ![w] = "failing"]
          /\ UNCHANGED process
    /\ UNCHANGED <<now, message, job, run, materialized, request>>

FailedRun(w) == [run[RunKey(w)] EXCEPT !.status = "failed", !.error = TRUE]

(* Whether attempts are left was decided from the row that was read. *)
FailedJob(w) ==
    [Unleased(job[lease[w].job],
              IF lease[w].attempt >= MaxAttempts THEN "dead" ELSE "queued")
        EXCEPT !.ready = lease[w].retryAt]

FailWrites(w) ==
    /\ pc[w] = "failing"
    /\ LET checks == RunChecks(FailedRun(w)) /\ JobChecks(FailedJob(w))
       IN  \/ /\ checks
              /\ job' = [job EXCEPT ![lease[w].job] = FailedJob(w)]
              /\ run' = [run EXCEPT ![RunKey(w)] = FailedRun(w)]
              /\ Forget(w, "idle")
           \/ ~checks /\ Forget(w, "down") /\ UNCHANGED <<job, run>>
    /\ UNCHANGED <<now, message, materialized, request>>

(* The process dies wherever it is; its supervisor starts another. *)
Crash(w) ==
    /\ pc[w] # "down"
    /\ Forget(w, "down")
    /\ UNCHANGED <<now, message, job, run, materialized, request>>

Restart(w) ==
    /\ pc[w] = "down" /\ process[w] < MaxRuns
    /\ pc' = [pc EXCEPT ![w] = "idle"]
    /\ process' = [process EXCEPT ![w] = @ + 1]
    /\ UNCHANGED <<now, message, job, run, materialized, lease, request>>

Work(w) ==
    \/ Claim(w) \/ Prepare(w) \/ StartRun(w) \/ ModelAnswers(w) \/ ModelFails(w)
    \/ CompleteReads(w) \/ CompleteWrites(w) \/ TasksFail(w)
    \/ FailReads(w) \/ FailWrites(w)

WorkerStep(w) == Work(w) \/ (\E j \in Ids : ClaimJob(w, j)) \/ Crash(w) \/ Restart(w)

-----------------------------------------------------------------------------
(* The operator's command: cancel_jobs reads the jobs and refuses the request
   unless each is queued or was cancelled before, then cancels those still queued
   and reports those it had found queued. *)

CancelReads ==
    /\ "cancel" \in Operations
    /\ request.queued = {}
    /\ \E asked \in (SUBSET Ids) \ {{}} :
          /\ \A j \in asked : job[j].status \in {"queued", "cancelled"}
          /\ request' = [request EXCEPT
                            !.asked = asked,
                            !.queued = {j \in asked : job[j].status = "queued"}]
    /\ UNCHANGED <<now, message, job, run, materialized, pc, process, lease>>

CancelWrites ==
    /\ request.queued # {}
    /\ job' = [j \in Ids |->
                  IF j \in request.queued /\ job[j].status = "queued"
                  THEN [Unleased(job[j], "cancelled") EXCEPT !.cancelled = TRUE]
                  ELSE job[j]]
    /\ request' = [request EXCEPT !.queued = {},
                                  !.reported = @ \cup request.asked]
    /\ UNCHANGED <<now, message, run, materialized, pc, process, lease>>

Tick ==
    /\ now' \in {i \in Instants : i > now /\ \A j \in Instants : j <= now \/ j >= i}
    /\ UNCHANGED <<message, job, run, materialized, pc, process, lease, request>>

-----------------------------------------------------------------------------

NoMessage == [created |-> 0, received |-> 0, size |-> 0, kind |-> "none"]

Init ==
    /\ now \in {i \in Instants : \A j \in Instants : i <= j}
    /\ message = [m \in Ids |-> NoMessage]
    /\ job = [j \in Ids |-> NoJob]
    /\ run = [r \in RunKeys |-> NoRun]
    /\ materialized = {}
    /\ pc = [w \in Workers |-> "idle"]
    /\ process = [w \in Workers |-> 1]
    /\ lease = [w \in Workers |-> NoLease]
    /\ request = [asked |-> {}, queued |-> {}, reported |-> {}]

Next ==
    \/ \E m \in Ids : Save(m)
    \/ \E w \in Workers : WorkerStep(w)
    \/ CancelReads \/ CancelWrites \/ Tick

Spec == Init /\ [][Next]_vars

(* Time passes; a live process goes on, because the call of the model service has
   a timeout and SQLite a busy_timeout; the supervisor restarts a process that
   ended while the bound allows it. *)
Fairness ==
    /\ WF_vars(Tick)
    /\ \A w \in Workers : WF_vars(Work(w)) /\ WF_vars(Restart(w))

FairSpec == Spec /\ Fairness

-----------------------------------------------------------------------------
(* Properties. *)

WorkerPlaces == {"idle", "claimed", "starting", "spoiled", "model", "answered",
                 "completing", "failed", "failing", "down"}

HeldLease == [job : Ids \cup {None}, attempt : 0..MaxAttempts,
              trigger : Ids \cup {None}, focus : SUBSET Ids, retryAt : Int]

(* The type invariant: among it, that every committed row satisfies its CHECK
   constraints and that a process at work holds a lease on an attempt. *)
TypeOK ==
    /\ now \in Instants
    /\ message \in [Ids -> Message \cup {NoMessage}]
    /\ job \in [Ids -> Job] /\ \A j \in Ids : JobChecks(job[j])
    /\ run \in [RunKeys -> Run] /\ \A r \in RunKeys : RunChecks(run[r])
    /\ materialized \subseteq RunKeys
    /\ pc \in [Workers -> WorkerPlaces]
    /\ process \in [Workers -> 1..MaxRuns]
    /\ lease \in [Workers -> HeldLease]
    /\ \A w \in Workers : IF pc[w] \in {"idle", "down"} THEN lease[w] = NoLease
                                                     ELSE RunKey(w) \in RunKeys
    /\ request \in [asked : SUBSET Ids, queued : SUBSET Ids, reported : SUBSET Ids]

(* The tasks of a detection are made exactly when it succeeds: a completed job has
   a run that succeeded, and a run is materialized if and only if it succeeded,
   whatever fails, dies or writes late. *)
CompletedIsMaterialized ==
    /\ \A j \in Ids : job[j].status = "completed" <=>
           \E a \in 1..MaxAttempts : run[<<j, a>>].status = "succeeded"
    /\ \A r \in RunKeys : run[r].status = "succeeded" <=> r \in materialized

(* A verdict is final: a completed or cancelled job, and a run that succeeded or
   failed, stay what they are; in particular an answer that arrives after its
   lease was recovered makes no tasks. *)
VerdictIsFinal ==
    [][/\ \A j \in Ids : job[j].status \in {"completed", "cancelled"} => job'[j] = job[j]
       /\ \A r \in RunKeys : run[r].status \in {"succeeded", "failed"} =>
              run'[r] = run[r]]_vars

(* Every message that was coalesced into a batch is in the focus of each attempt
   at it, however the messages arrived out of order and whatever arrived since,
   except where the context is cut: after ContextLimit newer messages, before a
   silence, or for the size of what follows. *)
CutOff(m, trigger) ==
    LET window == Window(message, trigger)
    IN  \/ Cardinality({n \in Human(message) :
                           Before(message, m, n) /\ AtOrBefore(message, n, trigger)})
               >= ContextLimit
        \/ ~Connected(message, window, m)
        \/ ~Fits(message, window, m)

BatchIsAnalysed ==
    [][\A w \in Workers : pc[w] = "claimed" /\ pc'[w] = "starting" =>
          \A m \in job[lease[w].job].batch :
              m \in lease'[w].focus \/ CutOff(m, lease[w].trigger)]_vars

(* One process at a time: a run is running only while its job is leased for that
   attempt, so that no run is left without an outcome when its process is lost; and
   a job that waits has an attempt left, so that it can be claimed again. *)
RunningRunIsLeased ==
    \A j \in Ids :
        /\ job[j].status = "queued" => job[j].attempt < MaxAttempts
        /\ \A a \in 1..MaxAttempts : run[<<j, a>>].status = "running" =>
              job[j].status = "running" /\ job[j].attempt = a

(* Every job is settled in the end, although processes crash and leases expire.
   The exceptions are those of the bounds. *)
BeyondBounds(j) ==
    \/ \A i \in Instants : j.status = "queued" /\ j.ready > i
    \/ \A i \in Instants : j.status = "running" /\ j.expires > i
    \/ \A w \in Workers : pc[w] = "down" /\ process[w] = MaxRuns

JobSettles ==
    \A j \in Ids :
        job[j].status = "queued" ~>
            job[j].status \in {"completed", "dead", "cancelled"} \/ BeyondBounds(job[j])

-----------------------------------------------------------------------------
(* What of a job the chat can tell: whether its batch still takes messages and
   what became of it. *)
BatchState(j) ==
    CASE j.status = "absent"                       -> "none"
      [] j.status = "queued" /\ j.attempt = 0      -> "open"
      [] j.status = "queued" /\ j.attempt # 0      -> "claimed"
      [] j.status = "running"                      -> "claimed"
      [] j.status = "completed"                    -> "done"
      [] j.status \in {"dead", "cancelled"}        -> j.status

Batches == INSTANCE MessageBatches WITH
    Messages <- Ids, Attempts <- 1..MaxAttempts,
    batch <- [j \in Ids |-> job[j].batch],
    state <- [j \in Ids |-> BatchState(job[j])],
    made <- materialized

(* One process at a time: the queue implements the abstract specification.  A
   message is in one batch for good, a batch that was claimed gets no more of them,
   and tasks are made of it at most once, when it is completed, although attempts
   are repeated after crashes, lost leases and failures. *)
ImplementsBatches == Batches!Spec
=============================================================================
