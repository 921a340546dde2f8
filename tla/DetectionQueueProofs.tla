------------------------ MODULE DetectionQueueProofs ------------------------
(***************************************************************************)
(* Proofs about DetectionQueue, for every value of its constants.          *)
(***************************************************************************)
EXTENDS DetectionQueue, FiniteSetTheorems, TLAPS

-----------------------------------------------------------------------------
(* The operators on one row: each returns a row of the table, and which of its
   fields it changes. *)

JobStatuses == {"absent", "queued", "running", "completed", "dead", "cancelled"}

(* Setting one field to a value of its column gives a row. *)
LEMMA SetField ==
    ASSUME NEW r \in Job
    PROVE  /\ \A x \in JobStatuses : [r EXCEPT !.status = x] \in Job
           /\ \A x \in Ids : [r EXCEPT !.trigger = x] \in Job
           /\ \A x \in 0..MaxAttempts : [r EXCEPT !.attempt = x] \in Job
           /\ \A x \in Int : [r EXCEPT !.ready = x] \in Job
           /\ \A x \in WorkerIds \cup {None} : [r EXCEPT !.worker = x] \in Job
           /\ \A x \in Int : [r EXCEPT !.expires = x] \in Job
           /\ \A x \in BOOLEAN : [r EXCEPT !.completed = x] \in Job
           /\ \A x \in BOOLEAN : [r EXCEPT !.cancelled = x] \in Job
           /\ \A x \in SUBSET Ids : [r EXCEPT !.batch = x] \in Job
  BY DEF Job, JobStatuses

LEMMA UnleasedRow ==
    ASSUME NEW r \in Job, NEW status \in JobStatuses
    PROVE  LET s == Unleased(r, status)
           IN  /\ s \in Job /\ s.status = status
               /\ s.worker = None /\ s.expires = 0
               /\ s.attempt = r.attempt /\ s.trigger = r.trigger
               /\ s.completed = r.completed /\ s.cancelled = r.cancelled
<1>. DEFINE a == [r EXCEPT !.status = status]
            b == [a EXCEPT !.worker = None]
<1>1. a \in Job
  BY SetField
<1>2. [a EXCEPT !.worker = None] \in Job
  <2>. HIDE DEF a
  <2>. QED  BY <1>1, SetField
<1>3. [b EXCEPT !.expires = 0] \in Job
  <2>1. b \in Job
    BY <1>2
  <2>. HIDE DEF b
  <2>. QED  BY <2>1, SetField
<1>4. Unleased(r, status) = [b EXCEPT !.expires = 0]
  BY DEF Unleased, Job
<1>5. LET s == Unleased(r, status)
      IN  /\ s.status = status /\ s.worker = None /\ s.expires = 0
          /\ s.attempt = r.attempt /\ s.trigger = r.trigger
          /\ s.completed = r.completed /\ s.cancelled = r.cancelled
  BY DEF Unleased, Job
<1>. QED
  BY <1>3, <1>4, <1>5

(* A job given back: queued or dead, available at an instant. *)
LEMMA ReturnedRow ==
    ASSUME NEW r \in Job, NEW status \in JobStatuses, NEW at \in Int
    PROVE  LET s == [Unleased(r, status) EXCEPT !.ready = at]
           IN  /\ s \in Job /\ s.status = status
               /\ s.worker = None /\ s.expires = 0
               /\ s.attempt = r.attempt /\ s.trigger = r.trigger
               /\ s.completed = r.completed /\ s.cancelled = r.cancelled
<1>. DEFINE u == Unleased(r, status)
<1>1. u \in Job
  BY UnleasedRow
<1>2. /\ u.status = status /\ u.worker = None /\ u.expires = 0
      /\ u.attempt = r.attempt /\ u.trigger = r.trigger
      /\ u.completed = r.completed /\ u.cancelled = r.cancelled
  BY UnleasedRow
<1>. HIDE DEF u
<1>3. [u EXCEPT !.ready = at] \in Job
  BY <1>1, SetField
<1>4. LET s == [u EXCEPT !.ready = at]
      IN  /\ s.status = u.status /\ s.worker = u.worker /\ s.expires = u.expires
          /\ s.attempt = u.attempt /\ s.trigger = u.trigger
          /\ s.completed = u.completed /\ s.cancelled = u.cancelled
  BY <1>1 DEF Job
<1>. QED
  BY <1>2, <1>3, <1>4 DEF u

LEMMA TakenRow ==
    ASSUME NEW r \in Job, NEW id \in WorkerIds, NEW at \in Int,
           r.attempt < MaxAttempts
    PROVE  LET s == TakenJob(r, id, at)
           IN  /\ s \in Job /\ s.status = "running"
               /\ s.attempt = r.attempt + 1 /\ s.worker = id /\ s.trigger = r.trigger
               /\ s.completed = r.completed /\ s.cancelled = r.cancelled
<1>. DEFINE a == [r EXCEPT !.status = "running"]
            b == [a EXCEPT !.attempt = r.attempt + 1]
            c == [b EXCEPT !.worker = id]
<1>0. r.attempt + 1 \in 0..MaxAttempts /\ at + LeaseSeconds \in Int
  BY LimitAssumption DEF LimitAssumption, Job
<1>1. a \in Job
  BY SetField DEF JobStatuses
<1>2. [a EXCEPT !.attempt = r.attempt + 1] \in Job
  <2>. HIDE DEF a
  <2>. QED  BY <1>0, <1>1, SetField
<1>3. [b EXCEPT !.worker = id] \in Job
  <2>1. b \in Job
    BY <1>2
  <2>. HIDE DEF b
  <2>. QED  BY <2>1, SetField
<1>4. [c EXCEPT !.expires = at + LeaseSeconds] \in Job
  <2>1. c \in Job
    BY <1>3
  <2>. HIDE DEF c
  <2>. QED  BY <1>0, <2>1, SetField
<1>5. TakenJob(r, id, at) = [c EXCEPT !.expires = at + LeaseSeconds]
  BY DEF TakenJob, Job
<1>6. LET s == TakenJob(r, id, at)
      IN  /\ s.status = "running" /\ s.attempt = r.attempt + 1
          /\ s.worker = id /\ s.trigger = r.trigger
          /\ s.completed = r.completed /\ s.cancelled = r.cancelled
  BY DEF TakenJob, Job
<1>. QED
  BY <1>4, <1>5, <1>6

-----------------------------------------------------------------------------
(* Rows that satisfy the constraints of their table. *)

GoodJob(j) ==
    /\ j \in Job /\ JobChecks(j)
    /\ j = NoJob \/ (j.status # "absent" /\ j.trigger \in Ids)

GoodRun(r) == r \in Run /\ RunChecks(r)

Jobs(rows) == rows \in [Ids -> Job] /\ \A j \in Ids : GoodJob(rows[j])
Runs(rows) == rows \in [RunKeys -> Run] /\ \A r \in RunKeys : GoodRun(rows[r])

LEMMA NoJobGood == GoodJob(NoJob)
  BY LimitAssumption, NullAssumption
     DEF LimitAssumption, NullAssumption, GoodJob, NoJob, Job, JobChecks

(* Recovery gives back running jobs only. *)
LEMMA RecoveredJobGood ==
    ASSUME NEW j, GoodJob(j), NEW at \in Int
    PROVE  LET s == RecoveredJob(j, at)
           IN  /\ GoodJob(s) /\ s.attempt = j.attempt
               /\ s = j \/ (j.status = "running" /\ s.status \in {"queued", "dead"})
<1>1. CASE ~Expired(j, at)
  BY <1>1 DEF RecoveredJob
<1>2. CASE Expired(j, at)
  <2>. DEFINE status == IF j.attempt >= MaxAttempts THEN "dead" ELSE "queued"
              s == [Unleased(j, status) EXCEPT !.ready = at]
  <2>1. status \in JobStatuses /\ status \in {"queued", "dead"}
    BY DEF JobStatuses
  <2>2. j.status = "running" /\ j \in Job
    BY <1>2 DEF Expired, GoodJob
  <2>3. RecoveredJob(j, at) = s
    BY <1>2 DEF RecoveredJob
  <2>. HIDE DEF status
  <2>4. /\ s \in Job /\ s.status = status /\ s.worker = None /\ s.expires = 0
        /\ s.attempt = j.attempt /\ s.trigger = j.trigger
        /\ s.completed = j.completed /\ s.cancelled = j.cancelled
    BY <2>1, <2>2, ReturnedRow
  <2>. HIDE DEF s
  <2>5. GoodJob(s)
    BY <2>1, <2>2, <2>4 DEF GoodJob, JobChecks, NoJob
  <2>. QED
    BY <2>1, <2>2, <2>3, <2>4, <2>5
<1>. QED
  BY <1>1, <1>2

LEMMA RecoveredRunGood ==
    ASSUME Runs(run), NEW at
    PROVE  /\ Runs(RecoveredRuns(at))
           /\ \A r \in RunKeys :
                 \/ RecoveredRuns(at)[r] = run[r]
                 \/ run[r].status = "running" /\ RecoveredRuns(at)[r].status = "failed"
<1>. DEFINE rows == RecoveredRuns(at)
<1>1. ASSUME NEW r \in RunKeys
      PROVE  /\ GoodRun(rows[r])
             /\ \/ rows[r] = run[r]
                \/ run[r].status = "running" /\ rows[r].status = "failed"
  <2>. DEFINE failed == [run[r] EXCEPT !.status = "failed", !.error = TRUE]
  <2>1. GoodRun(run[r])
    BY DEF Runs
  <2>2. GoodRun(failed) /\ failed.status = "failed"
    BY <2>1 DEF GoodRun, Run, RunChecks
  <2>3. rows[r] = IF Expired(job[r[1]], at) /\ run[r].status = "running"
                  THEN failed ELSE run[r]
    BY DEF RecoveredRuns
  <2>. HIDE DEF failed, rows
  <2>. QED
    BY <2>1, <2>2, <2>3
<1>2. rows \in [RunKeys -> Run]
  BY <1>1 DEF RecoveredRuns, GoodRun
<1>. HIDE DEF rows
<1>. QED
  BY <1>1, <1>2 DEF Runs, rows

-----------------------------------------------------------------------------
(* The inductive invariant.  The two conjuncts a reader cares about do not
   survive a step by themselves: StartRun overwrites the row of its run and Save
   that of its job, so the invariant says that these rows are new. *)

Busy(w) == pc[w] \notin {"idle", "down"}

(* A job exists only once its message does, and it has a trigger. *)
JobsFollowMessages ==
    \A j \in Ids : /\ message[j].kind = "none" => job[j] = NoJob
                   /\ \/ job[j] = NoJob
                      \/ job[j].status # "absent" /\ job[j].trigger \in Ids

(* A run belongs to an attempt its job has counted. *)
RunsAreCounted ==
    \A r \in RunKeys : run[r].status # "absent" => r[2] <= job[r[1]].attempt

Starting == {"claimed", "starting", "spoiled"}

(* So does a lease, whether or not it is still good; before start_run, its run
   does not exist. *)
LeasesAreCounted ==
    \A w \in Workers : Busy(w) =>
        /\ lease[w].trigger \in Ids
        /\ lease[w].attempt <= job[lease[w].job].attempt
        /\ pc[w] \in Starting => run[RunKey(w)].status = "absent"

(* No two processes ever hold the same attempt. *)
LeasesDiffer ==
    \A v, w \in Workers : v # w /\ Busy(v) /\ Busy(w) => RunKey(v) # RunKey(w)

Inv ==
    /\ TypeOK
    /\ CompletedIsMaterialized
    /\ JobsFollowMessages
    /\ RunsAreCounted
    /\ LeasesAreCounted
    /\ LeasesDiffer

LEMMA TypeOKRows ==
    ASSUME Inv
    PROVE  Jobs(job) /\ Runs(run) /\ now \in Int
  BY ClockAssumption
     DEF ClockAssumption, Inv, TypeOK, Jobs, GoodJob, Runs, GoodRun, JobsFollowMessages

LEMMA BusyLease ==
    ASSUME Inv, NEW w \in Workers, Busy(w)
    PROVE  /\ lease[w] \in HeldLease
           /\ lease[w].job \in Ids /\ lease[w].attempt \in 1..MaxAttempts
           /\ lease[w].trigger \in Ids /\ RunKey(w) \in RunKeys
           /\ RunKey(w)[1] = lease[w].job /\ RunKey(w)[2] = lease[w].attempt
           /\ lease[w].attempt <= job[lease[w].job].attempt
  BY DEF Inv, TypeOK, Busy, RunKey, RunKeys, LeasesAreCounted

LEMMA NoLeaseType == NoLease \in HeldLease
  BY LimitAssumption DEF LimitAssumption, NoLease, Held, HeldLease

-----------------------------------------------------------------------------
(* What a step leaves of the verdicts: none is taken back, and unless it is a
   completion none is added. *)

KeepsVerdicts ==
    /\ \A j \in Ids : job[j].status \in {"completed", "cancelled"} => job'[j] = job[j]
    /\ \A r \in RunKeys : run[r].status \in {"succeeded", "failed"} => run'[r] = run[r]

AddsNone ==
    /\ materialized' = materialized
    /\ \A j \in Ids : job'[j].status = "completed" => job[j].status = "completed"
    /\ \A r \in RunKeys : run'[r].status = "succeeded" => run[r].status = "succeeded"

LEMMA KeyOfRun ==
    ASSUME NEW j \in Ids, NEW a \in 1..MaxAttempts
    PROVE  <<j, a>> \in RunKeys /\ <<j, a>>[1] = j /\ <<j, a>>[2] = a
  BY DEF RunKeys

LEMMA AddsNoneKeeps ==
    ASSUME Inv, KeepsVerdicts, AddsNone
    PROVE  CompletedIsMaterialized'
<1>1. \A j \in Ids : job'[j].status = "completed" <=> job[j].status = "completed"
  BY DEF KeepsVerdicts, AddsNone
<1>2. \A r \in RunKeys : run'[r].status = "succeeded" <=> run[r].status = "succeeded"
  BY DEF KeepsVerdicts, AddsNone
<1>3. ASSUME NEW j \in Ids
      PROVE  (\E a \in 1..MaxAttempts : run[<<j, a>>].status = "succeeded")
         <=> (\E a \in 1..MaxAttempts : run'[<<j, a>>].status = "succeeded")
  BY <1>2, KeyOfRun
<1>. QED
  BY <1>1, <1>2, <1>3 DEF Inv, CompletedIsMaterialized, AddsNone

(* A worker's step: process w goes to place q with l in memory, having written
   well-formed rows.  It holds on to its attempt, has just been given a new one,
   or holds none. *)
LEMMA Stepped ==
    ASSUME Inv, NEW w \in Workers, NEW q \in WorkerPlaces, NEW l \in HeldLease,
           UNCHANGED <<now, message, request>>,
           pc' = [pc EXCEPT ![w] = q], lease' = [lease EXCEPT ![w] = l],
           process' \in [Workers -> 1..MaxRuns],
           materialized' \subseteq RunKeys, CompletedIsMaterialized',
           Jobs(job'), Runs(run'),
           \A j \in Ids : /\ job'[j].attempt >= job[j].attempt
                          /\ job[j] = NoJob => job'[j] = NoJob,
           \A r \in RunKeys :
               run[r].status # run'[r].status =>
                   \/ run[r].status # "absent" /\ run'[r].status # "absent"
                   \/ Busy(w) /\ r = RunKey(w) /\ q \notin Starting,
           IF q \in {"idle", "down"}
           THEN l = NoLease
           ELSE /\ <<l.job, l.attempt>> \in RunKeys /\ l.trigger \in Ids
                /\ l.attempt <= job'[l.job].attempt
                /\ \/ /\ Busy(w) /\ <<l.job, l.attempt>> = RunKey(w)
                      /\ q \in Starting => pc[w] \in Starting
                   \/ q = "claimed" /\ l.attempt > job[l.job].attempt
    PROVE  Inv'
<1>1. /\ pc' \in [Workers -> WorkerPlaces] /\ lease' \in [Workers -> HeldLease]
      /\ pc'[w] = q /\ lease'[w] = l
      /\ \A v \in Workers \ {w} : pc'[v] = pc[v] /\ lease'[v] = lease[v]
  BY DEF Inv, TypeOK
<1>2. TypeOK'
  <2>1. \A v \in Workers : IF pc'[v] \in {"idle", "down"} THEN lease'[v] = NoLease
                                                        ELSE RunKey(v)' \in RunKeys
    BY <1>1 DEF Inv, TypeOK, RunKey
  <2>2. /\ job' \in [Ids -> Job] /\ \A j \in Ids : JobChecks(job'[j])
        /\ run' \in [RunKeys -> Run] /\ \A r \in RunKeys : RunChecks(run'[r])
    BY DEF Jobs, GoodJob, Runs, GoodRun
  <2>. QED
    BY <1>1, <2>1, <2>2 DEF Inv, TypeOK
<1>3. JobsFollowMessages'
  BY DEF Inv, JobsFollowMessages, Jobs, GoodJob
<1>4. \A j \in Ids : job[j].attempt \in Int /\ job'[j].attempt \in Int
                     /\ job'[j].attempt >= job[j].attempt
  BY TypeOKRows DEF Jobs, Job
<1>5. \A v \in Workers : Busy(v) =>
          /\ RunKey(v) \in RunKeys /\ RunKey(v)[1] = lease[v].job
          /\ RunKey(v)[2] = lease[v].attempt
          /\ lease[v].job \in Ids /\ lease[v].attempt \in Int
          /\ lease[v].trigger \in Ids
          /\ lease[v].attempt <= job[lease[v].job].attempt
          /\ pc[v] \in Starting => run[RunKey(v)].status = "absent"
  BY BusyLease DEF Inv, LeasesAreCounted
<1>6. RunsAreCounted'
  <2>. SUFFICES ASSUME NEW r \in RunKeys, run'[r].status # "absent"
                PROVE  r[2] <= job'[r[1]].attempt
    BY DEF RunsAreCounted
  <2>1. r[1] \in Ids /\ r[2] \in Int
    BY DEF RunKeys
  <2>2. CASE run[r].status # "absent"
    BY <1>4, <2>1, <2>2 DEF Inv, RunsAreCounted
  <2>3. CASE Busy(w) /\ r = RunKey(w)
    BY <1>4, <1>5, <2>1, <2>3
  <2>. QED
    BY <2>2, <2>3
<1>7. LeasesAreCounted'
  <2>1. ASSUME NEW v \in Workers, v # w, Busy(v)'
        PROVE  /\ lease'[v].trigger \in Ids
               /\ lease'[v].attempt <= job'[lease'[v].job].attempt
               /\ pc'[v] \in Starting => run'[RunKey(v)'].status = "absent"
    <3>1. Busy(v) /\ lease'[v] = lease[v] /\ pc'[v] = pc[v] /\ RunKey(v)' = RunKey(v)
      BY <1>1, <2>1 DEF Busy, RunKey
    <3>2. Busy(w) => RunKey(v) # RunKey(w)
      BY <2>1, <3>1 DEF Inv, LeasesDiffer
    <3>. QED
      BY <1>4, <1>5, <3>1, <3>2
  <2>2. ASSUME Busy(w)'
        PROVE  /\ lease'[w].trigger \in Ids
               /\ lease'[w].attempt <= job'[lease'[w].job].attempt
               /\ pc'[w] \in Starting => run'[RunKey(w)'].status = "absent"
    <3>1. /\ q \notin {"idle", "down"} /\ RunKey(w)' = <<l.job, l.attempt>>
          /\ lease'[w] = l /\ pc'[w] = q
      BY <1>1, <2>2 DEF Busy, RunKey
    <3>2. CASE /\ Busy(w) /\ <<l.job, l.attempt>> = RunKey(w)
               /\ q \in Starting => pc[w] \in Starting
      BY <1>5, <3>1, <3>2
    <3>3. CASE q = "claimed" /\ l.attempt > job[l.job].attempt
      <4>. DEFINE r == <<l.job, l.attempt>>
      <4>1. r \in RunKeys /\ r[1] = l.job /\ r[2] = l.attempt /\ l.job \in Ids
            /\ l.attempt \in Int
        BY <3>1 DEF RunKeys
      <4>2. run[r].status = "absent"
        BY <1>4, <3>3, <4>1 DEF Inv, RunsAreCounted
      <4>3. run'[r].status = "absent"
        BY <3>3, <4>1, <4>2 DEF Starting
      <4>. QED
        BY <3>1, <4>3
    <3>. QED
      BY <3>1, <3>2, <3>3
  <2>. QED
    BY <2>1, <2>2 DEF LeasesAreCounted
<1>8. LeasesDiffer'
  <2>1. ASSUME NEW v \in Workers, v # w, Busy(v)', Busy(w)'
        PROVE  RunKey(v)' # RunKey(w)'
    <3>1. Busy(v) /\ RunKey(v)' = RunKey(v)
      BY <1>1, <2>1 DEF Busy, RunKey
    <3>2. q \notin {"idle", "down"} /\ RunKey(w)' = <<l.job, l.attempt>>
      BY <1>1, <2>1 DEF Busy, RunKey
    <3>3. CASE Busy(w) /\ <<l.job, l.attempt>> = RunKey(w)
      BY <2>1, <3>1, <3>2, <3>3 DEF Inv, LeasesDiffer
    <3>4. CASE l.attempt > job[l.job].attempt
      <4>1. l.job \in Ids /\ l.attempt \in Int
        BY <3>2 DEF RunKeys
      <4>. QED
        BY <1>4, <1>5, <3>1, <3>2, <3>4, <4>1 DEF RunKey
    <3>. QED
      BY <3>2, <3>3, <3>4
  <2>2. ASSUME NEW u \in Workers, NEW v \in Workers, u # w, v # w, u # v,
               Busy(u)', Busy(v)'
        PROVE  RunKey(u)' # RunKey(v)'
    BY <1>1, <2>2 DEF Busy, RunKey, Inv, LeasesDiffer
  <2>. QED
    BY <2>1, <2>2 DEF LeasesDiffer
<1>. QED
  BY <1>2, <1>3, <1>6, <1>7, <1>8 DEF Inv

(* The same for a step after which the process holds no attempt. *)
LEMMA Released ==
    ASSUME Inv, NEW w \in Workers, NEW q \in {"idle", "down"},
           UNCHANGED <<now, message, request>>,
           pc' = [pc EXCEPT ![w] = q], lease' = [lease EXCEPT ![w] = NoLease],
           process' \in [Workers -> 1..MaxRuns],
           materialized' \subseteq RunKeys, CompletedIsMaterialized',
           Jobs(job'), Runs(run'),
           \A j \in Ids : /\ job'[j].attempt >= job[j].attempt
                          /\ job[j] = NoJob => job'[j] = NoJob,
           \A r \in RunKeys : run[r].status # run'[r].status => Busy(w) /\ r = RunKey(w)
    PROVE  Inv'
<1>1. q \in WorkerPlaces /\ q \notin Starting
  BY DEF WorkerPlaces, Starting
<1>. QED
  BY <1>1, NoLeaseType, Stepped

(* The same for a step that gives it a new attempt. *)
LEMMA Given ==
    ASSUME Inv, NEW w \in Workers, NEW l \in HeldLease,
           UNCHANGED <<now, message, request>>,
           pc' = [pc EXCEPT ![w] = "claimed"], lease' = [lease EXCEPT ![w] = l],
           process' \in [Workers -> 1..MaxRuns],
           materialized' \subseteq RunKeys, CompletedIsMaterialized',
           Jobs(job'), Runs(run'),
           \A j \in Ids : /\ job'[j].attempt >= job[j].attempt
                          /\ job[j] = NoJob => job'[j] = NoJob,
           \A r \in RunKeys :
               run[r].status # run'[r].status =>
                   run[r].status # "absent" /\ run'[r].status # "absent",
           <<l.job, l.attempt>> \in RunKeys, l.trigger \in Ids,
           l.attempt <= job'[l.job].attempt, l.attempt > job[l.job].attempt
    PROVE  Inv'
<1>1. "claimed" \in WorkerPlaces /\ "claimed" \notin {"idle", "down"}
  BY DEF WorkerPlaces
<1>. QED
  BY <1>1, Stepped

-----------------------------------------------------------------------------
(* The steps of a worker that write no row. *)

LEMMA UnchangedRows ==
    ASSUME Inv, UNCHANGED <<job, run, materialized>>
    PROVE  /\ KeepsVerdicts /\ AddsNone /\ CompletedIsMaterialized'
           /\ materialized' \subseteq RunKeys /\ Jobs(job') /\ Runs(run')
           /\ \A j \in Ids : /\ job'[j].attempt >= job[j].attempt
                             /\ job[j] = NoJob => job'[j] = NoJob
           /\ \A r \in RunKeys : run[r].status = run'[r].status
<1>1. Jobs(job) /\ Runs(run)
  BY TypeOKRows
<1>2. \A j \in Ids : job[j].attempt >= job[j].attempt
  BY <1>1 DEF Jobs, Job
<1>. QED
  BY <1>1, <1>2 DEF KeepsVerdicts, AddsNone, Inv, TypeOK, CompletedIsMaterialized, Jobs

(* A process at work goes on, with its attempt still in memory. *)
LEMMA Moved ==
    ASSUME Inv, NEW w \in Workers, Busy(w),
           NEW q \in WorkerPlaces \ {"idle", "down"}, NEW l \in HeldLease,
           pc' = [pc EXCEPT ![w] = q], lease' = [lease EXCEPT ![w] = l],
           l.job = lease[w].job, l.attempt = lease[w].attempt,
           l.trigger = lease[w].trigger,
           q \in Starting => pc[w] \in Starting,
           UNCHANGED <<now, message, job, run, materialized, process, request>>
    PROVE  Inv'
<1>1. /\ <<l.job, l.attempt>> = RunKey(w) /\ RunKey(w) \in RunKeys
      /\ l.trigger \in Ids /\ l.attempt <= job[l.job].attempt
      /\ l.job \in Ids
  BY BusyLease DEF RunKey
<1>2. process' \in [Workers -> 1..MaxRuns]
  BY DEF Inv, TypeOK
<1>3. /\ CompletedIsMaterialized' /\ materialized' \subseteq RunKeys
      /\ Jobs(job') /\ Runs(run')
      /\ \A j \in Ids : /\ job'[j].attempt >= job[j].attempt
                        /\ job[j] = NoJob => job'[j] = NoJob
      /\ \A r \in RunKeys : run[r].status = run'[r].status
  BY UnchangedRows
<1>4. l.attempt <= job'[l.job].attempt
  BY <1>1
<1>. QED
  BY <1>1, <1>2, <1>3, <1>4, Stepped

LEMMA GotoStep ==
    ASSUME Inv, NEW w \in Workers, Busy(w),
           NEW q \in WorkerPlaces \ ({"idle", "down"} \cup Starting), Goto(w, q),
           UNCHANGED <<now, message, job, run, materialized, request>>
    PROVE  Inv'
<1>1. lease[w] \in HeldLease /\ lease' = [lease EXCEPT ![w] = lease[w]]
  BY DEF Goto, Inv, TypeOK
<1>. QED
  BY <1>1, Moved DEF Goto

LEMMA ForgetStep ==
    ASSUME Inv, NEW w \in Workers, NEW q \in {"idle", "down"}, Forget(w, q),
           UNCHANGED <<now, message, job, run, materialized, request>>
    PROVE  Inv'
<1>1. process' \in [Workers -> 1..MaxRuns] /\ q \in WorkerPlaces
  BY DEF Forget, Inv, TypeOK, WorkerPlaces
<1>2. /\ CompletedIsMaterialized' /\ materialized' \subseteq RunKeys
      /\ Jobs(job') /\ Runs(run')
      /\ \A j \in Ids : /\ job'[j].attempt >= job[j].attempt
                        /\ job[j] = NoJob => job'[j] = NoJob
      /\ \A r \in RunKeys : run[r].status = run'[r].status
  BY UnchangedRows
<1>. QED
  BY <1>1, <1>2, NoLeaseType, Stepped DEF Forget

LEMMA FocusOfIds ==
    ASSUME Inv, NEW trigger, NEW since
    PROVE  Focus(message, trigger, since) \subseteq Ids
<1>1. DOMAIN message = Ids
  BY DEF Inv, TypeOK
<1>. QED
  BY <1>1 DEF Focus, Context, Window, Human

LEMMA PrepareStep ==
    ASSUME Inv, NEW w \in Workers, Prepare(w)
    PROVE  Inv'
<1>1. Busy(w) /\ pc[w] \in Starting
  BY DEF Prepare, Busy, Starting
<1>2. CASE Forget(w, "down")
  BY <1>2, ForgetStep DEF Prepare
<1>3. ASSUME NEW focus \in SUBSET Ids, NEW q \in {"starting", "spoiled"},
             lease' = [lease EXCEPT ![w].focus = focus],
             pc' = [pc EXCEPT ![w] = q],
             UNCHANGED <<now, message, job, run, materialized, process, request>>
      PROVE  Inv'
  <2>. DEFINE l == [lease[w] EXCEPT !.focus = focus]
  <2>1. /\ l \in HeldLease /\ l.job = lease[w].job /\ l.attempt = lease[w].attempt
        /\ l.trigger = lease[w].trigger
    BY <1>1, BusyLease DEF HeldLease
  <2>2. lease' = [lease EXCEPT ![w] = l]
    BY <1>3 DEF Inv, TypeOK
  <2>3. q \in WorkerPlaces \ {"idle", "down"}
    BY DEF WorkerPlaces
  <2>. HIDE DEF l
  <2>. QED
    BY <1>1, <1>3, <2>1, <2>2, <2>3, Moved
<1>4. CASE ~Forget(w, "down")
  <2>1. /\ {lease[w].trigger} \in SUBSET Ids
        /\ Focus(message, lease[w].trigger, job[lease[w].job].since) \in SUBSET Ids
    BY <1>1, BusyLease, FocusOfIds
  <2>2. UNCHANGED <<now, message, job, run, materialized, process, request>>
    BY <1>4 DEF Prepare
  <2>3. \E focus \in SUBSET Ids, q \in {"starting", "spoiled"} :
          /\ lease' = [lease EXCEPT ![w].focus = focus]
          /\ pc' = [pc EXCEPT ![w] = q]
    BY <1>4, <2>1 DEF Prepare
  <2>. QED
    BY <1>3, <2>2, <2>3
<1>. QED
  BY <1>2, <1>4

LEMMA ModelStep ==
    ASSUME Inv, NEW w \in Workers,
           ModelAnswers(w) \/ ModelFails(w) \/ CompleteReads(w) \/ TasksFail(w)
    PROVE  Inv'
<1>1. Busy(w) /\ UNCHANGED <<now, message, job, run, materialized, request>>
  BY DEF ModelAnswers, ModelFails, CompleteReads, TasksFail, Busy
<1>2. \/ Forget(w, "down")
      \/ Goto(w, "answered") \/ Goto(w, "failed") \/ Goto(w, "completing")
  BY DEF ModelAnswers, ModelFails, CompleteReads, TasksFail
<1>3. {"answered", "failed", "completing"}
          \subseteq WorkerPlaces \ ({"idle", "down"} \cup Starting)
  BY DEF WorkerPlaces, Starting
<1>. QED
  BY <1>1, <1>2, <1>3, GotoStep, ForgetStep

LEMMA BackoffIsInt ==
    ASSUME NEW attempt \in 1..MaxAttempts
    PROVE  Backoff(attempt) \in Int
  BY LimitAssumption DEF LimitAssumption, Backoff

LEMMA FailReadsStep ==
    ASSUME Inv, NEW w \in Workers, FailReads(w)
    PROVE  Inv'
<1>1. Busy(w) /\ UNCHANGED <<now, message, job, run, materialized, request>>
  BY DEF FailReads, Busy
<1>2. CASE Forget(w, "down")
  BY <1>1, <1>2, ForgetStep
<1>3. CASE /\ pc' = [pc EXCEPT ![w] = "failing"]
           /\ lease' = [lease EXCEPT ![w].retryAt = now + Backoff(lease[w].attempt)]
           /\ UNCHANGED process
  <2>. DEFINE at == now + Backoff(lease[w].attempt)
              l == [lease[w] EXCEPT !.retryAt = at]
  <2>1. at \in Int
    BY <1>1, BusyLease, BackoffIsInt, TypeOKRows
  <2>2. /\ l \in HeldLease /\ l.job = lease[w].job /\ l.attempt = lease[w].attempt
        /\ l.trigger = lease[w].trigger
    <3>. HIDE DEF at
    <3>. QED  BY <1>1, <2>1, BusyLease DEF HeldLease
  <2>3. lease' = [lease EXCEPT ![w] = l]
    BY <1>3 DEF Inv, TypeOK
  <2>4. "failing" \in WorkerPlaces \ {"idle", "down"} /\ "failing" \notin Starting
    BY DEF WorkerPlaces, Starting
  <2>. HIDE DEF l
  <2>. QED
    BY <1>1, <1>3, <2>2, <2>3, <2>4, Moved
<1>. QED
  BY <1>2, <1>3 DEF FailReads

LEMMA CrashStep ==
    ASSUME Inv, NEW w \in Workers, Crash(w)
    PROVE  Inv'
  BY ForgetStep DEF Crash

LEMMA RestartStep ==
    ASSUME Inv, NEW w \in Workers, Restart(w)
    PROVE  Inv'
<1>1. /\ lease' = [lease EXCEPT ![w] = NoLease]
      /\ pc' = [pc EXCEPT ![w] = "idle"]
      /\ UNCHANGED <<now, message, job, run, materialized, request>>
  BY DEF Restart, Inv, TypeOK
<1>2. process' \in [Workers -> 1..MaxRuns] /\ "idle" \in WorkerPlaces
  BY LimitAssumption DEF LimitAssumption, Restart, Inv, TypeOK, WorkerPlaces
<1>3. /\ CompletedIsMaterialized' /\ materialized' \subseteq RunKeys
      /\ Jobs(job') /\ Runs(run')
      /\ \A j \in Ids : /\ job'[j].attempt >= job[j].attempt
                        /\ job[j] = NoJob => job'[j] = NoJob
      /\ \A r \in RunKeys : run[r].status = run'[r].status
  BY <1>1, UnchangedRows
<1>. QED
  BY <1>1, <1>2, <1>3, NoLeaseType, Stepped

-----------------------------------------------------------------------------
(* The steps of a worker that write rows. *)

LEMMA StartRunStep ==
    ASSUME Inv, NEW w \in Workers, StartRun(w)
    PROVE  Inv' /\ KeepsVerdicts /\ AddsNone
<1>. DEFINE row == [status |-> "running", error |-> FALSE, focus |-> lease[w].focus]
            q == IF pc[w] = "starting" THEN "model" ELSE "failed"
<1>1. Busy(w) /\ pc[w] \in Starting
  BY DEF StartRun, Busy, Starting
<1>2. /\ lease[w] \in HeldLease /\ lease[w].trigger \in Ids
      /\ RunKey(w) \in RunKeys /\ RunKey(w) = <<lease[w].job, lease[w].attempt>>
      /\ lease[w].attempt <= job[lease[w].job].attempt
  BY <1>1, BusyLease DEF RunKey
<1>3. run[RunKey(w)].status = "absent"
  BY <1>1 DEF Inv, LeasesAreCounted
<1>4. GoodRun(row) /\ row.status = "running"
  BY <1>2 DEF GoodRun, Run, RunChecks, HeldLease
<1>5. /\ run' = [run EXCEPT ![RunKey(w)] = row]
      /\ pc' = [pc EXCEPT ![w] = q] /\ lease' = lease /\ process' = process
      /\ UNCHANGED <<now, message, job, materialized, request>>
  BY DEF StartRun, Goto
<1>6. q \in WorkerPlaces /\ q \notin {"idle", "down"} /\ q \notin Starting
  BY DEF WorkerPlaces, Starting
<1>. HIDE DEF row, q
<1>7. /\ run' \in [RunKeys -> Run]
      /\ \A r \in RunKeys : run'[r] = IF r = RunKey(w) THEN row ELSE run[r]
  BY <1>2, <1>4, <1>5 DEF Inv, TypeOK, GoodRun
<1>8. Runs(run') /\ Jobs(job')
  BY <1>4, <1>5, <1>7, TypeOKRows DEF Runs
<1>9. KeepsVerdicts /\ AddsNone
  BY <1>3, <1>4, <1>5, <1>7 DEF KeepsVerdicts, AddsNone
<1>10. CompletedIsMaterialized'
  BY <1>9, AddsNoneKeeps
<1>11. /\ lease' = [lease EXCEPT ![w] = lease[w]]
       /\ process' \in [Workers -> 1..MaxRuns] /\ materialized' \subseteq RunKeys
       /\ \A j \in Ids : job'[j].attempt >= job[j].attempt
  BY <1>5 DEF Inv, TypeOK, Job
<1>12. \A r \in RunKeys : run[r].status # run'[r].status => r = RunKey(w)
  BY <1>7
<1>. QED
  BY <1>1, <1>2, <1>5, <1>6, <1>8, <1>9, <1>10, <1>11, <1>12, Stepped

(* The rows complete and fail would write: if they satisfy the constraints, the
   verdicts of the rows in the database are the same or were open. *)
LEMMA CompletedRow ==
    ASSUME NEW j, GoodJob(j)
    PROVE  LET s == [Unleased(j, "completed") EXCEPT !.completed = TRUE]
           IN  JobChecks(s) =>
                  /\ s \in Job /\ s.status = "completed"
                  /\ s.attempt = j.attempt /\ s.trigger = j.trigger
                  /\ j.status # "cancelled"
                  /\ j.status = "completed" => s = j
<1>. DEFINE u == Unleased(j, "completed")
            s == [Unleased(j, "completed") EXCEPT !.completed = TRUE]
<1>. SUFFICES ASSUME JobChecks(s)
              PROVE  /\ s \in Job /\ s.status = "completed"
                     /\ s.attempt = j.attempt /\ s.trigger = j.trigger
                     /\ j.status # "cancelled"
                     /\ j.status = "completed" => s = j
  OBVIOUS
<1>1. j \in Job /\ JobChecks(j)
  BY DEF GoodJob
<1>2. /\ u \in Job /\ u.status = "completed" /\ u.attempt = j.attempt
      /\ u.trigger = j.trigger /\ u.cancelled = j.cancelled
  BY <1>1, UnleasedRow DEF JobStatuses
<1>3. s \in Job /\ s.status = "completed" /\ s.attempt = j.attempt
      /\ s.trigger = j.trigger /\ s.cancelled = j.cancelled
  <2>. HIDE DEF u
  <2>1. s = [u EXCEPT !.completed = TRUE]
    BY DEF u
  <2>2. s \in Job
    BY <1>2, <2>1, SetField
  <2>3. /\ s.status = u.status /\ s.attempt = u.attempt
        /\ s.trigger = u.trigger /\ s.cancelled = u.cancelled
    BY <1>2, <2>1 DEF Job
  <2>. QED
    BY <1>2, <2>2, <2>3
<1>4. j.status # "cancelled"
  BY <1>1, <1>3 DEF JobChecks
<1>5. ASSUME j.status = "completed" PROVE s = j
  <2>1. j.worker = None /\ j.expires = 0 /\ j.completed = TRUE
    BY <1>1, <1>5 DEF JobChecks, Job
  <2>. QED
    BY <1>1, <1>5, <2>1 DEF Unleased, Job
<1>. QED
  BY <1>3, <1>4, <1>5

LEMMA FailedJobRow ==
    ASSUME NEW j, GoodJob(j), NEW status \in {"queued", "dead"}, NEW at \in Int
    PROVE  LET s == [Unleased(j, status) EXCEPT !.ready = at]
           IN  JobChecks(s) =>
                  /\ s \in Job /\ s.status = status
                  /\ s.attempt = j.attempt /\ s.trigger = j.trigger
                  /\ j.status \notin {"completed", "cancelled"}
<1>. DEFINE s == [Unleased(j, status) EXCEPT !.ready = at]
<1>1. j \in Job /\ JobChecks(j) /\ status \in JobStatuses
  BY DEF GoodJob, JobStatuses
<1>2. /\ s \in Job /\ s.status = status
      /\ s.attempt = j.attempt /\ s.trigger = j.trigger
      /\ s.completed = j.completed /\ s.cancelled = j.cancelled
  BY <1>1, ReturnedRow
<1>. QED
  BY <1>1, <1>2 DEF JobChecks

LEMMA SucceededRunRow ==
    ASSUME NEW r, GoodRun(r)
    PROVE  LET s == [r EXCEPT !.status = "succeeded"]
           IN  RunChecks(s) =>
                  /\ s \in Run /\ s.status = "succeeded"
                  /\ r.status # "failed"
                  /\ r.status = "succeeded" => s = r
<1>. DEFINE s == [r EXCEPT !.status = "succeeded"]
<1>1. r \in Run /\ s.status = "succeeded" /\ s.error = r.error
  BY DEF GoodRun, Run
<1>2. s \in Run
  BY <1>1 DEF Run
<1>3. RunChecks(s) => r.status # "failed"
  BY <1>1 DEF GoodRun, RunChecks
<1>4. r.status = "succeeded" => s = r
  BY <1>1 DEF Run
<1>. QED
  BY <1>1, <1>2, <1>3, <1>4

LEMMA FailedRunRow ==
    ASSUME NEW r, GoodRun(r)
    PROVE  LET s == [r EXCEPT !.status = "failed", !.error = TRUE]
           IN  /\ s \in Run /\ s.status = "failed"
               /\ r.status = "failed" => s = r
<1>. DEFINE a == [r EXCEPT !.status = "failed"]
            s == [r EXCEPT !.status = "failed", !.error = TRUE]
<1>1. r \in Run /\ a \in Run /\ a.status = "failed"
  BY DEF GoodRun, Run
<1>2. s = [a EXCEPT !.error = TRUE]
  OBVIOUS
<1>3. s \in Run /\ s.status = "failed"
  <2>. HIDE DEF a
  <2>. QED  BY <1>1, <1>2 DEF Run
<1>4. r.status = "failed" => s = r
  BY <1>1 DEF GoodRun, RunChecks, Run
<1>. QED
  BY <1>3, <1>4

(* What an UPDATE of a job and of one of its runs leaves of the tables. *)
LEMMA StoredRows ==
    ASSUME Inv, NEW w \in Workers, Busy(w), NEW j \in Job, NEW r \in Run,
           JobChecks(j), RunChecks(r), j.status # "absent",
           j.attempt = job[lease[w].job].attempt,
           j.trigger = job[lease[w].job].trigger,
           job' \in [Ids -> Job], run' \in [RunKeys -> Run],
           \A i \in Ids : job'[i] = IF i = lease[w].job THEN j ELSE job[i],
           \A k \in RunKeys : run'[k] = IF k = RunKey(w) THEN r ELSE run[k]
    PROVE  /\ Jobs(job') /\ Runs(run')
           /\ \A i \in Ids : /\ job'[i].attempt >= job[i].attempt
                             /\ job[i] = NoJob => job'[i] = NoJob
           /\ \A k \in RunKeys :
                 run[k].status # run'[k].status => Busy(w) /\ k = RunKey(w)
<1>. DEFINE id == lease[w].job
<1>1. /\ id \in Ids /\ RunKey(w) \in RunKeys
      /\ lease[w].attempt \in 1..MaxAttempts /\ lease[w].attempt <= job[id].attempt
  BY BusyLease
<1>2. Jobs(job) /\ Runs(run)
  BY TypeOKRows
<1>3. job[id] # NoJob
  BY <1>1 DEF NoJob
<1>4. GoodJob(j)
  BY <1>1, <1>2, <1>3 DEF Jobs, GoodJob
<1>5. Jobs(job') /\ Runs(run')
  BY <1>2, <1>4 DEF Jobs, Runs, GoodRun
<1>6. \A i \in Ids : /\ job'[i].attempt >= job[i].attempt
                     /\ job[i] = NoJob => job'[i] = NoJob
  BY <1>2, <1>3 DEF Jobs, Job
<1>. QED
  BY <1>5, <1>6

(* A completion that commits closes a job that was open, or repeats what the rows
   already say. *)
LEMMA CompleteWritesStep ==
    ASSUME Inv, NEW w \in Workers, CompleteWrites(w)
    PROVE  Inv' /\ KeepsVerdicts
<1>. DEFINE j == CompletedJob(w)
            r == SucceededRun(w)
            id == lease[w].job
<1>1. Busy(w) /\ UNCHANGED <<now, message, request>>
  BY DEF CompleteWrites, Busy
<1>2. CASE Forget(w, "down") /\ UNCHANGED <<job, run, materialized>>
  BY <1>1, <1>2, ForgetStep, UnchangedRows
<1>3. CASE /\ RunChecks(r) /\ JobChecks(j)
           /\ job' = [job EXCEPT ![id] = j]
           /\ run' = [run EXCEPT ![RunKey(w)] = r]
           /\ materialized' = materialized \cup {RunKey(w)}
           /\ Forget(w, "idle")
  <2>1. /\ id \in Ids /\ RunKey(w) \in RunKeys /\ RunKey(w) = <<id, lease[w].attempt>>
        /\ lease[w].attempt \in 1..MaxAttempts
    BY <1>1, BusyLease DEF RunKey
  <2>2. GoodJob(job[id]) /\ GoodRun(run[RunKey(w)]) /\ Jobs(job) /\ Runs(run)
    BY <2>1, TypeOKRows DEF Jobs, Runs
  <2>3. /\ j \in Job /\ j.status = "completed"
        /\ j.attempt = job[id].attempt /\ j.trigger = job[id].trigger
        /\ job[id].status # "cancelled"
        /\ job[id].status = "completed" => j = job[id]
    <3>1. j = [Unleased(job[id], "completed") EXCEPT !.completed = TRUE]
      BY DEF CompletedJob
    <3>. HIDE DEF j, id
    <3>. QED
      BY <1>3, <2>2, <3>1, CompletedRow
  <2>4. /\ r \in Run /\ r.status = "succeeded"
        /\ run[RunKey(w)].status # "failed"
        /\ run[RunKey(w)].status = "succeeded" => r = run[RunKey(w)]
    <3>1. r = [run[RunKey(w)] EXCEPT !.status = "succeeded"]
      BY DEF SucceededRun
    <3>. HIDE DEF r
    <3>. QED
      BY <1>3, <2>2, <3>1, SucceededRunRow
  <2>. HIDE DEF j, r, id
  <2>5. /\ \A i \in Ids : job'[i] = IF i = id THEN j ELSE job[i]
        /\ \A k \in RunKeys : run'[k] = IF k = RunKey(w) THEN r ELSE run[k]
        /\ job' \in [Ids -> Job] /\ run' \in [RunKeys -> Run]
    BY <1>3, <2>1, <2>2, <2>3, <2>4 DEF Jobs, Runs
  <2>6. KeepsVerdicts
    BY <2>3, <2>4, <2>5 DEF KeepsVerdicts
  <2>7. CompletedIsMaterialized'
    <3>1. ASSUME NEW i \in Ids
          PROVE  job'[i].status = "completed" <=>
                     \E a \in 1..MaxAttempts : run'[<<i, a>>].status = "succeeded"
      <4>1. CASE i = id
        BY <2>1, <2>3, <2>4, <2>5, <4>1
      <4>2. CASE i # id
        <5>1. \A a \in 1..MaxAttempts : run'[<<i, a>>] = run[<<i, a>>]
          BY <2>1, <2>5, <4>2, KeyOfRun
        <5>. QED
          BY <2>5, <4>2, <5>1 DEF Inv, CompletedIsMaterialized
      <4>. QED
        BY <4>1, <4>2
    <3>2. \A k \in RunKeys : run'[k].status = "succeeded" <=> k \in materialized'
      BY <1>3, <2>1, <2>4, <2>5 DEF Inv, CompletedIsMaterialized
    <3>. QED
      BY <3>1, <3>2 DEF CompletedIsMaterialized
  <2>8. materialized' \subseteq RunKeys
    BY <1>3, <2>1 DEF Inv, TypeOK
  <2>9. /\ j.attempt = job[lease[w].job].attempt /\ j.trigger = job[lease[w].job].trigger
        /\ \A i \in Ids : job'[i] = IF i = lease[w].job THEN j ELSE job[i]
        /\ j.status # "absent"
    BY <2>3, <2>5 DEF id
  <2>10. /\ Jobs(job') /\ Runs(run')
         /\ \A i \in Ids : /\ job'[i].attempt >= job[i].attempt
                           /\ job[i] = NoJob => job'[i] = NoJob
         /\ \A k \in RunKeys :
               run[k].status # run'[k].status => Busy(w) /\ k = RunKey(w)
    BY <1>1, <1>3, <2>3, <2>4, <2>5, <2>9, StoredRows
  <2>11. /\ pc' = [pc EXCEPT ![w] = "idle"] /\ lease' = [lease EXCEPT ![w] = NoLease]
         /\ process' \in [Workers -> 1..MaxRuns]
    BY <1>3 DEF Forget, Inv, TypeOK
  <2>12. Inv'
    BY <1>1, <2>7, <2>8, <2>10, <2>11, Released
  <2>. QED
    BY <2>6, <2>12
<1>. QED
  BY <1>2, <1>3 DEF CompleteWrites

(* A failure that commits leaves the verdicts: on a completed or cancelled job it
   breaks a CHECK constraint, and a run that succeeded has a completed job. *)
LEMMA FailWritesStep ==
    ASSUME Inv, NEW w \in Workers, FailWrites(w)
    PROVE  Inv' /\ KeepsVerdicts /\ AddsNone
<1>. DEFINE j == FailedJob(w)
            r == FailedRun(w)
            id == lease[w].job
<1>1. Busy(w) /\ UNCHANGED <<now, message, materialized, request>>
  BY DEF FailWrites, Busy
<1>2. CASE Forget(w, "down") /\ UNCHANGED <<job, run>>
  BY <1>1, <1>2, ForgetStep, UnchangedRows
<1>3. CASE /\ RunChecks(r) /\ JobChecks(j)
           /\ job' = [job EXCEPT ![id] = j]
           /\ run' = [run EXCEPT ![RunKey(w)] = r]
           /\ Forget(w, "idle")
  <2>1. /\ id \in Ids /\ RunKey(w) \in RunKeys /\ RunKey(w) = <<id, lease[w].attempt>>
        /\ lease[w].attempt \in 1..MaxAttempts /\ lease[w].retryAt \in Int
    BY <1>1, BusyLease DEF RunKey, HeldLease
  <2>2. GoodJob(job[id]) /\ GoodRun(run[RunKey(w)]) /\ Jobs(job) /\ Runs(run)
    BY <2>1, TypeOKRows DEF Jobs, Runs
  <2>3. /\ j \in Job /\ j.status \in {"queued", "dead"}
        /\ j.attempt = job[id].attempt /\ j.trigger = job[id].trigger
        /\ job[id].status \notin {"completed", "cancelled"}
    <3>. DEFINE status == IF lease[w].attempt >= MaxAttempts THEN "dead" ELSE "queued"
    <3>1. j = [Unleased(job[id], status) EXCEPT !.ready = lease[w].retryAt]
      BY DEF FailedJob
    <3>2. status \in {"queued", "dead"}
      OBVIOUS
    <3>. HIDE DEF j, id, status
    <3>. QED
      BY <1>3, <2>1, <2>2, <3>1, <3>2, FailedJobRow
  <2>4. /\ r \in Run /\ r.status = "failed"
        /\ run[RunKey(w)].status = "failed" => r = run[RunKey(w)]
    <3>1. r = [run[RunKey(w)] EXCEPT !.status = "failed", !.error = TRUE]
      BY DEF FailedRun
    <3>. HIDE DEF r
    <3>. QED
      BY <1>3, <2>2, <3>1, FailedRunRow
  <2>5. run[RunKey(w)].status # "succeeded"
    BY <2>1, <2>3 DEF Inv, CompletedIsMaterialized
  <2>. HIDE DEF j, r, id
  <2>6. /\ \A i \in Ids : job'[i] = IF i = id THEN j ELSE job[i]
        /\ \A k \in RunKeys : run'[k] = IF k = RunKey(w) THEN r ELSE run[k]
        /\ job' \in [Ids -> Job] /\ run' \in [RunKeys -> Run]
    BY <1>3, <2>1, <2>2, <2>3, <2>4 DEF Jobs, Runs
  <2>7. KeepsVerdicts /\ AddsNone
    BY <1>1, <2>3, <2>4, <2>5, <2>6 DEF KeepsVerdicts, AddsNone
  <2>8. CompletedIsMaterialized' /\ materialized' \subseteq RunKeys
    BY <1>1, <2>7, AddsNoneKeeps DEF Inv, TypeOK
  <2>9. /\ j.attempt = job[lease[w].job].attempt /\ j.trigger = job[lease[w].job].trigger
        /\ \A i \in Ids : job'[i] = IF i = lease[w].job THEN j ELSE job[i]
        /\ j.status # "absent"
    BY <2>3, <2>6 DEF id
  <2>10. /\ Jobs(job') /\ Runs(run')
         /\ \A i \in Ids : /\ job'[i].attempt >= job[i].attempt
                           /\ job[i] = NoJob => job'[i] = NoJob
         /\ \A k \in RunKeys :
               run[k].status # run'[k].status => Busy(w) /\ k = RunKey(w)
    BY <1>1, <1>3, <2>3, <2>4, <2>6, <2>9, StoredRows
  <2>11. /\ pc' = [pc EXCEPT ![w] = "idle"] /\ lease' = [lease EXCEPT ![w] = NoLease]
         /\ process' \in [Workers -> 1..MaxRuns]
    BY <1>3 DEF Forget, Inv, TypeOK
  <2>12. Inv'
    BY <1>1, <2>8, <2>10, <2>11, Released
  <2>. QED
    BY <2>7, <2>12
<1>. QED
  BY <1>2, <1>3 DEF FailWrites

-----------------------------------------------------------------------------
(* The claims. *)

Recovered == [j \in Ids |-> RecoveredJob(job[j], now)]

LEMMA RecoveredTables ==
    ASSUME Inv
    PROVE  /\ Jobs(Recovered) /\ Runs(RecoveredRuns(now))
           /\ \A j \in Ids :
                 /\ Recovered[j].attempt = job[j].attempt
                 /\ \/ Recovered[j] = job[j]
                    \/ /\ job[j].status = "running"
                       /\ Recovered[j].status \in {"queued", "dead"}
           /\ \A r \in RunKeys :
                 \/ RecoveredRuns(now)[r] = run[r]
                 \/ run[r].status = "running" /\ RecoveredRuns(now)[r].status = "failed"
<1>1. Jobs(job) /\ Runs(run) /\ now \in Int
  BY TypeOKRows
<1>2. \A j \in Ids : Recovered[j] = RecoveredJob(job[j], now)
  BY DEF Recovered
<1>3. \A j \in Ids :
          /\ GoodJob(Recovered[j]) /\ Recovered[j].attempt = job[j].attempt
          /\ \/ Recovered[j] = job[j]
             \/ /\ job[j].status = "running"
                /\ Recovered[j].status \in {"queued", "dead"}
  BY <1>1, <1>2, RecoveredJobGood DEF Jobs
<1>4. Recovered \in [Ids -> Job]
  BY <1>3 DEF Recovered, GoodJob
<1>. QED
  BY <1>1, <1>3, <1>4, RecoveredRunGood DEF Jobs

(* Nothing was ready: only the recovery is committed. *)
LEMMA FoundNothing ==
    ASSUME Inv, NEW w \in Workers, pc[w] = "idle",
           job' = Recovered, run' = RecoveredRuns(now),
           UNCHANGED workerVars, UNCHANGED <<now, message, materialized, request>>
    PROVE  Inv' /\ KeepsVerdicts /\ AddsNone
<1>1. KeepsVerdicts /\ AddsNone
  BY RecoveredTables DEF KeepsVerdicts, AddsNone
<1>2. CompletedIsMaterialized' /\ materialized' \subseteq RunKeys
  BY <1>1, AddsNoneKeeps DEF Inv, TypeOK
<1>3. /\ pc' = [pc EXCEPT ![w] = "idle"] /\ lease' = [lease EXCEPT ![w] = NoLease]
      /\ process' \in [Workers -> 1..MaxRuns]
      /\ pc[w] = "idle" /\ lease[w] = NoLease
  BY DEF workerVars, Inv, TypeOK
<1>4. Jobs(job') /\ Runs(run')
  BY RecoveredTables
<1>5. \A j \in Ids : /\ job'[j].attempt >= job[j].attempt
                     /\ job[j] = NoJob => job'[j] = NoJob
  BY RecoveredTables, TypeOKRows DEF Jobs, Job, NoJob
<1>6. \A r \in RunKeys :
          run[r].status # run'[r].status =>
              run[r].status # "absent" /\ run'[r].status # "absent"
  BY RecoveredTables
<1>7. "idle" \in WorkerPlaces
  BY DEF WorkerPlaces
<1>. QED
  BY <1>1, <1>2, <1>3, <1>4, <1>5, <1>6, <1>7, NoLeaseType, Stepped

LEMMA TakeStep ==
    ASSUME Inv, NEW w \in Workers, NEW j \in Ready(Recovered, now),
           Take(w, Recovered, j), run' = RecoveredRuns(now),
           UNCHANGED <<now, message, materialized, request>>
    PROVE  Inv' /\ KeepsVerdicts /\ AddsNone
<1>. DEFINE old == Recovered[j]
            row == TakenJob(old, WorkerId(w), now)
            l == Held(j, old.attempt + 1, old.trigger)
<1>1. /\ j \in Ids /\ old.status = "queued" /\ old.attempt < MaxAttempts
  BY DEF Ready
<1>2. /\ GoodJob(old) /\ old.attempt = job[j].attempt
      /\ job[j].status \in {"queued", "running"} /\ old # NoJob
  BY <1>1, RecoveredTables DEF Jobs, NoJob
<1>3. /\ old \in Job /\ old.trigger \in Ids
      /\ old.attempt \in Nat /\ old.attempt + 1 \in 1..MaxAttempts
  <2>1. old \in Job /\ old.trigger \in Ids
    BY <1>2 DEF GoodJob
  <2>2. old.attempt \in 0..MaxAttempts
    BY <2>1 DEF Job
  <2>. QED
    BY <1>1, <2>1, <2>2, LimitAssumption DEF LimitAssumption
<1>4. WorkerId(w) \in WorkerIds /\ WorkerId(w) # None /\ now \in Int
  BY NullAssumption, TypeOKRows DEF NullAssumption, WorkerId, WorkerIds, Inv, TypeOK
<1>5. /\ row \in Job /\ row.status = "running" /\ row.attempt = old.attempt + 1
      /\ row.worker = WorkerId(w) /\ row.trigger = old.trigger
      /\ row.completed = old.completed /\ row.cancelled = old.cancelled
  BY <1>1, <1>3, <1>4, TakenRow
<1>6. /\ job' = [Recovered EXCEPT ![j] = row]
      /\ lease' = [lease EXCEPT ![w] = l]
      /\ pc' = [pc EXCEPT ![w] = "claimed"] /\ process' = process
  BY DEF Take
<1>7. /\ l \in HeldLease /\ l.job = j /\ l.attempt = old.attempt + 1
      /\ l.trigger = old.trigger
  BY <1>1, <1>3 DEF Held, HeldLease
<1>. HIDE DEF row, l
<1>8. GoodJob(row)
  <2>1. row.attempt \in 0..MaxAttempts
    BY <1>5 DEF Job
  <2>2. JobChecks(row)
    BY <1>1, <1>2, <1>4, <1>5, <2>1 DEF JobChecks, GoodJob
  <2>. QED
    BY <1>3, <1>5, <2>2 DEF GoodJob
<1>. HIDE DEF old
<1>9. /\ \A i \in Ids : job'[i] = IF i = j THEN row ELSE Recovered[i]
      /\ Jobs(job') /\ Runs(run')
  <2>1. Jobs(Recovered)
    BY RecoveredTables
  <2>2. /\ \A i \in Ids : job'[i] = IF i = j THEN row ELSE Recovered[i]
        /\ job' \in [Ids -> Job]
    BY <1>1, <1>5, <1>6, <2>1 DEF Jobs
  <2>. QED
    BY <1>8, <2>1, <2>2, RecoveredTables DEF Jobs
<1>10. KeepsVerdicts /\ AddsNone
  BY <1>2, <1>5, <1>9, RecoveredTables DEF KeepsVerdicts, AddsNone
<1>11. CompletedIsMaterialized' /\ materialized' \subseteq RunKeys
  BY <1>10, AddsNoneKeeps DEF Inv, TypeOK
<1>12. \A i \in Ids : /\ job'[i].attempt >= job[i].attempt
                      /\ job[i] = NoJob => job'[i] = NoJob
  <2>1. \A i \in Ids : job[i].attempt \in Nat
    BY TypeOKRows DEF Jobs, Job
  <2>2. job[j] # NoJob
    BY <1>2 DEF NoJob
  <2>. QED
    BY <1>2, <1>3, <1>5, <1>9, <2>1, <2>2, RecoveredTables DEF NoJob
<1>13. \A r \in RunKeys :
          run[r].status # run'[r].status =>
              run[r].status # "absent" /\ run'[r].status # "absent"
  BY RecoveredTables
<1>14. /\ <<l.job, l.attempt>> \in RunKeys /\ l.trigger \in Ids
       /\ l.attempt <= job'[l.job].attempt
       /\ l.attempt > job[l.job].attempt
  BY <1>1, <1>2, <1>3, <1>5, <1>7, <1>9 DEF RunKeys
<1>15. process' \in [Workers -> 1..MaxRuns]
  BY <1>6 DEF Inv, TypeOK
<1>16. Inv'
  BY <1>6, <1>7, <1>9, <1>11, <1>12, <1>13, <1>14, <1>15, Given
<1>. QED
  BY <1>10, <1>16

LEMMA ClaimStep ==
    ASSUME Inv, NEW w \in Workers, Claim(w) \/ \E j \in Ids : ClaimJob(w, j)
    PROVE  Inv' /\ KeepsVerdicts /\ AddsNone
<1>1. /\ pc[w] = "idle" /\ run' = RecoveredRuns(now)
      /\ UNCHANGED <<now, message, materialized, request>>
  BY DEF Claim, ClaimJob
<1>2. \/ job' = Recovered /\ UNCHANGED workerVars
      \/ \E j \in Ready(Recovered, now) : Take(w, Recovered, j)
  BY DEF Claim, ClaimJob, Recovered
<1>. QED
  BY <1>1, <1>2, FoundNothing, TakeStep

LEMMA WorkerStepInv ==
    ASSUME Inv, NEW w \in Workers, WorkerStep(w)
    PROVE  Inv' /\ KeepsVerdicts
<1>1. CASE \/ Prepare(w) \/ ModelAnswers(w) \/ ModelFails(w) \/ CompleteReads(w)
           \/ TasksFail(w) \/ FailReads(w) \/ Crash(w) \/ Restart(w)
  <2>1. UNCHANGED <<job, run, materialized>>
    BY <1>1 DEF Prepare, ModelAnswers, ModelFails, CompleteReads, TasksFail,
                FailReads, Crash, Restart
  <2>2. Inv'
    BY <1>1, PrepareStep, ModelStep, FailReadsStep, CrashStep, RestartStep
  <2>. QED
    BY <2>1, <2>2, UnchangedRows
<1>2. CASE Claim(w) \/ \E j \in Ids : ClaimJob(w, j)
  BY <1>2, ClaimStep
<1>3. CASE StartRun(w)
  BY <1>3, StartRunStep
<1>4. CASE CompleteWrites(w)
  BY <1>4, CompleteWritesStep
<1>5. CASE FailWrites(w)
  BY <1>5, FailWritesStep
<1>. QED
  BY <1>1, <1>2, <1>3, <1>4, <1>5 DEF WorkerStep, Work

-----------------------------------------------------------------------------
(* The listener, the operator and the clock. *)

(* A step of no worker: it writes messages and jobs, and takes no verdict back. *)
LEMMA Rewritten ==
    ASSUME Inv, UNCHANGED workerVars, UNCHANGED <<run, materialized>>,
           now' \in Instants, message' \in [Ids -> Message \cup {NoMessage}],
           request' \in [asked : SUBSET Ids, queued : SUBSET Ids, reported : SUBSET Ids],
           Jobs(job'), KeepsVerdicts, AddsNone,
           \A j \in Ids : /\ job'[j].attempt >= job[j].attempt
                          /\ message'[j].kind = "none" => job'[j] = NoJob
    PROVE  Inv'
<1>1. UNCHANGED <<pc, process, lease>>
  BY DEF workerVars
<1>2. TypeOK'
  BY <1>1 DEF Inv, TypeOK, Jobs, GoodJob, RunKey
<1>3. CompletedIsMaterialized'
  BY AddsNoneKeeps
<1>4. JobsFollowMessages'
  BY DEF JobsFollowMessages, Jobs, GoodJob
<1>5. \A j \in Ids : job[j].attempt \in Int /\ job'[j].attempt \in Int
                     /\ job'[j].attempt >= job[j].attempt
  BY TypeOKRows DEF Jobs, Job
<1>6. RunsAreCounted'
  <2>. SUFFICES ASSUME NEW r \in RunKeys, run[r].status # "absent"
                PROVE  r[2] <= job'[r[1]].attempt
    BY DEF RunsAreCounted
  <2>1. r[1] \in Ids /\ r[2] \in Int /\ r[2] <= job[r[1]].attempt
    BY DEF RunKeys, Inv, RunsAreCounted
  <2>. QED
    BY <1>5, <2>1
<1>7. LeasesAreCounted'
  <2>1. \A w \in Workers : Busy(w) => lease[w].job \in Ids /\ lease[w].attempt \in Int
    BY BusyLease
  <2>. QED
    BY <1>1, <1>5, <2>1 DEF Inv, LeasesAreCounted, Busy, RunKey
<1>8. LeasesDiffer'
  BY <1>1 DEF Inv, LeasesDiffer, Busy, RunKey
<1>. QED
  BY <1>2, <1>3, <1>4, <1>6, <1>7, <1>8 DEF Inv

LEMMA CreatedRow ==
    ASSUME Inv, NEW m \in Ids
    PROVE  /\ GoodJob(Created(m)) /\ Created(m).status = "queued"
           /\ Created(m).attempt = 0
<1>1. NoJob \in Job /\ JobChecks(NoJob) /\ NoJob.attempt = 0 /\ NoJob.worker = None
      /\ NoJob.expires = 0 /\ NoJob.completed = FALSE /\ NoJob.cancelled = FALSE
  BY NoJobGood DEF GoodJob, NoJob
<1>2. now \in Int /\ now + Debounce \in Int
  BY TypeOKRows, LimitAssumption DEF LimitAssumption
<1>3. ASSUME NEW r \in Job
      PROVE  LET s == [r EXCEPT !.status = "queued", !.trigger = m, !.since = now,
                                !.ready = now + Debounce, !.batch = {m}]
             IN  /\ s \in Job /\ s.status = "queued" /\ s.trigger = m
                 /\ s.attempt = r.attempt /\ s.worker = r.worker /\ s.expires = r.expires
                 /\ s.completed = r.completed /\ s.cancelled = r.cancelled
  <2>. DEFINE a == [r EXCEPT !.status = "queued"]
              b == [a EXCEPT !.trigger = m]
              c == [b EXCEPT !.since = now]
              d == [c EXCEPT !.ready = now + Debounce]
              s == [d EXCEPT !.batch = {m}]
  <2>1. a \in Job
    BY DEF Job
  <2>2. b \in Job
    <3>. HIDE DEF a
    <3>. QED  BY <2>1 DEF Job
  <2>3. c \in Job
    <3>. HIDE DEF b
    <3>. QED  BY <1>2, <2>2 DEF Job
  <2>4. d \in Job
    <3>. HIDE DEF c
    <3>. QED  BY <1>2, <2>3 DEF Job
  <2>5. s \in Job
    <3>. HIDE DEF d
    <3>. QED  BY <2>4 DEF Job
  <2>6. /\ s.status = "queued" /\ s.trigger = m
        /\ s.attempt = r.attempt /\ s.worker = r.worker /\ s.expires = r.expires
        /\ s.completed = r.completed /\ s.cancelled = r.cancelled
    BY DEF Job
  <2>. QED
    BY <2>5, <2>6
<1>4. /\ Created(m) \in Job /\ Created(m).status = "queued" /\ Created(m).trigger = m
      /\ Created(m).attempt = 0 /\ Created(m).worker = None /\ Created(m).expires = 0
      /\ Created(m).completed = FALSE /\ Created(m).cancelled = FALSE
  <2>. HIDE DEF NoJob
  <2>. QED  BY <1>1, <1>3 DEF Created
<1>5. JobChecks(Created(m))
  BY <1>4, LimitAssumption DEF LimitAssumption, JobChecks
<1>. QED
  BY <1>4, <1>5 DEF GoodJob

LEMMA CoalescedRow ==
    ASSUME Inv, NEW j \in Ids, job[j].status = "queued", NEW m \in Ids, NEW msgs
    PROVE  LET s == Coalesced(job[j], msgs, m)
           IN  /\ GoodJob(s) /\ s.status = "queued" /\ s.attempt = job[j].attempt
<1>. DEFINE r == job[j]
            trigger == LatestTrigger(msgs, r.trigger, m)
            a == [r EXCEPT !.trigger = trigger]
            b == [a EXCEPT !.ready = now + Debounce]
            s == [b EXCEPT !.batch = r.batch \cup {m}]
<1>1. GoodJob(r) /\ r \in Job /\ r.trigger \in Ids
  BY TypeOKRows DEF Jobs, GoodJob, NoJob
<1>2. trigger \in Ids
  BY <1>1 DEF LatestTrigger
<1>3. now + Debounce \in Int /\ r.batch \cup {m} \in SUBSET Ids
  BY <1>1, TypeOKRows, LimitAssumption DEF LimitAssumption, Job
<1>4. Coalesced(r, msgs, m) = s
  BY <1>1 DEF Coalesced, Job
<1>. HIDE DEF r, trigger
<1>5. /\ a \in Job /\ a.status = r.status /\ a.attempt = r.attempt /\ a.trigger = trigger
      /\ a.worker = r.worker /\ a.expires = r.expires
      /\ a.completed = r.completed /\ a.cancelled = r.cancelled
  BY <1>1, <1>2 DEF Job
<1>. HIDE DEF a
<1>6. /\ b \in Job /\ b.status = a.status /\ b.attempt = a.attempt
      /\ b.trigger = a.trigger /\ b.worker = a.worker /\ b.expires = a.expires
      /\ b.completed = a.completed /\ b.cancelled = a.cancelled
  BY <1>3, <1>5 DEF Job
<1>. HIDE DEF b
<1>7. /\ s \in Job /\ s.status = b.status /\ s.attempt = b.attempt
      /\ s.trigger = b.trigger /\ s.worker = b.worker /\ s.expires = b.expires
      /\ s.completed = b.completed /\ s.cancelled = b.cancelled
  BY <1>3, <1>6 DEF Job
<1>. HIDE DEF s
<1>8. r.status = "queued"
  BY DEF r
<1>9. GoodJob(s) /\ s.status = "queued" /\ s.attempt = r.attempt
  BY <1>1, <1>2, <1>5, <1>6, <1>7, <1>8 DEF GoodJob, JobChecks
<1>. QED
  BY <1>4, <1>9 DEF r

(* One row is inserted, or one that was queued is written. *)
LEMMA EnqueueStep ==
    ASSUME Inv, NEW m \in Ids, message[m].kind = "none", NEW msgs, Enqueue(msgs, m)
    PROVE  /\ Jobs(job')
           /\ \A j \in Ids : /\ job'[j].attempt >= job[j].attempt
                             /\ job[j].status \in {"completed", "cancelled"} =>
                                    job'[j] = job[j]
                             /\ job'[j].status = "completed" =>
                                    job[j].status = "completed"
                             /\ j # m /\ job[j] = NoJob => job'[j] = NoJob
<1>1. Jobs(job) /\ \A j \in Ids : job[j].attempt \in Int
  BY TypeOKRows DEF Jobs, Job
<1>2. job[m] = NoJob
  BY DEF Inv, JobsFollowMessages
<1>3. ASSUME NEW i \in Ids, NEW row, GoodJob(row), row.status = "queued",
             row.attempt = job[i].attempt,
             job[i].status \in {"absent", "queued"}, i = m \/ job[i] # NoJob,
             job' = [job EXCEPT ![i] = row]
      PROVE  /\ Jobs(job')
             /\ \A j \in Ids : /\ job'[j].attempt >= job[j].attempt
                               /\ job[j].status \in {"completed", "cancelled"} =>
                                      job'[j] = job[j]
                               /\ job'[j].status = "completed" =>
                                      job[j].status = "completed"
                               /\ j # m /\ job[j] = NoJob => job'[j] = NoJob
  <2>1. /\ \A j \in Ids : job'[j] = IF j = i THEN row ELSE job[j]
        /\ job' \in [Ids -> Job]
    BY <1>1, <1>3 DEF Jobs, GoodJob
  <2>2. Jobs(job')
    BY <1>1, <1>3, <2>1 DEF Jobs
  <2>. QED
    BY <1>1, <1>3, <2>1, <2>2
<1>4. CASE job' = [job EXCEPT ![m] = Created(m)]
  <2>1. job[m].status = "absent" /\ job[m].attempt = 0
    BY <1>2 DEF NoJob
  <2>. QED
    BY <1>3, <1>4, <2>1, CreatedRow
<1>5. CASE \E j \in Coalescible(now) : job' = [job EXCEPT ![j] = Coalesced(@, msgs, m)]
  <2>1. PICK j \in Ids : /\ job[j].status = "queued"
                         /\ job' = [job EXCEPT ![j] = Coalesced(job[j], msgs, m)]
    BY <1>1, <1>5 DEF Coalescible, Jobs
  <2>2. job[j] # NoJob
    BY <2>1 DEF NoJob
  <2>. QED
    BY <1>3, <2>1, <2>2, CoalescedRow
<1>. QED
  BY <1>4, <1>5 DEF Enqueue

LEMMA SaveStep ==
    ASSUME Inv, NEW m \in Ids, Save(m)
    PROVE  Inv' /\ KeepsVerdicts
<1>1. message[m].kind = "none" /\ now \in Int /\ now \in Instants
  BY TypeOKRows DEF Save, Inv, TypeOK
<1>2. PICK created \in Instants, size \in Sizes, kind \in MessageKinds \ {"none"} :
          LET row == [created |-> created, received |-> now, size |-> size, kind |-> kind]
              msgs == [message EXCEPT ![m] = row]
          IN  /\ message' = msgs
              /\ IF kind = "chat" THEN Enqueue(msgs, m) ELSE UNCHANGED job
  BY DEF Save
<1>. DEFINE row == [created |-> created, received |-> now, size |-> size, kind |-> kind]
<1>3. row \in Message /\ row.kind # "none"
  BY <1>1, ClockAssumption DEF ClockAssumption, Message
<1>4. message' = [message EXCEPT ![m] = row]
  BY <1>2
<1>. HIDE DEF row
<1>5. /\ message' \in [Ids -> Message \cup {NoMessage}]
      /\ \A j \in Ids : message'[j].kind = "none" => j # m /\ message[j].kind = "none"
  BY <1>3, <1>4 DEF Inv, TypeOK
<1>6. /\ Jobs(job')
      /\ \A j \in Ids : /\ job'[j].attempt >= job[j].attempt
                        /\ job[j].status \in {"completed", "cancelled"} =>
                               job'[j] = job[j]
                        /\ job'[j].status = "completed" =>
                               job[j].status = "completed"
                        /\ j # m /\ job[j] = NoJob => job'[j] = NoJob
  <2>1. CASE UNCHANGED job
    BY <2>1, TypeOKRows DEF Jobs, Job
  <2>2. CASE ~UNCHANGED job
    BY <1>1, <1>2, <2>2, EnqueueStep
  <2>. QED
    BY <2>1, <2>2
<1>7. \A j \in Ids : message'[j].kind = "none" => job'[j] = NoJob
  BY <1>5, <1>6 DEF Inv, JobsFollowMessages
<1>8. UNCHANGED <<now, run, materialized, request>> /\ UNCHANGED workerVars
  BY DEF Save, workerVars
<1>9. KeepsVerdicts /\ AddsNone
  BY <1>6, <1>8 DEF KeepsVerdicts, AddsNone
<1>10. request' \in [asked : SUBSET Ids, queued : SUBSET Ids, reported : SUBSET Ids]
  BY <1>8 DEF Inv, TypeOK
<1>11. now' \in Instants
  BY <1>1, <1>8
<1>. QED
  BY <1>5, <1>6, <1>7, <1>8, <1>9, <1>10, <1>11, Rewritten

LEMMA CancelReadsStep ==
    ASSUME Inv, CancelReads
    PROVE  Inv' /\ KeepsVerdicts
<1>1. /\ UNCHANGED <<now, message, job, run, materialized>> /\ UNCHANGED workerVars
      /\ request' \in [asked : SUBSET Ids, queued : SUBSET Ids, reported : SUBSET Ids]
  BY DEF CancelReads, workerVars, Inv, TypeOK
<1>2. /\ KeepsVerdicts /\ AddsNone /\ Jobs(job')
      /\ \A j \in Ids : /\ job'[j].attempt >= job[j].attempt
                        /\ job[j] = NoJob => job'[j] = NoJob
  BY <1>1, UnchangedRows
<1>3. \A j \in Ids : message'[j].kind = "none" => job'[j] = NoJob
  BY <1>1 DEF Inv, JobsFollowMessages
<1>4. now' \in Instants /\ message' \in [Ids -> Message \cup {NoMessage}]
  BY <1>1 DEF Inv, TypeOK
<1>. QED
  BY <1>1, <1>2, <1>3, <1>4, Rewritten

LEMMA TickStep ==
    ASSUME Inv, Tick
    PROVE  Inv' /\ KeepsVerdicts
<1>1. /\ UNCHANGED <<message, job, run, materialized, request>> /\ UNCHANGED workerVars
      /\ now' \in Instants
  BY DEF Tick, workerVars
<1>2. /\ KeepsVerdicts /\ AddsNone /\ Jobs(job')
      /\ \A j \in Ids : /\ job'[j].attempt >= job[j].attempt
                        /\ job[j] = NoJob => job'[j] = NoJob
  BY <1>1, UnchangedRows
<1>3. \A j \in Ids : message'[j].kind = "none" => job'[j] = NoJob
  BY <1>1 DEF Inv, JobsFollowMessages
<1>4. /\ message' \in [Ids -> Message \cup {NoMessage}]
      /\ request' \in [asked : SUBSET Ids, queued : SUBSET Ids, reported : SUBSET Ids]
  BY <1>1 DEF Inv, TypeOK
<1>. QED
  BY <1>1, <1>2, <1>3, <1>4, Rewritten

LEMMA CancelledRow ==
    ASSUME NEW j, GoodJob(j), j.status = "queued"
    PROVE  LET s == [Unleased(j, "cancelled") EXCEPT !.cancelled = TRUE]
           IN  GoodJob(s) /\ s.status = "cancelled" /\ s.attempt = j.attempt
<1>. DEFINE u == Unleased(j, "cancelled")
<1>1. j \in Job /\ JobChecks(j) /\ j.trigger \in Ids
  BY DEF GoodJob, NoJob
<1>2. /\ u \in Job /\ u.status = "cancelled" /\ u.worker = None /\ u.expires = 0
      /\ u.attempt = j.attempt /\ u.trigger = j.trigger /\ u.completed = j.completed
  BY <1>1, UnleasedRow DEF JobStatuses
<1>. HIDE DEF u
<1>. DEFINE s == [u EXCEPT !.cancelled = TRUE]
<1>3. s \in Job
  BY <1>2, SetField
<1>4. /\ s.status = u.status /\ s.worker = u.worker
      /\ s.expires = u.expires /\ s.attempt = u.attempt /\ s.trigger = u.trigger
      /\ s.completed = u.completed /\ s.cancelled = TRUE
  BY <1>2 DEF Job
<1>. HIDE DEF s
<1>5. GoodJob(s) /\ s.status = "cancelled" /\ s.attempt = j.attempt
  BY <1>1, <1>2, <1>3, <1>4 DEF GoodJob, JobChecks
<1>. QED
  BY <1>5 DEF u, s

LEMMA CancelWritesStep ==
    ASSUME Inv, CancelWrites
    PROVE  Inv' /\ KeepsVerdicts
<1>1. /\ UNCHANGED <<now, message, run, materialized>> /\ UNCHANGED workerVars
      /\ request' \in [asked : SUBSET Ids, queued : SUBSET Ids, reported : SUBSET Ids]
  BY DEF CancelWrites, workerVars, Inv, TypeOK
<1>2. Jobs(job) /\ \A j \in Ids : job[j].attempt \in Int
  BY TypeOKRows DEF Jobs, Job
<1>3. ASSUME NEW j \in Ids
      PROVE  /\ GoodJob(job'[j]) /\ job'[j].attempt = job[j].attempt
             /\ \/ job'[j] = job[j]
                \/ job[j].status = "queued" /\ job'[j].status = "cancelled"
  <2>. DEFINE s == [Unleased(job[j], "cancelled") EXCEPT !.cancelled = TRUE]
  <2>1. job'[j] = IF j \in request.queued /\ job[j].status = "queued" THEN s ELSE job[j]
    BY DEF CancelWrites
  <2>2. GoodJob(job[j])
    BY <1>2 DEF Jobs
  <2>3. job[j].status = "queued" =>
            GoodJob(s) /\ s.status = "cancelled" /\ s.attempt = job[j].attempt
    BY <2>2, CancelledRow
  <2>. HIDE DEF s
  <2>. QED
    BY <2>1, <2>2, <2>3
<1>4. job' \in [Ids -> Job]
  BY <1>3 DEF CancelWrites, GoodJob
<1>5. Jobs(job')
  BY <1>3, <1>4 DEF Jobs
<1>6. KeepsVerdicts /\ AddsNone
  BY <1>1, <1>3 DEF KeepsVerdicts, AddsNone
<1>7. \A j \in Ids : /\ job'[j].attempt >= job[j].attempt
                     /\ message'[j].kind = "none" => job'[j] = NoJob
  <2>1. \A j \in Ids : message[j].kind = "none" => job[j] = NoJob
    BY DEF Inv, JobsFollowMessages
  <2>2. NoJob.status # "queued"
    BY DEF NoJob
  <2>. QED
    BY <1>1, <1>2, <1>3, <2>1, <2>2
<1>8. now' \in Instants /\ message' \in [Ids -> Message \cup {NoMessage}]
  BY <1>1 DEF Inv, TypeOK
<1>. QED
  BY <1>1, <1>5, <1>6, <1>7, <1>8, Rewritten

-----------------------------------------------------------------------------

LEMMA InitInv == Init => Inv
<1>. SUFFICES ASSUME Init PROVE Inv
  OBVIOUS
<1>1. /\ \A w \in Workers : pc[w] = "idle" /\ lease[w] = NoLease
      /\ \A j \in Ids : job[j] = NoJob
      /\ \A r \in RunKeys : run[r] = NoRun
      /\ now \in Instants /\ materialized = {}
  BY DEF Init
<1>2. NoRun \in Run /\ RunChecks(NoRun) /\ NoRun.status = "absent" /\ NoJob.status = "absent"
  BY DEF NoRun, Run, RunChecks, NoJob
<1>3. NoJob \in Job /\ JobChecks(NoJob)
  BY NoJobGood DEF GoodJob
<1>4. TypeOK
  <2>1. /\ message \in [Ids -> Message \cup {NoMessage}]
        /\ request \in [asked : SUBSET Ids, queued : SUBSET Ids, reported : SUBSET Ids]
    BY DEF Init
  <2>2. /\ job \in [Ids -> Job] /\ \A j \in Ids : JobChecks(job[j])
        /\ run \in [RunKeys -> Run] /\ \A r \in RunKeys : RunChecks(run[r])
    BY <1>2, <1>3 DEF Init
  <2>3. /\ pc \in [Workers -> WorkerPlaces] /\ lease \in [Workers -> HeldLease]
        /\ process \in [Workers -> 1..MaxRuns]
    BY NoLeaseType, LimitAssumption DEF LimitAssumption, Init, WorkerPlaces
  <2>. QED
    BY <1>1, <2>1, <2>2, <2>3 DEF TypeOK
<1>5. CompletedIsMaterialized
  BY <1>1, <1>2, KeyOfRun DEF CompletedIsMaterialized
<1>6. JobsFollowMessages /\ RunsAreCounted
  BY <1>1, <1>2 DEF JobsFollowMessages, RunsAreCounted
<1>7. LeasesAreCounted /\ LeasesDiffer
  <2>1. \A w \in Workers : ~Busy(w)
    BY <1>1 DEF Busy
  <2>. QED
    BY <2>1 DEF LeasesAreCounted, LeasesDiffer
<1>. QED
  BY <1>4, <1>5, <1>6, <1>7 DEF Inv

LEMMA NextInv == Inv /\ [Next]_vars => Inv' /\ KeepsVerdicts
<1>. SUFFICES ASSUME Inv, [Next]_vars PROVE Inv' /\ KeepsVerdicts
  OBVIOUS
<1>1. CASE UNCHANGED vars
  <2>1. UNCHANGED <<now, message, job, run, materialized, pc, process, lease, request>>
    BY <1>1 DEF vars
  <2>2. TypeOK'
    BY <2>1 DEF Inv, TypeOK, RunKey
  <2>3. CompletedIsMaterialized' /\ JobsFollowMessages' /\ RunsAreCounted'
    BY <2>1 DEF Inv, CompletedIsMaterialized, JobsFollowMessages, RunsAreCounted
  <2>4. LeasesAreCounted' /\ LeasesDiffer'
    BY <2>1 DEF Inv, LeasesAreCounted, LeasesDiffer, Busy, RunKey
  <2>. QED
    BY <2>1, <2>2, <2>3, <2>4 DEF Inv, KeepsVerdicts
<1>2. CASE \E m \in Ids : Save(m)
  BY <1>2, SaveStep
<1>3. CASE \E w \in Workers : WorkerStep(w)
  BY <1>3, WorkerStepInv
<1>4. CASE CancelReads
  BY <1>4, CancelReadsStep
<1>5. CASE CancelWrites
  BY <1>5, CancelWritesStep
<1>6. CASE Tick
  BY <1>6, TickStep
<1>. QED
  BY <1>1, <1>2, <1>3, <1>4, <1>5, <1>6 DEF Next

LEMMA Invariance == Spec => []Inv
<1>1. Inv /\ [Next]_vars => Inv'
  BY NextInv
<1>. QED
  BY <1>1, InitInv, PTL DEF Spec

(* Every reachable state is well formed: among it, every row of detection_jobs and
   detection_runs that a transaction commits satisfies the CHECK constraints. *)
THEOREM TypeCorrect == Spec => []TypeOK
<1>1. Inv => TypeOK
  BY DEF Inv
<1>. QED
  BY <1>1, Invariance, PTL

(* For any number of workers, messages and attempts: a job is completed exactly
   when one of its runs succeeded, and the tasks of a run were made exactly when
   it succeeded, although complete and fail write after they have read. *)
THEOREM CompletedMaterialized == Spec => []CompletedIsMaterialized
<1>1. Inv => CompletedIsMaterialized
  BY DEF Inv
<1>. QED
  BY <1>1, Invariance, PTL

(* Likewise no late completion, late failure, recovery or cancellation changes a
   job that was completed or cancelled, or a run that has an outcome. *)
THEOREM VerdictFinal == Spec => VerdictIsFinal
<1>1. Inv /\ [Next]_vars => KeepsVerdicts
  BY NextInv
<1>2. KeepsVerdicts =>
        /\ \A j \in Ids : job[j].status \in {"completed", "cancelled"} => job'[j] = job[j]
        /\ \A r \in RunKeys : run[r].status \in {"succeeded", "failed"} =>
               run'[r] = run[r]
  BY DEF KeepsVerdicts
<1>. QED
  BY <1>1, <1>2, Invariance, PTL DEF Spec, VerdictIsFinal

-----------------------------------------------------------------------------
(* The batches.  No step but a Save touches the messages of a job, and what a
   process holds of its job stays as it was given. *)

SameBatch(r, s) == s.trigger = r.trigger /\ s.since = r.since /\ s.batch = r.batch

LEMMA TakenKeepsBatch ==
    ASSUME NEW r \in Job, NEW id, NEW at
    PROVE  SameBatch(r, TakenJob(r, id, at))
  BY DEF SameBatch, TakenJob, Job

LEMMA RecoveredKeepsBatch ==
    ASSUME NEW r \in Job, NEW at
    PROVE  SameBatch(r, RecoveredJob(r, at))
<1>. DEFINE x == IF r.attempt >= MaxAttempts THEN "dead" ELSE "queued"
<1>1. x \in JobStatuses
  BY DEF JobStatuses
<1>2. RecoveredJob(r, at) =
          IF Expired(r, at) THEN [Unleased(r, x) EXCEPT !.ready = at] ELSE r
  BY DEF RecoveredJob
<1>3. SameBatch(r, r)
  BY DEF SameBatch
<1>. HIDE DEF x
<1>. QED
  BY <1>1, <1>2, <1>3 DEF SameBatch, Unleased, Job

(* What a claim takes. *)
Takes(w) == \E j \in Ready(Recovered, now) : Take(w, Recovered, j)

LEMMA ClaimsTake ==
    ASSUME NEW w, Claim(w) \/ \E j \in Ids : ClaimJob(w, j)
    PROVE  /\ pc[w] = "idle" /\ run' = RecoveredRuns(now)
           /\ \/ job' = Recovered /\ UNCHANGED workerVars
              \/ Takes(w)
           /\ UNCHANGED <<now, message, materialized, request>>
  BY DEF Claim, ClaimJob, Recovered, Takes

(* The step of a worker by what it writes of jobs and holds afterwards. *)
LEMMA WorkerWrites ==
    ASSUME Inv, NEW w \in Workers, WorkerStep(w)
    PROVE  /\ UNCHANGED <<now, message>>
           /\ \/ UNCHANGED job
              \/ job' = Recovered
              \/ Takes(w)
              \/ Busy(w) /\ job' = [job EXCEPT ![lease[w].job] = CompletedJob(w)]
              \/ Busy(w) /\ job' = [job EXCEPT ![lease[w].job] = FailedJob(w)]
<1>1. CASE \/ Prepare(w) \/ ModelAnswers(w) \/ ModelFails(w) \/ CompleteReads(w)
           \/ TasksFail(w) \/ FailReads(w) \/ Crash(w) \/ Restart(w) \/ StartRun(w)
  BY <1>1 DEF Prepare, ModelAnswers, ModelFails, CompleteReads, TasksFail,
              FailReads, Crash, Restart, StartRun
<1>2. CASE Claim(w) \/ \E j \in Ids : ClaimJob(w, j)
  BY <1>2, ClaimsTake
<1>3. CASE CompleteWrites(w)
  BY <1>3 DEF CompleteWrites, Busy
<1>4. CASE FailWrites(w)
  BY <1>4 DEF FailWrites, Busy
<1>. QED
  BY <1>1, <1>2, <1>3, <1>4 DEF WorkerStep, Work

LEMMA TakeWrites ==
    ASSUME Inv, NEW w \in Workers, Takes(w)
    PROVE  \E j \in Ids :
              /\ Recovered[j].status = "queued" /\ Recovered[j].attempt < MaxAttempts
              /\ job' \in [Ids -> Job]
              /\ \A i \in Ids : job'[i] = IF i = j THEN TakenJob(Recovered[j], WorkerId(w), now)
                                                   ELSE Recovered[i]
              /\ lease' = [lease EXCEPT ![w] =
                              Held(j, Recovered[j].attempt + 1, Recovered[j].trigger)]
              /\ pc' = [pc EXCEPT ![w] = "claimed"]
<1>1. PICK j \in Ids : /\ Recovered[j].status = "queued"
                       /\ Recovered[j].attempt < MaxAttempts
                       /\ Take(w, Recovered, j)
  BY DEF Takes, Ready
<1>. DEFINE row == TakenJob(Recovered[j], WorkerId(w), now)
<1>2. Recovered \in [Ids -> Job] /\ now \in Int
  BY RecoveredTables, TypeOKRows DEF Jobs
<1>3. row \in Job
  <2>1. WorkerId(w) \in WorkerIds /\ Recovered[j] \in Job
    BY <1>2 DEF WorkerId, WorkerIds, Inv, TypeOK
  <2>. QED
    BY <1>1, <1>2, <2>1, TakenRow
<1>4. /\ job' = [Recovered EXCEPT ![j] = row]
      /\ lease' = [lease EXCEPT ![w] =
                      Held(j, Recovered[j].attempt + 1, Recovered[j].trigger)]
      /\ pc' = [pc EXCEPT ![w] = "claimed"]
  BY <1>1 DEF Take
<1>. HIDE DEF row
<1>5. /\ job' \in [Ids -> Job]
      /\ \A i \in Ids : job'[i] = IF i = j THEN row ELSE Recovered[i]
  BY <1>2, <1>3, <1>4
<1>. QED
  BY <1>1, <1>4, <1>5 DEF row

LEMMA WorkersKeepBatches ==
    ASSUME Inv, NEW w \in Workers, WorkerStep(w)
    PROVE  \A j \in Ids : SameBatch(job[j], job'[j])
<1>1. /\ job \in [Ids -> Job]
      /\ \A j \in Ids : Recovered[j] = RecoveredJob(job[j], now)
      /\ Recovered \in [Ids -> Job]
  BY RecoveredTables DEF Recovered, Inv, TypeOK, Jobs
<1>2. \A j \in Ids : SameBatch(job[j], Recovered[j])
  BY <1>1, RecoveredKeepsBatch
<1>3. \A j \in Ids : SameBatch(job[j], job[j])
  BY DEF SameBatch
<1>4. CASE Takes(w)
  <2>1. PICK j \in Ids :
            \A i \in Ids : job'[i] = IF i = j THEN TakenJob(Recovered[j], WorkerId(w), now)
                                              ELSE Recovered[i]
    BY <1>4, TakeWrites
  <2>2. SameBatch(Recovered[j], TakenJob(Recovered[j], WorkerId(w), now))
    BY <1>1, TakenKeepsBatch
  <2>3. SameBatch(job[j], job'[j])
    BY <1>2, <2>1, <2>2 DEF SameBatch
  <2>. QED
    BY <1>2, <2>1, <2>3
<1>5. ASSUME NEW row, Busy(w), SameBatch(job[lease[w].job], row),
             job' = [job EXCEPT ![lease[w].job] = row]
      PROVE  \A j \in Ids : SameBatch(job[j], job'[j])
  BY <1>1, <1>3, <1>5
<1>6. Busy(w) => /\ SameBatch(job[lease[w].job], CompletedJob(w))
                 /\ SameBatch(job[lease[w].job], FailedJob(w))
  <2>. DEFINE x == IF lease[w].attempt >= MaxAttempts THEN "dead" ELSE "queued"
              old == job[lease[w].job]
  <2>1. Busy(w) => old \in Job
    BY <1>1, BusyLease
  <2>2. /\ FailedJob(w) = [Unleased(old, x) EXCEPT !.ready = lease[w].retryAt]
        /\ CompletedJob(w) = [Unleased(old, "completed") EXCEPT !.completed = TRUE]
    BY DEF FailedJob, CompletedJob
  <2>3. x \in JobStatuses /\ "completed" \in JobStatuses
    BY DEF JobStatuses
  <2>. HIDE DEF x, old
  <2>4. Busy(w) => SameBatch(old, CompletedJob(w)) /\ SameBatch(old, FailedJob(w))
    BY <2>1, <2>2, <2>3 DEF SameBatch, Unleased, Job
  <2>. QED
    BY <2>4 DEF old
<1>. QED
  BY <1>2, <1>3, <1>4, <1>5, <1>6, WorkerWrites

(* After a step of w, whoever is busy holds what it held, or w has just claimed. *)
LEMMA WorkerHolds ==
    ASSUME Inv, NEW w \in Workers, WorkerStep(w), NEW v \in Workers, Busy(v)'
    PROVE  \/ /\ Busy(v)
              /\ lease'[v].job = lease[v].job /\ lease'[v].attempt = lease[v].attempt
              /\ lease'[v].trigger = lease[v].trigger
           \/ v = w /\ Takes(w)
<1>0. pc \in [Workers -> WorkerPlaces] /\ lease \in [Workers -> HeldLease]
  BY DEF Inv, TypeOK
<1>1. CASE Claim(w) \/ \E j \in Ids : ClaimJob(w, j)
  <2>1. CASE UNCHANGED workerVars
    BY <2>1 DEF workerVars, Busy
  <2>2. CASE Takes(w) /\ v # w
    <3>1. \E x, y : pc' = [pc EXCEPT ![w] = x] /\ lease' = [lease EXCEPT ![w] = y]
      BY <2>2, TakeWrites
    <3>. QED
      BY <1>0, <2>2, <3>1 DEF Busy
  <2>. QED
    BY <1>1, <2>1, <2>2, ClaimsTake
<1>2. CASE \E q : Forget(w, q) /\ q \in {"idle", "down"}
  BY <1>0, <1>2 DEF Forget, Busy
<1>3. CASE Busy(w) /\ \E q : Goto(w, q)
  BY <1>0, <1>3 DEF Goto, Busy
<1>4. CASE /\ Busy(w)
           /\ \E q, x : /\ pc' = [pc EXCEPT ![w] = q]
                        /\ \/ lease' = [lease EXCEPT ![w].focus = x]
                           \/ lease' = [lease EXCEPT ![w].retryAt = x]
  <2>1. v # w => Busy(v) /\ lease'[v] = lease[v]
    BY <1>0, <1>4 DEF Busy
  <2>2. /\ lease'[w].job = lease[w].job /\ lease'[w].attempt = lease[w].attempt
        /\ lease'[w].trigger = lease[w].trigger
    BY <1>0, <1>4 DEF HeldLease
  <2>. QED
    BY <1>4, <2>1, <2>2
<1>5. CASE Restart(w)
  BY <1>0, <1>5 DEF Restart, Busy
<1>6. \/ Claim(w) \/ (\E j \in Ids : ClaimJob(w, j)) \/ Restart(w)
      \/ \E q : Forget(w, q) /\ q \in {"idle", "down"}
      \/ Busy(w) /\ \E q : Goto(w, q)
      \/ /\ Busy(w)
         /\ \E q, x : /\ pc' = [pc EXCEPT ![w] = q]
                      /\ \/ lease' = [lease EXCEPT ![w].focus = x]
                         \/ lease' = [lease EXCEPT ![w].retryAt = x]
  <2>1. CASE StartRun(w) \/ ModelAnswers(w) \/ ModelFails(w) \/ TasksFail(w)
    BY <2>1 DEF StartRun, ModelAnswers, ModelFails, TasksFail, Busy
  <2>2. CASE CompleteReads(w)
    BY <2>2 DEF CompleteReads, Busy
  <2>3. CASE CompleteWrites(w) \/ FailWrites(w) \/ Crash(w)
    BY <2>3 DEF CompleteWrites, FailWrites, Crash
  <2>4. CASE Prepare(w)
    BY <2>4 DEF Prepare, Busy
  <2>5. CASE FailReads(w)
    BY <2>5 DEF FailReads, Busy
  <2>. QED
    BY <2>1, <2>2, <2>3, <2>4, <2>5 DEF WorkerStep, Work
<1>. QED
  BY <1>1, <1>2, <1>3, <1>4, <1>5, <1>6

(* A conversation is totally ordered. *)
LEMMA Ordered ==
    ASSUME NEW msgs \in [Ids -> Message \cup {NoMessage}], NEW m \in Ids, NEW n \in Ids
    PROVE  /\ AtOrBefore(msgs, m, m)
           /\ AtOrBefore(msgs, m, n) \/ AtOrBefore(msgs, n, m)
           /\ \A k \in Ids : AtOrBefore(msgs, k, m) /\ AtOrBefore(msgs, m, n) =>
                                 AtOrBefore(msgs, k, n)
<1>1. \A x \in Message \cup {NoMessage} : x.created \in Int
  <2>1. \A x \in Message : x.created \in Int
    BY DEF Message
  <2>2. NoMessage.created \in Int
    BY DEF NoMessage
  <2>. QED
    BY <2>1, <2>2
<1>2. \A k \in Ids : msgs[k].created \in Int
  BY <1>1
<1>3. \A k \in Ids : k \in Int
  BY IdAssumption DEF IdAssumption
<1>. QED
  BY <1>2, <1>3 DEF AtOrBefore, Before

(* A batch has its trigger and ends with it, and it has nothing but messages that
   may start a detection and arrived after it began. *)
BatchesFit ==
    \A j \in Ids :
        /\ job[j] # NoJob => job[j].since <= now /\ job[j].trigger \in job[j].batch
        /\ \A m \in job[j].batch : /\ message[m].kind = "chat"
                                   /\ message[m].received >= job[j].since
                                   /\ AtOrBefore(message, m, job[j].trigger)

(* No message joins a batch that somebody has claimed. *)
TriggersHeld == \A w \in Workers : Busy(w) => lease[w].trigger = job[lease[w].job].trigger

Saved(msgs) == {m \in Ids : msgs[m].kind # "none"}

BatchInv == Inv /\ BatchesFit /\ TriggersHeld /\ IsFiniteSet(Saved(message))

LEMMA SaveWrites ==
    ASSUME NEW m \in Ids, Inv, Save(m)
    PROVE  /\ message[m].kind = "none" /\ job[m] = NoJob
           /\ UNCHANGED <<now, run, materialized, pc, process, lease, request>>
           /\ \E row \in Message :
                 /\ row.received = now /\ row.kind # "none"
                 /\ message' = [message EXCEPT ![m] = row]
                 /\ \/ UNCHANGED job
                    \/ row.kind = "chat" /\ job' = [job EXCEPT ![m] = Created(m)]
                    \/ /\ row.kind = "chat"
                       /\ \E j \in Ids :
                             /\ job[j].status = "queued" /\ job[j].attempt = 0
                             /\ job' = [job EXCEPT ![j] = Coalesced(job[j], message', m)]
<1>1. PICK created \in Instants, size \in Sizes, kind \in MessageKinds \ {"none"} :
          LET row == [created |-> created, received |-> now, size |-> size, kind |-> kind]
              msgs == [message EXCEPT ![m] = row]
          IN  /\ message' = msgs
              /\ IF kind = "chat" THEN Enqueue(msgs, m) ELSE UNCHANGED job
  BY DEF Save
<1>. DEFINE row == [created |-> created, received |-> now, size |-> size, kind |-> kind]
<1>2. row \in Message /\ row.received = now /\ row.kind = kind /\ kind # "none"
  BY TypeOKRows, ClockAssumption DEF ClockAssumption, Message
<1>3. message' = [message EXCEPT ![m] = row]
  BY <1>1
<1>4. \/ UNCHANGED job
      \/ kind = "chat" /\ job' = [job EXCEPT ![m] = Created(m)]
      \/ /\ kind = "chat"
         /\ \E j \in Ids : /\ job[j].status = "queued" /\ job[j].attempt = 0
                           /\ job' = [job EXCEPT ![j] = Coalesced(job[j], message', m)]
  BY <1>1 DEF Enqueue, Coalescible
<1>. HIDE DEF row
<1>5. message[m].kind = "none"
      /\ UNCHANGED <<now, run, materialized, pc, process, lease, request>>
  BY DEF Save
<1>. QED
  BY <1>2, <1>3, <1>4, <1>5 DEF Inv, JobsFollowMessages

LEMMA SaveKeepsBatches ==
    ASSUME BatchInv, NEW m \in Ids, Save(m)
    PROVE  BatchesFit' /\ TriggersHeld' /\ IsFiniteSet(Saved(message))'
<1>1. PICK row \in Message :
          /\ row.received = now /\ row.kind # "none"
          /\ message' = [message EXCEPT ![m] = row]
          /\ \/ UNCHANGED job
             \/ row.kind = "chat" /\ job' = [job EXCEPT ![m] = Created(m)]
             \/ /\ row.kind = "chat"
                /\ \E j \in Ids :
                      /\ job[j].status = "queued" /\ job[j].attempt = 0
                      /\ job' = [job EXCEPT ![j] = Coalesced(job[j], message', m)]
  BY SaveWrites DEF BatchInv
<1>2. /\ message[m].kind = "none" /\ job[m] = NoJob
      /\ UNCHANGED <<now, pc, process, lease>>
  BY SaveWrites DEF BatchInv
<1>3. /\ message \in [Ids -> Message \cup {NoMessage}]
      /\ message' \in [Ids -> Message \cup {NoMessage}]
      /\ message'[m] = row /\ \A n \in Ids \ {m} : message'[n] = message[n]
      /\ job \in [Ids -> Job] /\ now \in Int
  BY <1>1, TypeOKRows DEF BatchInv, Inv, TypeOK
<1>4. IsFiniteSet(Saved(message))'
  <2>1. Saved(message') = Saved(message) \cup {m}
    BY <1>1, <1>3 DEF Saved
  <2>2. IsFiniteSet(Saved(message) \cup {m})
    BY FS_AddElement DEF BatchInv
  <2>. QED
    BY <2>1, <2>2
(* The messages of a batch stay in order, because they are saved already. *)
<1>5. ASSUME NEW j \in Ids
      PROVE  /\ m \notin job[j].batch /\ job[j].batch \subseteq Ids
             /\ job[j] # NoJob => /\ job[j].since <= now /\ job[j].since \in Int
                                  /\ job[j].trigger \in job[j].batch
             /\ \A n \in job[j].batch : /\ message'[n].kind = "chat"
                                        /\ message'[n].received >= job[j].since
                                        /\ AtOrBefore(message', n, job[j].trigger)
  <2>1. m \notin job[j].batch
    BY <1>2 DEF BatchInv, BatchesFit
  <2>2. job[j].batch \subseteq Ids /\ job[j].since \in Int
    BY <1>3 DEF Job
  <2>3. job[j] = NoJob => job[j].batch = {}
    BY DEF NoJob
  <2>4. /\ job[j] # NoJob => job[j].since <= now /\ job[j].trigger \in job[j].batch
        /\ \A n \in job[j].batch : /\ message[n].kind = "chat"
                                   /\ message[n].received >= job[j].since
                                   /\ AtOrBefore(message, n, job[j].trigger)
    BY DEF BatchInv, BatchesFit
  <2>5. ASSUME NEW n \in job[j].batch
        PROVE  message'[n] = message[n] /\ AtOrBefore(message', n, job[j].trigger)
    <3>1. n # m /\ n \in Ids /\ job[j].trigger # m /\ job[j].trigger \in Ids
      BY <2>1, <2>2, <2>3, <2>4
    <3>2. message'[n] = message[n] /\ message'[job[j].trigger] = message[job[j].trigger]
      BY <1>3, <3>1
    <3>. QED
      BY <2>4, <3>2 DEF AtOrBefore, Before
  <2>. QED
    BY <2>1, <2>2, <2>4, <2>5
<1>6. AtOrBefore(message', m, m)
  BY <1>3, Ordered
<1>7. CASE UNCHANGED job
  <2>1. BatchesFit'
    BY <1>2, <1>5, <1>7 DEF BatchesFit
  <2>. QED
    BY <1>2, <1>4, <1>7, <2>1 DEF BatchInv, TriggersHeld, Busy
(* Whoever is busy holds an attempt that is counted, hence of another job. *)
<1>8. ASSUME NEW i \in Ids, job[i].attempt = 0, NEW x, job' = [job EXCEPT ![i] = x]
      PROVE  TriggersHeld'
  <2>1. ASSUME NEW w \in Workers, Busy(w)
        PROVE  lease[w].job # i /\ job'[lease[w].job] = job[lease[w].job]
    <3>1. /\ lease[w].job \in Ids /\ lease[w].attempt \in 1..MaxAttempts
          /\ lease[w].attempt <= job[lease[w].job].attempt
      BY <2>1, BusyLease DEF BatchInv
    <3>. QED
      BY <1>3, <1>8, <3>1
  <2>. QED
    BY <1>2, <2>1 DEF BatchInv, TriggersHeld, Busy
<1>9. CASE row.kind = "chat" /\ job' = [job EXCEPT ![m] = Created(m)]
  <2>1. Created(m).trigger = m /\ Created(m).since = now /\ Created(m).batch = {m}
    BY DEF Created, NoJob
  <2>2. \A j \in Ids : job'[j] = IF j = m THEN Created(m) ELSE job[j]
    BY <1>3, <1>9
  <2>. HIDE DEF Created
  <2>3. BatchesFit'
    <3>1. ASSUME NEW j \in Ids \ {m}
          PROVE  /\ job'[j] = job[j] /\ (job'[j] # NoJob => job[j].since <= now')
                 /\ \A n \in job'[j].batch :
                       /\ message'[n].kind = "chat"
                       /\ message'[n].received >= job'[j].since
                       /\ AtOrBefore(message', n, job'[j].trigger)
      BY <1>2, <1>5, <2>2
    <3>2. /\ job'[m].since <= now' /\ job'[m].trigger \in job'[m].batch
          /\ \A n \in job'[m].batch :
                /\ message'[n].kind = "chat"
                /\ message'[n].received >= job'[m].since
                /\ AtOrBefore(message', n, job'[m].trigger)
      BY <1>1, <1>2, <1>3, <1>6, <1>9, <2>1, <2>2
    <3>. QED
      BY <1>5, <3>1, <3>2 DEF BatchesFit
  <2>4. job[m].attempt = 0
    BY <1>2 DEF NoJob
  <2>. QED
    BY <1>4, <1>8, <1>9, <2>3, <2>4
<1>10. ASSUME row.kind = "chat", NEW i \in Ids,
              job[i].status = "queued", job[i].attempt = 0,
              job' = [job EXCEPT ![i] = Coalesced(job[i], message', m)]
       PROVE  BatchesFit' /\ TriggersHeld' /\ IsFiniteSet(Saved(message))'
  <2>. DEFINE old == job[i]
              new == Coalesced(old, message', m)
  <2>1. /\ new.trigger = LatestTrigger(message', old.trigger, m)
        /\ new.since = old.since /\ new.batch = old.batch \cup {m}
    BY <1>3 DEF Coalesced, Job
  <2>2. old # NoJob
    BY <1>10 DEF NoJob
  <2>3. \A j \in Ids : job'[j] = IF j = i THEN new ELSE job[j]
    BY <1>3, <1>10
  <2>4. old.trigger \in old.batch /\ old.batch \subseteq Ids /\ old.trigger \in Ids
    BY <1>5, <2>2
  <2>5. /\ new.trigger \in new.batch
        /\ \A n \in new.batch : AtOrBefore(message', n, new.trigger)
    <3>1. \/ AtOrBefore(message', old.trigger, m) /\ new.trigger = m
          \/ ~AtOrBefore(message', old.trigger, m) /\ new.trigger = old.trigger
      BY <2>1 DEF LatestTrigger
    <3>2. \A n \in old.batch : AtOrBefore(message', n, old.trigger)
      BY <1>5
    <3>3. CASE AtOrBefore(message', old.trigger, m) /\ new.trigger = m
      BY <1>3, <1>6, <2>1, <2>4, <3>2, <3>3, Ordered
    <3>4. CASE ~AtOrBefore(message', old.trigger, m) /\ new.trigger = old.trigger
      <4>1. AtOrBefore(message', m, old.trigger)
        BY <1>3, <2>4, <3>4, Ordered
      <4>. QED
        BY <2>1, <2>4, <3>2, <3>4, <4>1
    <3>. QED
      BY <3>1, <3>3, <3>4
  <2>6. \A n \in new.batch : message'[n].kind = "chat" /\ message'[n].received >= new.since
    BY <1>1, <1>3, <1>5, <1>10, <2>1, <2>2
  <2>7. new.since <= now
    BY <1>5, <2>1, <2>2
  <2>. HIDE DEF new, old
  <2>8. BatchesFit'
    BY <1>2, <1>5, <2>3, <2>5, <2>6, <2>7 DEF BatchesFit
  <2>. QED
    BY <1>4, <1>8, <1>10, <2>8
<1>. QED
  BY <1>1, <1>7, <1>9, <1>10, <1>4

LEMMA SameBatchesFit ==
    ASSUME BatchInv, UNCHANGED message, now' \in Int, now' >= now,
           \A j \in Ids : SameBatch(job[j], job'[j]) /\ (job[j] = NoJob => job'[j] = NoJob)
    PROVE  BatchesFit' /\ IsFiniteSet(Saved(message))'
<1>1. now \in Int /\ \A j \in Ids : job[j].since \in Int
  BY TypeOKRows DEF BatchInv, Jobs, Job
<1>. QED
  BY <1>1 DEF BatchInv, BatchesFit, SameBatch

LEMMA WorkerKeepsBatchInv ==
    ASSUME BatchInv, NEW w \in Workers, WorkerStep(w)
    PROVE  BatchesFit' /\ TriggersHeld' /\ IsFiniteSet(Saved(message))'
<1>1. /\ \A j \in Ids : SameBatch(job[j], job'[j])
      /\ UNCHANGED <<now, message>>
  BY WorkersKeepBatches, WorkerWrites DEF BatchInv
<1>2. now \in Int
  BY TypeOKRows DEF BatchInv
<1>3. ASSUME NEW j \in Ids, job[j] = NoJob
      PROVE  job'[j] = NoJob
  <2>1. Recovered[j] = NoJob
    BY <1>3, RecoveredTables DEF BatchInv, NoJob
  <2>2. Busy(w) => lease[w].job # j /\ lease[w].job \in Ids
    BY <1>3, BusyLease DEF BatchInv, NoJob
  <2>3. Takes(w) => job'[j] = Recovered[j]
    BY <2>1, TakeWrites DEF BatchInv, NoJob
  <2>4. job \in [Ids -> Job]
    BY DEF BatchInv, Inv, TypeOK
  <2>. QED
    BY <1>3, <2>1, <2>2, <2>3, <2>4, WorkerWrites DEF BatchInv
<1>4. BatchesFit' /\ IsFiniteSet(Saved(message))'
  BY <1>1, <1>2, <1>3, SameBatchesFit
<1>5. ASSUME NEW v \in Workers, Busy(v)'
      PROVE  lease'[v].trigger = job'[lease'[v].job].trigger
  <2>1. CASE /\ Busy(v)
             /\ lease'[v].job = lease[v].job /\ lease'[v].trigger = lease[v].trigger
    <3>1. lease[v].job \in Ids
      BY <2>1, BusyLease DEF BatchInv
    <3>. QED
      BY <1>1, <2>1, <3>1 DEF BatchInv, TriggersHeld, SameBatch
  <2>2. CASE v = w /\ Takes(w)
    <3>1. PICK j \in Ids :
              /\ \A i \in Ids : job'[i] = IF i = j
                                          THEN TakenJob(Recovered[j], WorkerId(w), now)
                                          ELSE Recovered[i]
              /\ lease' = [lease EXCEPT ![w] =
                              Held(j, Recovered[j].attempt + 1, Recovered[j].trigger)]
      BY <2>2, TakeWrites DEF BatchInv
    <3>2. lease'[w].job = j /\ lease'[w].trigger = Recovered[j].trigger
      BY <3>1 DEF Held, BatchInv, Inv, TypeOK
    <3>3. Recovered[j] \in Job
      BY RecoveredTables DEF BatchInv, Jobs
    <3>4. job'[j].trigger = Recovered[j].trigger
      BY <3>1, <3>3, TakenKeepsBatch DEF SameBatch
    <3>. QED
      BY <2>2, <3>2, <3>4
  <2>. QED
    BY <1>5, <2>1, <2>2, WorkerHolds DEF BatchInv
<1>. QED
  BY <1>4, <1>5 DEF TriggersHeld

LEMMA OthersWrite ==
    /\ CancelReads => UNCHANGED <<now, message, job, run, materialized, pc, process, lease>>
    /\ CancelWrites => UNCHANGED <<now, message, run, materialized, pc, process, lease>>
    /\ Tick => /\ UNCHANGED <<message, job, run, materialized, pc, process, lease>>
               /\ now' \in Instants /\ now' > now
    /\ UNCHANGED vars => UNCHANGED <<now, message, job, run, materialized, pc, process, lease>>
<1>1. CancelReads => UNCHANGED <<now, message, job, run, materialized, pc, process, lease>>
  BY DEF CancelReads
<1>2. CancelWrites => UNCHANGED <<now, message, run, materialized, pc, process, lease>>
  BY DEF CancelWrites
<1>3. Tick => /\ UNCHANGED <<message, job, run, materialized, pc, process, lease>>
              /\ now' \in Instants /\ now' > now
  BY DEF Tick
<1>4. UNCHANGED vars => UNCHANGED <<now, message, job, run, materialized, pc, process, lease>>
  BY DEF vars
<1>. QED
  BY <1>1, <1>2, <1>3, <1>4

LEMMA OthersKeepBatchInv ==
    ASSUME BatchInv, CancelReads \/ CancelWrites \/ Tick \/ UNCHANGED vars
    PROVE  BatchesFit' /\ TriggersHeld' /\ IsFiniteSet(Saved(message))'
<1>1. /\ UNCHANGED <<message, pc, lease>>
      /\ \/ now' = now
         \/ now' \in Instants /\ now' > now
      /\ UNCHANGED job \/ CancelWrites
  BY OthersWrite
<1>2. now \in Int /\ now' \in Int /\ now' >= now
  <2>1. now \in Int
    BY TypeOKRows DEF BatchInv
  <2>2. now' = now \/ (now' \in Int /\ now' > now)
    BY <1>1, ClockAssumption DEF ClockAssumption
  <2>. QED
    BY <2>1, <2>2
<1>3. \A j \in Ids : SameBatch(job[j], job'[j]) /\ (job[j] = NoJob => job'[j] = NoJob)
  <2>1. CASE UNCHANGED job
    BY <2>1 DEF SameBatch
  <2>2. ASSUME CancelWrites, NEW j \in Ids
        PROVE  SameBatch(job[j], job'[j]) /\ (job[j] = NoJob => job'[j] = NoJob)
    <3>. DEFINE row == [Unleased(job[j], "cancelled") EXCEPT !.cancelled = TRUE]
    <3>1. job[j] \in Job
      BY DEF BatchInv, Inv, TypeOK
    <3>2. SameBatch(job[j], row)
      BY <3>1 DEF SameBatch, Unleased, Job
    <3>. HIDE DEF row
    <3>3. job'[j] = IF j \in request.queued /\ job[j].status = "queued" THEN row ELSE job[j]
      BY <2>2 DEF CancelWrites, row
    <3>. QED
      BY <3>2, <3>3 DEF SameBatch, NoJob
  <2>. QED
    BY <1>1, <2>1, <2>2
<1>4. BatchesFit' /\ IsFiniteSet(Saved(message))'
  BY <1>1, <1>2, <1>3, SameBatchesFit
<1>5. \A w \in Workers : Busy(w) => lease[w].job \in Ids
  BY BusyLease DEF BatchInv
<1>6. TriggersHeld'
  BY <1>1, <1>3, <1>5 DEF BatchInv, TriggersHeld, SameBatch, Busy
<1>. QED
  BY <1>4, <1>6

LEMMA NextBatchInv == BatchInv /\ [Next]_vars => BatchInv'
<1>. SUFFICES ASSUME BatchInv, [Next]_vars PROVE BatchInv'
  OBVIOUS
<1>1. Inv'
  BY NextInv DEF BatchInv
<1>2. BatchesFit' /\ TriggersHeld' /\ IsFiniteSet(Saved(message))'
  BY SaveKeepsBatches, WorkerKeepsBatchInv, OthersKeepBatchInv DEF Next
<1>. QED
  BY <1>1, <1>2 DEF BatchInv

LEMMA BatchInvariance == Spec => []BatchInv
<1>1. Init => BatchInv
  <2>. SUFFICES ASSUME Init PROVE BatchInv
    OBVIOUS
  <2>1. Inv
    BY InitInv
  <2>2. BatchesFit /\ TriggersHeld
    BY DEF Init, BatchesFit, TriggersHeld, Busy, NoJob
  <2>3. Saved(message) = {}
    BY DEF Init, Saved, NoMessage
  <2>. QED
    BY <2>1, <2>2, <2>3, FS_EmptySet DEF BatchInv
<1>. QED
  BY <1>1, NextBatchInv, PTL DEF Spec

(* What is shown to the model of a batch, when the context of an attempt is built. *)
LEMMA BatchInFocus ==
    ASSUME BatchInv, NEW w \in Workers, pc[w] = "claimed",
           NEW m \in job[lease[w].job].batch, ~CutOff(m, lease[w].trigger)
    PROVE  m \in Focus(message, lease[w].trigger, job[lease[w].job].since)
<1>. DEFINE j == lease[w].job
            trigger == lease[w].trigger
            upTo == {n \in Human(message) : AtOrBefore(message, n, trigger)}
            later == {n \in upTo : Before(message, m, n)}
<1>1. j \in Ids /\ trigger = job[j].trigger
  BY BusyLease DEF BatchInv, TriggersHeld, Busy
<1>2. /\ message[m].kind = "chat" /\ message[m].received >= job[j].since
      /\ AtOrBefore(message, m, trigger)
  BY <1>1 DEF BatchInv, BatchesFit
<1>3. m \in Ids /\ DOMAIN message = Ids
  BY <1>1 DEF BatchInv, Inv, TypeOK, Job
<1>4. m \in upTo
  BY <1>2, <1>3 DEF Human
<1>5. Cardinality(later) \in Nat
  <2>1. later \subseteq Saved(message)
    BY <1>3 DEF Human, Saved
  <2>. HIDE DEF later
  <2>. QED
    BY <2>1, FS_Subset, FS_CardinalityType DEF BatchInv
<1>6. later = {n \in Human(message) : Before(message, m, n) /\ AtOrBefore(message, n, trigger)}
  OBVIOUS
<1>7. Cardinality(later) < ContextLimit
  <2>. HIDE DEF later
  <2>. QED
    BY <1>5, <1>6, ContextAssumption DEF ContextAssumption, CutOff
<1>8. m \in Window(message, trigger)
  BY <1>4, <1>7 DEF Window
<1>9. Connected(message, Window(message, trigger), m) /\ Fits(message, Window(message, trigger), m)
  BY DEF CutOff
<1>. QED
  BY <1>2, <1>8, <1>9 DEF Focus, Context

(* For any number of workers, any order of arrival and any limits of the context:
   an attempt that builds its context shows the model every message of its batch
   that the context is not cut before. *)
THEOREM BatchAnalysed == Spec => BatchIsAnalysed
<1>1. ASSUME BatchInv, [Next]_vars, NEW w \in Workers,
             pc[w] = "claimed", pc'[w] = "starting"
      PROVE  lease'[w].focus = Focus(message, lease[w].trigger, job[lease[w].job].since)
  <2>0. pc \in [Workers -> WorkerPlaces] /\ lease \in [Workers -> HeldLease]
    BY <1>1 DEF BatchInv, Inv, TypeOK
  <2>1. Prepare(w)
    <3>0. ~UNCHANGED pc
      BY <1>1
    <3>1. PICK v \in Workers : WorkerStep(v)
      BY <1>1, <3>0, Zenon DEF Next, Save, CancelReads, CancelWrites, Tick, vars
    <3>2. \A q : pc' = [pc EXCEPT ![v] = q] => v = w
      BY <1>1, <2>0
    <3>3. v = w
      BY <1>1, <3>1, <3>2
         DEF WorkerStep, Work, Claim, ClaimJob, Take, Prepare, StartRun, ModelAnswers,
             ModelFails, CompleteReads, CompleteWrites, TasksFail, FailReads, FailWrites,
             Crash, Restart, Forget, Goto, workerVars
    <3>4. ~Crash(w)
      BY <1>1, <2>0 DEF Crash, Forget
    <3>. QED
      BY <1>1, <3>1, <3>3, <3>4
         DEF WorkerStep, Work, Claim, ClaimJob, StartRun, ModelAnswers, ModelFails,
             CompleteReads, CompleteWrites, TasksFail, FailReads, FailWrites, Restart
  <2>2. \/ pc' = [pc EXCEPT ![w] = "down"]
        \/ pc' = [pc EXCEPT ![w] = "spoiled"]
        \/ lease' = [lease EXCEPT ![w].focus =
                        Focus(message, lease[w].trigger, job[lease[w].job].since)]
    BY <2>1 DEF Prepare, Forget
  <2>. QED
    BY <1>1, <2>0, <2>2 DEF HeldLease
<1>2. BatchInv /\ [Next]_vars =>
        \A w \in Workers : pc[w] = "claimed" /\ pc'[w] = "starting" =>
            \A m \in job[lease[w].job].batch :
                m \in lease'[w].focus \/ CutOff(m, lease[w].trigger)
  BY <1>1, BatchInFocus
<1>. QED
  BY <1>2, BatchInvariance, PTL DEF Spec, BatchIsAnalysed

-----------------------------------------------------------------------------
(* One worker slot.  Its process keeps the job it works on from being recovered:
   only a claim recovers, and only an idle process claims.  So the job is still
   running for the attempt in hand when its run is started and when its outcome is
   written, which is what fails with several workers. *)

JobHeld ==
    \A w \in Workers : Busy(w) => /\ job[lease[w].job].status = "running"
                                  /\ job[lease[w].job].attempt = lease[w].attempt

(* A job that runs has been claimed. *)
RunningIsCounted == \A j \in Ids : job[j].status = "running" => job[j].attempt >= 1

SlotInv == BatchInv /\ JobHeld /\ RunningIsCounted /\ RunningRunIsLeased

LEMMA RecoveredFate ==
    ASSUME NEW r \in Job, NEW at \in Int
    PROVE  LET s == RecoveredJob(r, at)
           IN  /\ s.attempt = r.attempt
               /\ IF Expired(r, at)
                  THEN s.status = IF r.attempt >= MaxAttempts THEN "dead" ELSE "queued"
                  ELSE s = r
<1>. DEFINE x == IF r.attempt >= MaxAttempts THEN "dead" ELSE "queued"
            s == [Unleased(r, x) EXCEPT !.ready = at]
<1>1. x \in JobStatuses
  BY DEF JobStatuses
<1>2. RecoveredJob(r, at) = IF Expired(r, at) THEN s ELSE r
  BY DEF RecoveredJob
<1>3. s.status = x /\ s.attempt = r.attempt
  <2>. HIDE DEF x
  <2>. QED  BY <1>1, ReturnedRow
<1>. HIDE DEF s
<1>. QED
  BY <1>2, <1>3

LEMMA RecoveredRunFails ==
    ASSUME Inv, NEW r \in RunKeys, run[r].status = "running", Expired(job[r[1]], now)
    PROVE  RecoveredRuns(now)[r].status = "failed"
<1>. DEFINE failed == [run[r] EXCEPT !.status = "failed", !.error = TRUE]
<1>1. GoodRun(run[r])
  BY TypeOKRows DEF Runs
<1>2. failed.status = "failed"
  BY <1>1 DEF GoodRun, Run
<1>3. RecoveredRuns(now)[r] = failed
  BY DEF RecoveredRuns
<1>. HIDE DEF failed
<1>. QED
  BY <1>2, <1>3

(* What a recovery leaves in the tables. *)
LEMMA RecoveryLeaves ==
    ASSUME SlotInv, NEW j \in Ids
    PROVE  /\ Recovered[j].status = "queued" => Recovered[j].attempt < MaxAttempts
           /\ Recovered[j].status = "running" => Recovered[j].attempt >= 1
           /\ \A a \in 1..MaxAttempts :
                 RecoveredRuns(now)[<<j, a>>].status = "running" =>
                     Recovered[j].status = "running" /\ Recovered[j].attempt = a
           /\ \/ Recovered[j] = job[j]
              \/ /\ job[j].status = "running" /\ Recovered[j].attempt >= 1
                 /\ Recovered[j].status \in {"queued", "dead"}
<1>1. Inv /\ job[j] \in Job /\ now \in Int /\ job[j].attempt \in 0..MaxAttempts
  BY TypeOKRows DEF SlotInv, BatchInv, Inv, TypeOK, Job
<1>2. /\ Recovered[j].attempt = job[j].attempt
      /\ IF Expired(job[j], now)
         THEN Recovered[j].status = IF job[j].attempt >= MaxAttempts THEN "dead" ELSE "queued"
         ELSE Recovered[j] = job[j]
  BY <1>1, RecoveredFate DEF Recovered
<1>3. job[j].status = "running" => job[j].attempt >= 1
  BY DEF SlotInv, RunningIsCounted
<1>4. Expired(job[j], now) => job[j].status = "running"
  BY DEF Expired
<1>5. /\ job[j].status = "queued" => job[j].attempt < MaxAttempts
      /\ \A a \in 1..MaxAttempts : run[<<j, a>>].status = "running" =>
             job[j].status = "running" /\ job[j].attempt = a
  BY DEF SlotInv, RunningRunIsLeased
<1>6. ASSUME NEW a \in 1..MaxAttempts, RecoveredRuns(now)[<<j, a>>].status = "running"
      PROVE  run[<<j, a>>].status = "running" /\ ~Expired(job[j], now)
  <2>1. \/ RecoveredRuns(now)[<<j, a>>] = run[<<j, a>>]
        \/ RecoveredRuns(now)[<<j, a>>].status = "failed"
    BY <1>1, KeyOfRun, RecoveredTables
  <2>2. run[<<j, a>>].status = "running"
    BY <1>6, <2>1
  <2>3. ~Expired(job[j], now)
    BY <1>1, <1>6, <2>2, KeyOfRun, RecoveredRunFails
  <2>. QED
    BY <2>2, <2>3
<1>7. Recovered[j].status = "queued" => Recovered[j].attempt < MaxAttempts
  BY <1>1, <1>2, <1>5, LimitAssumption DEF LimitAssumption
<1>8. \A a \in 1..MaxAttempts : RecoveredRuns(now)[<<j, a>>].status = "running" =>
          Recovered[j].status = "running" /\ Recovered[j].attempt = a
  BY <1>2, <1>5, <1>6
<1>. QED
  BY <1>2, <1>3, <1>4, <1>7, <1>8

SlotKept == JobHeld' /\ RunningIsCounted' /\ RunningRunIsLeased'

(* Whoever is busy after the step was busy with the same attempt before. *)
HoldsOn ==
    \A w \in Workers : Busy(w)' => /\ Busy(w) /\ lease'[w].job = lease[w].job
                                   /\ lease'[w].attempt = lease[w].attempt

LEMMA TakenBy ==
    ASSUME Inv, NEW w \in Workers, Takes(w)
    PROVE  \E j \in Ids :
              /\ Recovered[j].status = "queued" /\ Recovered[j].attempt \in 0..(MaxAttempts - 1)
              /\ job'[j].status = "running" /\ job'[j].attempt = Recovered[j].attempt + 1
              /\ \A i \in Ids \ {j} : job'[i] = Recovered[i]
              /\ lease'[w].job = j /\ lease'[w].attempt = job'[j].attempt
<1>1. PICK j \in Ids :
          /\ Recovered[j].status = "queued" /\ Recovered[j].attempt < MaxAttempts
          /\ \A i \in Ids : job'[i] = IF i = j THEN TakenJob(Recovered[j], WorkerId(w), now)
                                               ELSE Recovered[i]
          /\ lease' = [lease EXCEPT ![w] =
                          Held(j, Recovered[j].attempt + 1, Recovered[j].trigger)]
  BY TakeWrites
<1>2. Recovered[j] \in Job /\ now \in Int /\ WorkerId(w) \in WorkerIds
  BY RecoveredTables, TypeOKRows DEF Jobs, WorkerId, WorkerIds, Inv, TypeOK
<1>3. job'[j].status = "running" /\ job'[j].attempt = Recovered[j].attempt + 1
  BY <1>1, <1>2, TakenRow
<1>4. lease'[w].job = j /\ lease'[w].attempt = Recovered[j].attempt + 1
  BY <1>1 DEF Held, Inv, TypeOK
<1>5. Recovered[j].attempt \in 0..(MaxAttempts - 1)
  BY <1>1, <1>2, LimitAssumption DEF LimitAssumption, Job
<1>. QED
  BY <1>1, <1>3, <1>4, <1>5

LEMMA QuietKeeps ==
    ASSUME SlotInv, UNCHANGED <<job, run>>, HoldsOn
    PROVE  SlotKept
<1>1. JobHeld'
  BY DEF SlotInv, JobHeld, HoldsOn
<1>. QED
  BY <1>1 DEF SlotKept, SlotInv, RunningIsCounted, RunningRunIsLeased

LEMMA WorkerHoldsOn ==
    ASSUME SlotInv, NEW w \in Workers, WorkerStep(w), UNCHANGED job
    PROVE  HoldsOn
<1>1. ~Takes(w)
  <2>1. SUFFICES ASSUME Takes(w) PROVE FALSE
    OBVIOUS
  <2>2. PICK j \in Ids : /\ Recovered[j].attempt \in 0..(MaxAttempts - 1)
                         /\ job'[j].attempt = Recovered[j].attempt + 1
    BY <2>1, TakenBy DEF SlotInv, BatchInv
  <2>3. Recovered[j].attempt = job[j].attempt
    BY RecoveredTables DEF SlotInv, BatchInv
  <2>. QED
    BY <2>2, <2>3
<1>. QED
  BY <1>1, WorkerHolds DEF HoldsOn, SlotInv, BatchInv

LEMMA StartRunKeeps ==
    ASSUME SlotInv, NEW w \in Workers, StartRun(w)
    PROVE  SlotKept
<1>. DEFINE row == [status |-> "running", error |-> FALSE, focus |-> lease[w].focus]
<1>1. Busy(w) /\ UNCHANGED job /\ WorkerStep(w) /\ run' = [run EXCEPT ![RunKey(w)] = row]
  BY DEF StartRun, Busy, WorkerStep, Work
<1>2. /\ RunKey(w) \in RunKeys /\ RunKey(w) = <<lease[w].job, lease[w].attempt>>
      /\ run \in [RunKeys -> Run]
  BY <1>1, BusyLease DEF RunKey, SlotInv, BatchInv, Inv, TypeOK
<1>. HIDE DEF row
<1>3. HoldsOn
  BY <1>1, WorkerHoldsOn
<1>4. JobHeld'
  BY <1>1, <1>3 DEF SlotInv, JobHeld, HoldsOn
<1>5. RunningRunIsLeased'
  <2>. SUFFICES ASSUME NEW j \in Ids, NEW a \in 1..MaxAttempts,
                       run'[<<j, a>>].status = "running"
                PROVE  job[j].status = "running" /\ job[j].attempt = a
    BY <1>1 DEF SlotInv, RunningRunIsLeased
  <2>1. CASE <<j, a>> = RunKey(w)
    BY <1>1, <1>2, <2>1 DEF SlotInv, JobHeld
  <2>2. CASE <<j, a>> # RunKey(w)
    <3>1. run'[<<j, a>>] = run[<<j, a>>]
      BY <1>1, <1>2, <2>2, KeyOfRun
    <3>. QED
      BY <3>1 DEF SlotInv, RunningRunIsLeased
  <2>. QED
    BY <2>1, <2>2
<1>. QED
  BY <1>1, <1>4, <1>5 DEF SlotKept, SlotInv, RunningIsCounted

LEMMA ClaimKeeps ==
    ASSUME SlotInv, \A u, v \in Workers : u = v,
           NEW w \in Workers, Claim(w) \/ \E j \in Ids : ClaimJob(w, j)
    PROVE  SlotKept
<1>1. /\ pc[w] = "idle" /\ run' = RecoveredRuns(now)
      /\ \/ job' = Recovered /\ UNCHANGED workerVars
         \/ Takes(w)
  BY ClaimsTake
<1>2. CASE job' = Recovered /\ UNCHANGED workerVars
  <2>1. \A v \in Workers : ~Busy(v)'
    BY <1>1, <1>2 DEF Busy, workerVars
  <2>. QED
    BY <1>1, <1>2, <2>1, RecoveryLeaves
       DEF SlotKept, JobHeld, RunningIsCounted, RunningRunIsLeased
<1>3. CASE Takes(w)
  <2>1. PICK j \in Ids :
            /\ Recovered[j].status = "queued" /\ Recovered[j].attempt \in 0..(MaxAttempts - 1)
            /\ job'[j].status = "running" /\ job'[j].attempt = Recovered[j].attempt + 1
            /\ \A i \in Ids \ {j} : job'[i] = Recovered[i]
            /\ lease'[w].job = j /\ lease'[w].attempt = job'[j].attempt
    BY <1>3, TakenBy DEF SlotInv, BatchInv
  <2>2. JobHeld'
    BY <2>1 DEF JobHeld
  <2>3. RunningIsCounted'
    BY <2>1, RecoveryLeaves DEF RunningIsCounted
  <2>4. RunningRunIsLeased'
    BY <1>1, <2>1, RecoveryLeaves DEF RunningRunIsLeased
  <2>. QED
    BY <2>2, <2>3, <2>4 DEF SlotKept
<1>. QED
  BY <1>1, <1>2, <1>3

(* The outcome of an attempt is written and the process forgets it. *)
LEMMA OutcomeKeeps ==
    ASSUME SlotInv, \A u, v \in Workers : u = v, NEW w \in Workers, Busy(w),
           pc' = [pc EXCEPT ![w] = "idle"], NEW j, NEW r,
           job' = [job EXCEPT ![lease[w].job] = j], run' = [run EXCEPT ![RunKey(w)] = r],
           r.status # "running", j.status # "running",
           j.status = "queued" => j.attempt < MaxAttempts
    PROVE  SlotKept
<1>1. /\ lease[w].job \in Ids /\ RunKey(w) \in RunKeys
      /\ RunKey(w) = <<lease[w].job, lease[w].attempt>>
      /\ run \in [RunKeys -> Run] /\ job \in [Ids -> Job] /\ pc \in [Workers -> WorkerPlaces]
  BY BusyLease DEF RunKey, SlotInv, BatchInv, Inv, TypeOK
<1>2. \A v \in Workers : ~Busy(v)'
  BY <1>1 DEF Busy
<1>3. \A i \in Ids : job'[i] = IF i = lease[w].job THEN j ELSE job[i]
  BY <1>1
<1>4. \A k \in RunKeys : run'[k] = IF k = RunKey(w) THEN r ELSE run[k]
  BY <1>1
<1>5. JobHeld' /\ RunningIsCounted'
  BY <1>2, <1>3 DEF SlotInv, JobHeld, RunningIsCounted
<1>6. ASSUME NEW i \in Ids, NEW a \in 1..MaxAttempts, run'[<<i, a>>].status = "running"
      PROVE  job'[i].status = "running" /\ job'[i].attempt = a
  <2>1. <<i, a>> # RunKey(w) /\ run[<<i, a>>].status = "running"
    BY <1>4, <1>6, KeyOfRun
  <2>2. job[i].status = "running" /\ job[i].attempt = a
    BY <2>1 DEF SlotInv, RunningRunIsLeased
  <2>3. i # lease[w].job
    BY <1>1, <2>1, <2>2 DEF SlotInv, JobHeld
  <2>. QED
    BY <1>3, <2>2, <2>3
<1>7. \A i \in Ids : job'[i].status = "queued" => job'[i].attempt < MaxAttempts
  BY <1>3 DEF SlotInv, RunningRunIsLeased
<1>. QED
  BY <1>5, <1>6, <1>7 DEF SlotKept, RunningRunIsLeased

LEMMA OutcomeRows ==
    ASSUME Inv, NEW w \in Workers, Busy(w)
    PROVE  /\ CompletedJob(w).status = "completed"
           /\ FailedJob(w).status = IF lease[w].attempt >= MaxAttempts THEN "dead" ELSE "queued"
           /\ FailedJob(w).attempt = job[lease[w].job].attempt
           /\ SucceededRun(w).status = "succeeded" /\ FailedRun(w).status = "failed"
<1>. DEFINE old == job[lease[w].job]
            x == IF lease[w].attempt >= MaxAttempts THEN "dead" ELSE "queued"
<1>1. old \in Job /\ run[RunKey(w)] \in Run
  BY BusyLease DEF Inv, TypeOK
<1>2. /\ FailedJob(w) = [Unleased(old, x) EXCEPT !.ready = lease[w].retryAt]
      /\ CompletedJob(w) = [Unleased(old, "completed") EXCEPT !.completed = TRUE]
  BY DEF FailedJob, CompletedJob
<1>3. SucceededRun(w).status = "succeeded" /\ FailedRun(w).status = "failed"
  BY <1>1 DEF SucceededRun, FailedRun, Run
<1>. HIDE DEF old, x
<1>4. /\ CompletedJob(w).status = "completed" /\ FailedJob(w).status = x
      /\ FailedJob(w).attempt = old.attempt
  BY <1>1, <1>2 DEF Unleased, Job
<1>. QED
  BY <1>3, <1>4 DEF old, x

(* The two steps that commit the outcome of an attempt. *)
Completes(w) ==
    /\ Busy(w) /\ pc' = [pc EXCEPT ![w] = "idle"]
    /\ job' = [job EXCEPT ![lease[w].job] = CompletedJob(w)]
    /\ run' = [run EXCEPT ![RunKey(w)] = SucceededRun(w)]
    /\ materialized' = materialized \cup {RunKey(w)}

GivesBack(w) ==
    /\ Busy(w) /\ pc' = [pc EXCEPT ![w] = "idle"]
    /\ job' = [job EXCEPT ![lease[w].job] = FailedJob(w)]
    /\ run' = [run EXCEPT ![RunKey(w)] = FailedRun(w)]
    /\ UNCHANGED materialized

LEMMA CompletesKeeps ==
    ASSUME SlotInv, \A u, v \in Workers : u = v, NEW w \in Workers, Completes(w)
    PROVE  SlotKept
<1>1. /\ Busy(w) /\ pc' = [pc EXCEPT ![w] = "idle"]
      /\ job' = [job EXCEPT ![lease[w].job] = CompletedJob(w)]
      /\ run' = [run EXCEPT ![RunKey(w)] = SucceededRun(w)]
  BY DEF Completes
<1>2. CompletedJob(w).status = "completed" /\ SucceededRun(w).status = "succeeded"
  BY <1>1, OutcomeRows DEF SlotInv, BatchInv
<1>. QED
  BY <1>1, <1>2, OutcomeKeeps

LEMMA GivesBackKeeps ==
    ASSUME SlotInv, \A u, v \in Workers : u = v, NEW w \in Workers, GivesBack(w)
    PROVE  SlotKept
<1>1. /\ Busy(w) /\ pc' = [pc EXCEPT ![w] = "idle"]
      /\ job' = [job EXCEPT ![lease[w].job] = FailedJob(w)]
      /\ run' = [run EXCEPT ![RunKey(w)] = FailedRun(w)]
  BY DEF GivesBack
<1>2. /\ FailedJob(w).status = IF lease[w].attempt >= MaxAttempts THEN "dead" ELSE "queued"
      /\ FailedJob(w).attempt = lease[w].attempt /\ FailedRun(w).status = "failed"
  BY <1>1, OutcomeRows DEF SlotInv, BatchInv, JobHeld
<1>3. lease[w].attempt \in 1..MaxAttempts
  BY <1>1, BusyLease DEF SlotInv, BatchInv
<1>4. FailedJob(w).status = "queued" => FailedJob(w).attempt < MaxAttempts
  BY <1>2, <1>3, LimitAssumption DEF LimitAssumption
<1>. QED
  BY <1>1, <1>2, <1>4, OutcomeKeeps

(* The steps of a worker, by the rows they write. *)
LEMMA WorkerKinds ==
    ASSUME NEW w \in Workers, WorkerStep(w)
    PROVE  \/ UNCHANGED <<job, run, materialized>>
           \/ StartRun(w)
           \/ Claim(w) \/ \E j \in Ids : ClaimJob(w, j)
           \/ Completes(w)
           \/ GivesBack(w)
<1>1. CASE \/ Prepare(w) \/ ModelAnswers(w) \/ ModelFails(w) \/ CompleteReads(w)
           \/ TasksFail(w) \/ FailReads(w) \/ Crash(w) \/ Restart(w)
  BY <1>1 DEF Prepare, ModelAnswers, ModelFails, CompleteReads, TasksFail,
              FailReads, Crash, Restart
<1>2. CASE CompleteWrites(w)
  BY <1>2 DEF CompleteWrites, Completes, Forget, Busy
<1>3. CASE FailWrites(w)
  BY <1>3 DEF FailWrites, GivesBack, Forget, Busy
<1>. QED
  BY <1>1, <1>2, <1>3 DEF WorkerStep, Work

LEMMA WorkerKeeps ==
    ASSUME SlotInv, \A u, v \in Workers : u = v, NEW w \in Workers, WorkerStep(w)
    PROVE  SlotKept
  BY WorkerKinds, QuietKeeps, WorkerHoldsOn, StartRunKeeps, ClaimKeeps,
     CompletesKeeps, GivesBackKeeps

(* The listener and the operator write jobs that wait, of which nobody is in hand. *)
LEMMA WaitingKeeps ==
    ASSUME SlotInv, UNCHANGED <<run, pc, lease>>,
           \A j \in Ids :
              \/ job'[j] = job[j]
              \/ /\ job[j].status \in {"absent", "queued"} /\ job'[j].status # "running"
                 /\ job'[j].status = "queued" => job'[j].attempt < MaxAttempts
    PROVE  SlotKept
<1>1. \A w \in Workers : Busy(w) => lease[w].job \in Ids
  BY BusyLease DEF SlotInv, BatchInv
<1>2. JobHeld'
  BY <1>1 DEF SlotInv, JobHeld, Busy
<1>3. RunningIsCounted'
  BY DEF SlotInv, RunningIsCounted
<1>4. RunningRunIsLeased'
  BY DEF SlotInv, RunningRunIsLeased
<1>. QED
  BY <1>2, <1>3, <1>4 DEF SlotKept

LEMMA SaveKeeps ==
    ASSUME SlotInv, NEW m \in Ids, Save(m)
    PROVE  SlotKept
<1>1. job \in [Ids -> Job] /\ UNCHANGED <<run, pc, lease>> /\ job[m] = NoJob
  BY SaveWrites DEF SlotInv, BatchInv, Inv, TypeOK
<1>2. \/ UNCHANGED job
      \/ job' = [job EXCEPT ![m] = Created(m)]
      \/ \E j \in Ids : /\ job[j].status = "queued" /\ job[j].attempt = 0
                        /\ job' = [job EXCEPT ![j] = Coalesced(job[j], message', m)]
  BY SaveWrites DEF SlotInv, BatchInv
<1>3. 0 < MaxAttempts
  BY LimitAssumption DEF LimitAssumption
<1>4. CASE UNCHANGED job
  BY <1>1, <1>4, WaitingKeeps
<1>5. CASE job' = [job EXCEPT ![m] = Created(m)]
  <2>1. Created(m).status = "queued" /\ Created(m).attempt = 0
    BY CreatedRow DEF SlotInv, BatchInv
  <2>2. job[m].status = "absent"
    BY <1>1 DEF NoJob
  <2>. QED
    BY <1>1, <1>3, <1>5, <2>1, <2>2, WaitingKeeps
<1>6. ASSUME NEW j \in Ids, job[j].status = "queued", job[j].attempt = 0,
             job' = [job EXCEPT ![j] = Coalesced(job[j], message', m)]
      PROVE  SlotKept
  <2>1. /\ Coalesced(job[j], message', m).status = "queued"
        /\ Coalesced(job[j], message', m).attempt = 0
    BY <1>6, CoalescedRow DEF SlotInv, BatchInv
  <2>. QED
    BY <1>1, <1>3, <1>6, <2>1, WaitingKeeps
<1>. QED
  BY <1>2, <1>4, <1>5, <1>6

LEMMA CancelWrote ==
    ASSUME Inv, CancelWrites, NEW j \in Ids
    PROVE  IF j \in request.queued /\ job[j].status = "queued"
           THEN job'[j].status = "cancelled" /\ job'[j].batch = job[j].batch
           ELSE job'[j] = job[j]
<1>. DEFINE row == [Unleased(job[j], "cancelled") EXCEPT !.cancelled = TRUE]
<1>1. row.status = "cancelled" /\ row.batch = job[j].batch
  <2>1. job[j] \in Job
    BY DEF Inv, TypeOK
  <2>. QED
    BY <2>1 DEF Unleased, Job
<1>2. job'[j] = IF j \in request.queued /\ job[j].status = "queued" THEN row ELSE job[j]
  BY DEF CancelWrites
<1>. HIDE DEF row
<1>. QED
  BY <1>1, <1>2

LEMMA NextSlotInv ==
    ASSUME SlotInv, \A u, v \in Workers : u = v, [Next]_vars
    PROVE  SlotKept
<1>1. CASE CancelWrites
  <2>1. \A j \in Ids : \/ job'[j] = job[j]
                       \/ job[j].status = "queued" /\ job'[j].status = "cancelled"
    BY <1>1, CancelWrote DEF SlotInv, BatchInv
  <2>2. UNCHANGED <<run, pc, lease>>
    BY <1>1, OthersWrite
  <2>. QED
    BY <2>1, <2>2, WaitingKeeps
<1>2. CASE CancelReads \/ Tick \/ UNCHANGED vars
  <2>1. UNCHANGED <<job, run, pc, lease>>
    BY <1>2, OthersWrite
  <2>. QED
    BY <2>1, WaitingKeeps
<1>. QED
  BY <1>1, <1>2, SaveKeeps, WorkerKeeps DEF Next

LEMMA SlotInvariance ==
    ASSUME \A u, v \in Workers : u = v
    PROVE  Spec => []SlotInv
<1>1. Init => JobHeld /\ RunningIsCounted /\ RunningRunIsLeased
  <2>. SUFFICES ASSUME Init PROVE JobHeld /\ RunningIsCounted /\ RunningRunIsLeased
    OBVIOUS
  <2>1. \A j \in Ids : job[j].status = "absent"
    BY DEF Init, NoJob
  <2>2. \A r \in RunKeys : run[r].status = "absent"
    BY DEF Init, NoRun
  <2>3. \A w \in Workers : ~Busy(w)
    BY DEF Init, Busy
  <2>. QED
    BY <2>1, <2>2, <2>3, KeyOfRun DEF JobHeld, RunningIsCounted, RunningRunIsLeased
<1>2. BatchInv /\ (JobHeld /\ RunningIsCounted /\ RunningRunIsLeased) /\ [Next]_vars
        => (JobHeld /\ RunningIsCounted /\ RunningRunIsLeased)'
  BY NextSlotInv DEF SlotInv, SlotKept
<1>. QED
  BY <1>1, <1>2, BatchInvariance, PTL DEF Spec, SlotInv

(* With one worker slot, for any number of messages, attempts and restarts: no run
   is left running once its job is not leased for it, and a job that waits has an
   attempt left. *)
THEOREM RunsLeased ==
    ASSUME \A u, v \in Workers : u = v
    PROVE  Spec => []RunningRunIsLeased
<1>1. SlotInv => RunningRunIsLeased
  BY DEF SlotInv
<1>. QED
  BY <1>1, SlotInvariance, PTL

-----------------------------------------------------------------------------
(* Refinement, step by step: one worker slot implements MessageBatches. *)

LEMMA StateOf ==
    ASSUME NEW r \in Job
    PROVE  /\ r.status = "absent" => BatchState(r) = "none"
           /\ r.status = "queued" /\ r.attempt = 0 => BatchState(r) = "open"
           /\ r.status = "queued" /\ r.attempt # 0 => BatchState(r) = "claimed"
           /\ r.status = "running" => BatchState(r) = "claimed"
           /\ r.status = "completed" => BatchState(r) = "done"
           /\ r.status \in {"dead", "cancelled"} => BatchState(r) = r.status
           /\ BatchState(r) \in Batches!States
  BY DEF Job, BatchState, Batches!States

SameBatches == \A j \in Ids : job'[j].batch = job[j].batch

(* A claim, or a failure that commits, by the states of the batches. *)
LEMMA MovesRefine ==
    ASSUME SlotInv, SlotInv', SameBatches, UNCHANGED materialized, NEW k,
           \A j \in Ids : \/ BatchState(job'[j]) = BatchState(job[j])
                          \/ BatchState(job[j]) = "claimed" /\ BatchState(job'[j]) = "dead"
                          \/ /\ BatchState(job[j]) = "open" /\ BatchState(job'[j]) = "claimed"
                             /\ j = k
    PROVE  Batches!Claim
<1>. DEFINE old == [j \in Ids |-> BatchState(job[j])]
            new == [j \in Ids |-> BatchState(job'[j])]
<1>1. \A j \in Ids : old[j] \in Batches!States /\ new[j] \in Batches!States
  BY StateOf DEF SlotInv, BatchInv, Inv, TypeOK
<1>2. \A j \in Ids : <<old[j], new[j]>> \in {<<s, s>> : s \in Batches!States}
                         \cup {<<"open", "claimed">>, <<"claimed", "dead">>}
  BY <1>1
<1>3. \A b, c \in Ids : old[b] = "open" /\ new[b] # "open" /\ old[c] = "open" /\ new[c] # "open"
                            => b = c
  OBVIOUS
<1>4. new \in [Ids -> Batches!States]
  BY <1>1
<1>5. [j \in Ids |-> job[j].batch]' = [j \in Ids |-> job[j].batch]
  BY DEF SameBatches
<1>. QED
  BY <1>2, <1>3, <1>4, <1>5 DEF Batches!Claim

LEMMA StutterRefines ==
    ASSUME SameBatches, UNCHANGED materialized,
           \A j \in Ids : BatchState(job'[j]) = BatchState(job[j])
    PROVE  UNCHANGED Batches!batches
  BY DEF SameBatches, Batches!batches

LEMMA ClaimRefines ==
    ASSUME SlotInv, SlotInv', NEW w \in Workers, SameBatches,
           Claim(w) \/ \E j \in Ids : ClaimJob(w, j)
    PROVE  Batches!Claim
<1>1. \A j \in Ids : /\ job[j] \in Job /\ job'[j] \in Job /\ Recovered[j] \in Job
                     /\ Recovered[j].attempt = job[j].attempt
  BY RecoveredTables DEF SlotInv, BatchInv, Inv, TypeOK, Jobs
<1>2. \A j \in Ids : \/ BatchState(Recovered[j]) = BatchState(job[j])
                     \/ BatchState(job[j]) = "claimed" /\ BatchState(Recovered[j]) = "dead"
  <2>. TAKE j \in Ids
  <2>1. CASE Recovered[j] = job[j]
    BY <2>1
  <2>2. CASE /\ job[j].status = "running" /\ Recovered[j].attempt >= 1
             /\ Recovered[j].status \in {"queued", "dead"}
    BY <1>1, <2>2, StateOf
  <2>. QED
    BY <2>1, <2>2, RecoveryLeaves
<1>3. UNCHANGED materialized
  BY ClaimsTake
<1>4. CASE job' = Recovered
  BY <1>2, <1>3, <1>4, MovesRefine
<1>5. CASE Takes(w)
  <2>1. PICK j \in Ids :
            /\ Recovered[j].status = "queued" /\ Recovered[j].attempt \in 0..(MaxAttempts - 1)
            /\ job'[j].status = "running"
            /\ \A i \in Ids \ {j} : job'[i] = Recovered[i]
    BY <1>5, TakenBy DEF SlotInv, BatchInv
  <2>2. BatchState(job'[j]) = "claimed" /\ BatchState(Recovered[j]) \in {"open", "claimed"}
    BY <1>1, <2>1, StateOf
  <2>3. \A i \in Ids :
            \/ BatchState(job'[i]) = BatchState(job[i])
            \/ BatchState(job[i]) = "claimed" /\ BatchState(job'[i]) = "dead"
            \/ BatchState(job[i]) = "open" /\ BatchState(job'[i]) = "claimed" /\ i = j
    BY <1>2, <2>1, <2>2
  <2>. QED
    BY <1>3, <2>3, MovesRefine
<1>. QED
  BY <1>4, <1>5, ClaimsTake

LEMMA CompletesRefines ==
    ASSUME SlotInv, SlotInv', NEW w \in Workers, SameBatches, Completes(w)
    PROVE  Batches!Succeed(lease[w].job, lease[w].attempt)
<1>. DEFINE id == lease[w].job
<1>1. /\ id \in Ids /\ RunKey(w) = <<id, lease[w].attempt>> /\ RunKey(w) \in RunKeys
      /\ lease[w].attempt \in 1..MaxAttempts
      /\ job \in [Ids -> Job] /\ job' \in [Ids -> Job]
  BY BusyLease DEF Completes, RunKey, SlotInv, BatchInv, Inv, TypeOK
<1>2. job[id].status = "running" /\ BatchState(job[id]) = "claimed"
  BY <1>1, StateOf DEF Completes, SlotInv, JobHeld
<1>3. <<id, lease[w].attempt>> \notin materialized
  BY <1>1, <1>2 DEF SlotInv, BatchInv, Inv, CompletedIsMaterialized
<1>4. BatchState(job'[id]) = "done" /\ \A j \in Ids \ {id} : job'[j] = job[j]
  <2>1. job'[id] = CompletedJob(w) /\ CompletedJob(w).status = "completed"
    BY <1>1, OutcomeRows DEF Completes, SlotInv, BatchInv
  <2>. QED
    BY <1>1, <2>1, StateOf DEF Completes
<1>5. [j \in Ids |-> BatchState(job[j])]' =
          [[j \in Ids |-> BatchState(job[j])] EXCEPT ![id] = "done"]
  BY <1>1, <1>4
<1>6. [j \in Ids |-> job[j].batch]' = [j \in Ids |-> job[j].batch]
  BY DEF SameBatches
<1>7. materialized' = materialized \cup {<<id, lease[w].attempt>>}
  BY <1>1 DEF Completes
<1>. QED
  BY <1>1, <1>2, <1>3, <1>5, <1>6, <1>7 DEF Batches!Succeed

LEMMA GivesBackRefines ==
    ASSUME SlotInv, SlotInv', NEW w \in Workers, SameBatches, GivesBack(w)
    PROVE  Batches!Claim
<1>. DEFINE id == lease[w].job
<1>1. /\ id \in Ids /\ lease[w].attempt \in 1..MaxAttempts
      /\ job \in [Ids -> Job] /\ job' \in [Ids -> Job]
  BY BusyLease DEF GivesBack, SlotInv, BatchInv, Inv, TypeOK
<1>2. BatchState(job[id]) = "claimed" /\ job[id].attempt = lease[w].attempt
  BY <1>1, StateOf DEF GivesBack, SlotInv, JobHeld
<1>3. BatchState(job'[id]) \in {"claimed", "dead"} /\ \A j \in Ids \ {id} : job'[j] = job[j]
  <2>1. /\ job'[id] = FailedJob(w) /\ FailedJob(w).status \in {"dead", "queued"}
        /\ FailedJob(w).attempt = job[id].attempt
    BY <1>1, OutcomeRows DEF GivesBack, SlotInv, BatchInv
  <2>2. job'[id].attempt # 0
    BY <1>1, <1>2, <2>1
  <2>. QED
    BY <1>1, <2>1, <2>2, StateOf DEF GivesBack
<1>4. \A j \in Ids : \/ BatchState(job'[j]) = BatchState(job[j])
                     \/ BatchState(job[j]) = "claimed" /\ BatchState(job'[j]) = "dead"
  BY <1>2, <1>3
<1>5. UNCHANGED materialized
  BY DEF GivesBack
<1>. QED
  BY <1>4, <1>5, MovesRefine

LEMMA WorkerRefines ==
    ASSUME SlotInv, SlotInv', NEW w \in Workers, WorkerStep(w)
    PROVE  [Batches!Next]_(Batches!batches)
<1>1. SameBatches
  BY WorkersKeepBatches DEF SameBatches, SameBatch, SlotInv, BatchInv
<1>2. CASE UNCHANGED <<job, run, materialized>> \/ StartRun(w)
  <2>1. UNCHANGED <<job, materialized>>
    BY <1>2 DEF StartRun
  <2>. QED
    BY <1>1, <2>1, StutterRefines
<1>3. CASE Claim(w) \/ \E j \in Ids : ClaimJob(w, j)
  BY <1>1, <1>3, ClaimRefines DEF Batches!Next
<1>4. CASE Completes(w)
  <2>1. lease[w].job \in Ids /\ lease[w].attempt \in 1..MaxAttempts
    BY <1>4, BusyLease DEF Completes, SlotInv, BatchInv
  <2>. QED
    BY <1>1, <1>4, <2>1, CompletesRefines DEF Batches!Next
<1>5. CASE GivesBack(w)
  BY <1>1, <1>5, GivesBackRefines DEF Batches!Next
<1>. QED
  BY <1>2, <1>3, <1>4, <1>5, WorkerKinds

(* A message that is not saved yet is in no batch. *)
LEMMA SaveRefines ==
    ASSUME SlotInv, SlotInv', NEW m \in Ids, Save(m)
    PROVE  [Batches!Next]_(Batches!batches)
<1>. DEFINE batch == [j \in Ids |-> job[j].batch]
            state == [j \in Ids |-> BatchState(job[j])]
<1>0. /\ job \in [Ids -> Job] /\ job' \in [Ids -> Job] /\ UNCHANGED materialized
      /\ message[m].kind = "none" /\ job[m] = NoJob
  BY SaveWrites DEF SlotInv, BatchInv, Inv, TypeOK
<1>1. \/ UNCHANGED job
      \/ job' = [job EXCEPT ![m] = Created(m)]
      \/ \E j \in Ids : /\ job[j].status = "queued" /\ job[j].attempt = 0
                        /\ job' = [job EXCEPT ![j] = Coalesced(job[j], message', m)]
  BY SaveWrites DEF SlotInv, BatchInv
<1>2. \A j \in Ids : m \notin batch[j]
  BY <1>0 DEF SlotInv, BatchInv, BatchesFit
<1>3. CASE UNCHANGED job
  BY <1>0, <1>3, StutterRefines DEF SameBatches
<1>4. CASE job' = [job EXCEPT ![m] = Created(m)]
  <2>1. state[m] = "none" /\ batch[m] = {}
    <3>1. job[m].status = "absent" /\ job[m].batch = {}
      BY <1>0 DEF NoJob
    <3>2. job[m] \in Job
      BY <1>0
    <3>3. BatchState(job[m]) = "none"
      BY <3>1, <3>2, StateOf
    <3>. QED
      BY <3>1, <3>3
  <2>2. Created(m).batch = {m}
    BY DEF Created, NoJob
  <2>3. job'[m] = Created(m) /\ \A j \in Ids \ {m} : job'[j] = job[j]
    BY <1>0, <1>4
  <2>4. BatchState(job'[m]) = "open"
    <3>1. Created(m).status = "queued" /\ Created(m).attempt = 0
      BY CreatedRow DEF SlotInv, BatchInv
    <3>. QED
      BY <1>0, <2>3, <3>1, StateOf
  <2>5. /\ [j \in Ids |-> job[j].batch]' = [batch EXCEPT ![m] = {m}]
        /\ [j \in Ids |-> BatchState(job[j])]' = [state EXCEPT ![m] = "open"]
    BY <2>2, <2>3, <2>4
  <2>6. Batches!Join(m)
    BY <1>0, <1>2, <2>1, <2>5 DEF Batches!Join
  <2>. QED
    BY <2>6 DEF Batches!Next
<1>5. ASSUME NEW i \in Ids, job[i].status = "queued", job[i].attempt = 0,
             job' = [job EXCEPT ![i] = Coalesced(job[i], message', m)]
      PROVE  Batches!Join(m)
  <2>1. state[i] = "open"
    <3>1. job[i] \in Job
      BY <1>0
    <3>2. BatchState(job[i]) = "open"
      BY <1>5, <3>1, StateOf
    <3>. QED
      BY <3>2
  <2>2. job'[i] = Coalesced(job[i], message', m) /\ \A j \in Ids \ {i} : job'[j] = job[j]
    <3>1. job \in [Ids -> Job]
      BY <1>0
    <3>. QED
      BY <1>5, <3>1
  <2>3. Coalesced(job[i], message', m).batch = job[i].batch \cup {m}
    BY <1>0 DEF Coalesced, Job
  <2>4. BatchState(job'[i]) = "open"
    <3>1. /\ Coalesced(job[i], message', m).status = "queued"
          /\ Coalesced(job[i], message', m).attempt = 0
      BY <1>5, CoalescedRow DEF SlotInv, BatchInv
    <3>. QED
      BY <1>0, <2>2, <3>1, StateOf
  <2>5. /\ [j \in Ids |-> job[j].batch]' = [batch EXCEPT ![i] = batch[i] \cup {m}]
        /\ [j \in Ids |-> BatchState(job[j])]' = state
    BY <2>1, <2>2, <2>3, <2>4
  <2>. QED
    BY <1>0, <1>2, <2>1, <2>5 DEF Batches!Join
<1>. QED
  BY <1>1, <1>3, <1>4, <1>5 DEF Batches!Next

LEMMA CancelRefines ==
    ASSUME SlotInv, SlotInv', CancelWrites
    PROVE  Batches!Withdraw
<1>. DEFINE B == {j \in Ids : j \in request.queued /\ job[j].status = "queued"}
<1>1. \A j \in Ids : job[j] \in Job /\ job'[j] \in Job
  BY DEF SlotInv, BatchInv, Inv, TypeOK
<1>2. \A j \in Ids : IF j \in B
                     THEN job'[j].status = "cancelled" /\ job'[j].batch = job[j].batch
                     ELSE job'[j] = job[j]
  BY CancelWrote DEF SlotInv, BatchInv
<1>3. \A j \in B : BatchState(job[j]) \in {"open", "claimed"}
  BY <1>1, StateOf
<1>4. \A j \in Ids : BatchState(job'[j]) = IF j \in B THEN "cancelled" ELSE BatchState(job[j])
  BY <1>1, <1>2, StateOf
<1>5. B \subseteq Ids
  OBVIOUS
<1>. HIDE DEF B
<1>6. UNCHANGED materialized /\ [j \in Ids |-> job[j].batch]' = [j \in Ids |-> job[j].batch]
  BY <1>2, OthersWrite
<1>7. [j \in Ids |-> BatchState(job[j])]' =
          [j \in Ids |-> IF j \in B THEN "cancelled" ELSE [i \in Ids |-> BatchState(job[i])][j]]
  BY <1>4
<1>8. B \in SUBSET {j \in Ids : [i \in Ids |-> BatchState(job[i])][j] \in {"open", "claimed"}}
  BY <1>3, <1>5
<1>. QED
  BY <1>6, <1>7, <1>8 DEF Batches!Withdraw

LEMMA StepRefines ==
    ASSUME SlotInv, SlotInv', [Next]_vars
    PROVE  [Batches!Next]_(Batches!batches)
<1>1. CASE CancelReads \/ Tick \/ UNCHANGED vars
  <2>1. UNCHANGED <<job, materialized>>
    BY <1>1, OthersWrite
  <2>. QED
    BY <2>1, StutterRefines DEF SameBatches
<1>2. CASE CancelWrites
  BY <1>2, CancelRefines DEF Batches!Next
<1>. QED
  BY <1>1, <1>2, SaveRefines, WorkerRefines DEF Next

(* With one worker slot the detection queue implements MessageBatches: every message
   that may start a detection is in one batch for good, no batch changes once it was
   claimed, its end is final, and tasks are made of it exactly once if that end is
   success, for any number of messages, attempts, crashes and restarts. *)
THEOREM QueueImplementsBatches ==
    ASSUME \A u, v \in Workers : u = v
    PROVE  Spec => ImplementsBatches
<1>1. Init => Batches!Init
  BY DEF Init, Batches!Init, BatchState, NoJob
<1>2. SlotInv /\ SlotInv' /\ [Next]_vars => [Batches!Next]_(Batches!batches)
  BY StepRefines
<1>. QED
  BY <1>1, <1>2, SlotInvariance, PTL DEF Spec, ImplementsBatches, Batches!Spec
=============================================================================
