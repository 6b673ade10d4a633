------------------------------ MODULE JobQueue ------------------------------
(***************************************************************************)
(* Background jobs: lib/queue/redis-queue.ts adds a job to a BullMQ queue  *)
(* in Redis and then creates its row of table Job; the worker process      *)
(* (worker/index.ts) runs the job and updates the row; an administrator    *)
(* retries or removes the job (api/admin/jobs/[id]).                       *)
(*                                                                         *)
(* Redis and PostgreSQL know nothing of each other.  The worker may have   *)
(* finished before the row exists; a worker that stalls loses its job to   *)
(* another and may yet go on; no step ever writes "failed".  BullMQ is     *)
(* external: a job is waiting, active, failed or completed, is tried       *)
(* Attempts times, and is given to another worker when one stalls.         *)
(***************************************************************************)
EXTENDS Naturals

CONSTANTS
    Jobs,           \* jobs, each with its own custom id
    Workers,        \* slots of the worker process
    Attempts,       \* QUEUE_DEFAULTS[name].attempts
    MaxStalls,      \* bound: how often a job may be taken for stalled
    MaxRetries      \* bound: retries by an administrator

ASSUME AttemptsAssumption ==
    Attempts \in Nat \ {0} /\ MaxStalls \in Nat /\ MaxRetries \in Nat

None == "none"

ASSUME NoneAssumption == None \notin Jobs \cup Workers

VARIABLES
    queue,          \* BullMQ: the state of each job, its attempts, its holder
    row,            \* the status of its row of table Job
    adding,         \* jobs in the queue whose row is still to be created
    worker,         \* the workers: the job they run, and where they are
    stalls, retries \* how often jobs were taken for stalled, and retried

jobVars == <<queue, row, adding, worker, stalls, retries>>

-----------------------------------------------------------------------------
Free == [job |-> None, pc |-> "idle", sawRow |-> FALSE]

(* `done` and `recorded` are history: an attempt did the job's work, and    *)
(* the attempt that completed the job began when the row was there.         *)
NoJob == [state |-> "absent", made |-> 0, holder |-> None,
          done |-> FALSE, recorded |-> FALSE]

JobInit ==
    /\ queue = [j \in Jobs |-> NoJob]
    /\ row = [j \in Jobs |-> None]
    /\ adding = {}
    /\ worker = [w \in Workers |-> Free]
    /\ stalls = 0
    /\ retries = 0

(* enqueue: queue.add, and then createJobRecord, whose failure is logged. *)
Add(j) ==
    /\ queue[j] = NoJob /\ row[j] = None /\ j \notin adding
    /\ queue' = [queue EXCEPT ![j].state = "waiting"]
    /\ adding' = adding \cup {j}
    /\ UNCHANGED <<row, worker, stalls, retries>>

CreateRecord(j) ==
    /\ j \in adding
    /\ adding' = adding \ {j}
    /\ row' \in {row, [row EXCEPT ![j] = "pending"]}
    /\ UNCHANGED <<queue, worker, stalls, retries>>

-----------------------------------------------------------------------------
(* The definition after it, for attempts that nobody counts. *)
TriedBug(made) == made

Tried(made) == made + 1

Take(w, j) ==
    /\ worker[w] = Free
    /\ queue[j].state = "waiting"
    /\ queue' = [queue EXCEPT ![j] =
                   [@ EXCEPT !.state = "active", !.holder = w, !.made = Tried(queue[j].made)]]
    /\ worker' = [worker EXCEPT ![w] = [Free EXCEPT !.job = j, !.pc = "start"]]
    /\ UNCHANGED <<row, adding, stalls, retries>>

(* The handler marks its row, if that is pending.  An update that fails is  *)
(* passed over in silence.                                                 *)
Start(w) ==
    LET j == worker[w].job
    IN  /\ worker[w].pc = "start"
        /\ row' \in {row, [row EXCEPT ![j] = IF @ = "pending" THEN "running" ELSE @]}
        /\ worker' = [worker EXCEPT ![w] =
                [@ EXCEPT !.pc = "work", !.sawRow = row'[j] \in {"running", "completed"}]]
        /\ UNCHANGED <<queue, adding, stalls, retries>>

(* The work itself: the rest of the handler, or an exception. *)
Work(w) ==
    LET j == worker[w].job
    IN  /\ worker[w].pc = "work"
        /\ worker' = [worker EXCEPT ![w].pc = "finish"]
        /\ queue' = [queue EXCEPT ![j].done = TRUE]
        /\ UNCHANGED <<row, adding, stalls, retries>>

(* The definition after it, which completes rows that are still pending. *)
FinishedBug(status) == IF status = "pending" THEN "completed" ELSE status

Finished(status) == IF status = "running" THEN "completed" ELSE status

FinishRow(w) ==
    LET j == worker[w].job
    IN  /\ worker[w].pc = "finish"
        /\ \E written \in BOOLEAN :
              /\ row' = IF written THEN [row EXCEPT ![j] = Finished(@)] ELSE row
              /\ worker' = [worker EXCEPT ![w] =
                    [@ EXCEPT !.pc = "report", !.sawRow = worker[w].sawRow /\ written]]
        /\ UNCHANGED <<queue, adding, stalls, retries>>

(* BullMQ takes the outcome from the worker that holds the job. *)
Report(w) ==
    LET j == worker[w].job
    IN  /\ worker[w].pc = "report"
        /\ queue' = IF queue[j].holder = w
                    THEN [queue EXCEPT ![j] =
                            [@ EXCEPT !.state = "completed", !.holder = None,
                                      !.recorded = worker[w].sawRow]]
                    ELSE queue
        /\ worker' = [worker EXCEPT ![w] = Free]
        /\ UNCHANGED <<row, adding, stalls, retries>>

(* The handler throws: the job is tried again or has failed. *)
Throw(w) ==
    LET j == worker[w].job
    IN  /\ worker[w].pc = "work"
        /\ queue' = IF queue[j].holder = w
                    THEN [queue EXCEPT ![j] =
                            [@ EXCEPT !.holder = None,
                                      !.state = IF queue[j].made < Attempts
                                                THEN "waiting" ELSE "failed"]]
                    ELSE queue
        /\ worker' = [worker EXCEPT ![w] = Free]
        /\ UNCHANGED <<row, adding, stalls, retries>>

-----------------------------------------------------------------------------
(* A worker that does not renew its lock: the job waits for another, and    *)
(* the worker has stopped or is only slow.                                  *)
Stall(w) ==
    /\ stalls < MaxStalls
    /\ worker[w].job # None
    /\ queue[worker[w].job].holder = w
    /\ stalls' = stalls + 1
    /\ queue' = [queue EXCEPT ![worker[w].job] =
                   [@ EXCEPT !.state = "waiting", !.holder = None]]
    /\ worker' \in {worker, [worker EXCEPT ![w] = Free]}
    /\ UNCHANGED <<row, adding, retries>>

(* job.retry and job.remove refuse jobs in another state. *)
Retry(j) ==
    /\ retries < MaxRetries
    /\ queue[j].state = "failed"
    /\ retries' = retries + 1
    /\ queue' = [queue EXCEPT ![j] = [@ EXCEPT !.state = "waiting", !.made = 0]]
    /\ UNCHANGED <<row, adding, worker, stalls>>

Remove(j) ==
    /\ queue[j].state \in {"waiting", "failed", "completed"}
    /\ queue' = [queue EXCEPT ![j] = [@ EXCEPT !.state = "absent", !.recorded = FALSE]]
    /\ UNCHANGED <<row, adding, worker, stalls, retries>>

WorkerStep(w) == \/ \E j \in Jobs : Take(w, j)
                 \/ Start(w) \/ Work(w) \/ FinishRow(w) \/ Report(w) \/ Throw(w)

JobNext ==
    \/ \E j \in Jobs : Add(j) \/ CreateRecord(j) \/ Retry(j) \/ Remove(j)
    \/ \E w \in Workers : WorkerStep(w) \/ Stall(w)

(* The worker process runs on while there is work. *)
JobFairness == \A w \in Workers : WF_jobVars(WorkerStep(w))

JobSpec == JobInit /\ [][JobNext]_jobVars /\ JobFairness

-----------------------------------------------------------------------------
JobTypeOK ==
    /\ queue \in [Jobs -> [state : {"absent", "waiting", "active", "failed", "completed"},
                           made : 0 .. Attempts + MaxStalls,
                           holder : Workers \cup {None},
                           done : BOOLEAN, recorded : BOOLEAN]]
    /\ row \in [Jobs -> {None, "pending", "running", "completed"}]
    /\ adding \subseteq Jobs
    /\ worker \in [Workers -> [job : Jobs \cup {None}, sawRow : BOOLEAN,
                               pc : {"idle", "start", "work", "finish", "report"}]]
    /\ stalls \in 0 .. MaxStalls
    /\ retries \in 0 .. MaxRetries

(* What a row tells of its job, although nothing holds the two together: a *)
(* row is completed only when the work was done; a job completed by an     *)
(* attempt that started its row has a completed row; and a job that failed *)
(* has a completed row only if a stalled worker went on.  (A row created   *)
(* after its attempt began stays pending, and that of a job that failed    *)
(* stays running: redis-queue.ts:8 says the two are kept in step.)         *)
RowTellsOutcome ==
    \A j \in Jobs :
        /\ row[j] = "completed" => queue[j].done
        /\ queue[j].state = "completed" /\ queue[j].recorded => row[j] = "completed"
        /\ queue[j].state = "failed" /\ row[j] = "completed" => stalls > 0

(* A job that was added is completed, fails, or is removed: its attempts   *)
(* are counted, and a worker that stalls hands it on.                      *)
JobsEnd ==
    \A j \in Jobs : queue[j].state = "waiting"
        ~> queue[j].state \in {"completed", "failed", "absent"}

(* Queue, rows and workers are well typed, and rows tell what became of    *)
(* their jobs.                                                             *)
JobInv == JobTypeOK /\ RowTellsOutcome
=============================================================================
