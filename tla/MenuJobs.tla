------------------------------ MODULE MenuJobs ------------------------------
(***************************************************************************)
(* The background jobs of app/services/menu_import.py and menu_scan.py.    *)
(*                                                                         *)
(* An upload puts a job into a dictionary of the process and starts a task *)
(* for it; the owner polls the dictionary.  An import task is one more     *)
(* session on the menu.  A scan task asks an outside model, with a second  *)
(* model and then a smaller picture to fall back on, and leaves the menu   *)
(* alone.  A restart loses the dictionary and every task.                  *)
(***************************************************************************)
EXTENDS Menu

CONSTANTS
    Jobs,        \* job ids; the task of a job is the session of that name
    LastModel    \* the length of GEMINI_MODELS

ASSUME JobAssumption == Jobs \subseteq Sessions /\ LastModel \in Nat \ {0}

JobKind == {"import", "scan"}
JobStatus == {"none", "pending", "running", "done", "failed", "gone"}

Job == [kind : JobKind, status : JobStatus,
        old : BOOLEAN]                  \* past JOB_TTL_SECONDS

Task == [at : {"off", "queued", "started", "importing", "calling", "leaving"},
         rows : SUBSET Row,             \* what the uploaded sheet holds
         model : 1..LastModel, small : BOOLEAN,
         outcome : {"done", "failed"}]  \* what it will report

VARIABLES
    jobs,   \* _jobs, and after their removal the jobs that were in it
    tasks,  \* _tasks
    wrote   \* history: the imports that committed

jobVars == <<jobs, tasks, wrote>>

NoTask == [at |-> "off", rows |-> {}, model |-> 1, small |-> FALSE,
           outcome |-> "failed"]

JobsInit ==
    /\ jobs = [j \in Jobs |-> [kind |-> "import", status |-> "none", old |-> FALSE]]
    /\ tasks = [j \in Jobs |-> NoTask]
    /\ wrote = {}

Known(j) == jobs[j].status \notin {"none", "gone"}

\* _prune_jobs_locked: old jobs leave, whether they run or not.
Pruned(kind) ==
    [j \in Jobs |-> IF Known(j) /\ jobs[j].kind = kind /\ jobs[j].old
                    THEN [jobs[j] EXCEPT !.status = "gone"] ELSE jobs[j]]

\* start_import and start_scan.
StartJob(j) ==
    /\ jobs[j].status = "none"
    /\ \E kind \in JobKind, sheet \in Sheets :
           /\ jobs' = [Pruned(kind) EXCEPT
                          ![j] = [kind |-> kind, status |-> "pending", old |-> FALSE]]
           /\ tasks' = [tasks EXCEPT ![j] =
                           [NoTask EXCEPT !.at = "queued", !.rows = Parsed(sheet)]]
    /\ UNCHANGED <<menuVars, wrote>>

\* The task finds its job and marks it, or the job has been pruned.
Run(j) ==
    /\ tasks[j].at = "queued"
    /\ IF Known(j)
       THEN /\ jobs' = [jobs EXCEPT ![j].status = "running"]
            /\ tasks' = [tasks EXCEPT ![j].at = "started"]
       ELSE /\ tasks' = [tasks EXCEPT ![j] = NoTask]
            /\ UNCHANGED jobs
    /\ UNCHANGED <<menuVars, wrote>>

Leaves(j, outcome) ==
    tasks' = [tasks EXCEPT ![j].at = "leaving", ![j].outcome = outcome]

\* An unreadable file, an empty sheet, a venue or a database that is gone.
StartFails(j) ==
    /\ tasks[j].at = "started"
    /\ Leaves(j, "failed")
    /\ UNCHANGED <<menuVars, jobs, wrote>>

LoadImport(j) ==
    /\ tasks[j].at = "started" /\ jobs[j].kind = "import"
    /\ tasks[j].rows # {}
    /\ ImportDishes(j, tasks[j].rows)
    /\ tasks' = [tasks EXCEPT ![j].at = "importing"]
    /\ UNCHANGED <<jobs, wrote>>

CommitImport(j) ==
    /\ tasks[j].at = "importing"
    /\ Commit(j)
    /\ Leaves(j, "done")
    /\ wrote' = wrote \cup {j}
    /\ UNCHANGED jobs

\* Mutant: the error is logged and the job ends like any other.
SwallowError(j) ==
    /\ tasks[j].at = "importing"
    /\ Abort(j)
    /\ Leaves(j, "done")
    /\ UNCHANGED <<jobs, wrote>>

AbortImport(j) ==
    /\ tasks[j].at = "importing"
    /\ Abort(j)
    /\ Leaves(j, "failed")
    /\ UNCHANGED <<jobs, wrote>>

\* MenuScanService.scan: a sheet is read here and now, a picture is sent out.
StartScan(j) ==
    /\ tasks[j].at = "started" /\ jobs[j].kind = "scan"
    /\ \/ Leaves(j, "done")
       \/ tasks' = [tasks EXCEPT ![j].at = "calling"]
    /\ UNCHANGED <<menuVars, jobs, wrote>>

\* Mutant: the smaller picture may be retried like the first.
RetryForEver(j) == [tasks EXCEPT ![j].model = 1]

Retry(j) == [tasks EXCEPT ![j].model = 1, ![j].small = TRUE]

\* The model is unavailable to this key, or the wait of 90 seconds ran out.
NextModel(j) ==
    /\ tasks[j].model < LastModel
    /\ tasks' = [tasks EXCEPT ![j].model = @ + 1]

\* ServiceUnavailableError: once more with a smaller payload, if it is smaller.
\* A PDF and a small photo stay as they are.
GiveUp(j) ==
    \/ ~tasks[j].small /\ tasks' = Retry(j)
    \/ Leaves(j, "failed")

\* _gemini_extract, one request.
CallModel(j) ==
    /\ tasks[j].at = "calling"
    /\ \E reply \in {"dishes", "garbled", "timeout", "missing", "key", "refused"} :
           \/ reply = "dishes" /\ Leaves(j, "done")
           \/ reply \in {"garbled", "key"} /\ Leaves(j, "failed")
           \/ reply \in {"timeout", "missing"} /\ NextModel(j)
           \/ reply \in {"timeout", "missing"} /\ tasks[j].model = LastModel /\ GiveUp(j)
           \/ reply = "refused" /\ GiveUp(j)
    /\ UNCHANGED <<menuVars, jobs, wrote>>

Report(j) ==
    /\ tasks[j].at = "leaving"
    /\ jobs' = IF Known(j) THEN [jobs EXCEPT ![j].status = tasks[j].outcome] ELSE jobs
    /\ tasks' = [tasks EXCEPT ![j] = NoTask]
    /\ UNCHANGED <<menuVars, wrote>>

TaskStep(j) ==
    \/ Run(j)
    \/ StartFails(j)
    \/ LoadImport(j)
    \/ CommitImport(j)
    \/ AbortImport(j)
    \/ StartScan(j)
    \/ CallModel(j)
    \/ Report(j)

Grow(j) ==
    /\ Known(j) /\ ~jobs[j].old
    /\ jobs' = [jobs EXCEPT ![j].old = TRUE]
    /\ UNCHANGED <<menuVars, tasks, wrote>>

\* The process dies: requests and tasks with it, what was committed stays.
RestartProcess ==
    /\ \E j \in Jobs : Known(j)
    /\ jobs' = [j \in Jobs |-> IF Known(j) THEN [jobs[j] EXCEPT !.status = "gone"]
                               ELSE jobs[j]]
    /\ tasks' = [j \in Jobs |-> NoTask]
    /\ LoseTransactions
    /\ UNCHANGED wrote

JobsStep ==
    \/ \E j \in Jobs : StartJob(j) \/ TaskStep(j) \/ Grow(j)
    \/ RestartProcess

\* Jobs beside the requests of other sessions.
kitchenVars == <<menuVars, jobVars>>

KitchenStep ==
    \/ JobsStep
    \/ \E s \in Sessions \ Jobs : (CardStep(s) \/ PairStep(s)) /\ UNCHANGED jobVars

KitchenSpec == MenuInit /\ JobsInit /\ [][KitchenStep]_kitchenVars

\* The event loop runs every task, a call to the model has a timeout, and a
\* transaction ends one way or the other.
TasksRun == \A j \in Jobs : WF_kitchenVars(TaskStep(j))

-----------------------------------------------------------------------------
(* Properties. *)

JobsTypeOK ==
    /\ jobs \in [Jobs -> Job]
    /\ tasks \in [Jobs -> Task]
    /\ wrote \subseteq Jobs

\* What the owner is told agrees with the menu: a failed import left nothing
\* behind, one reported as done is on the menu (_run_import).
JobsTellTheTruth ==
    \A j \in {x \in Jobs : jobs[x].kind = "import"} :
        /\ jobs[j].status = "failed" => j \notin wrote
        /\ jobs[j].status = "done" => j \in wrote

\* An owner who polls sees the end: the job is done, failed or no longer found,
\* however often the model fails, times out or is not there (_gemini_extract).
EveryJobEnds ==
    \A j \in Jobs : jobs[j].status \in {"pending", "running"}
                    ~> jobs[j].status \in {"done", "failed", "gone"}
=============================================================================
