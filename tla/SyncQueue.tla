------------------------------ MODULE SyncQueue ------------------------------
(***************************************************************************)
(* The queue of sync jobs: a request to /sync/<type> inserts a QueueJob    *)
(* (saleor/sync/sync.py), and scripts/planet-caravan/run-queue.py, started *)
(* by a scheduler, runs the command of each type once for all the jobs it  *)
(* found.  It writes with autocommit and can die at any statement; nothing *)
(* keeps a second one from being started meanwhile.                        *)
(***************************************************************************)
EXTENDS Naturals, Sequences, FiniteSets

CONSTANTS Runners,    \* the run-queue.py processes that can be up together
          Commands,   \* the types a request may name
          Known,      \* those get_command has a command for
          MaxJobs,    \* how many requests there are
          MaxCrashes  \* how often a process dies

ASSUME QueueAssumption ==
  /\ IsFiniteSet(Runners)
  /\ Known \subseteq Commands
  /\ MaxJobs \in Nat
  /\ MaxCrashes \in Nat

VARIABLES jobs,    \* the QueueJob rows by id; `runs' counts their executions
          runner,  \* where each process is, with the ids it holds
          crashes

queueVars == <<jobs, runner, crashes>>

Ids == DOMAIN jobs

RunnerState ==
       [at : {"idle"}]
  \union [at : {"next"}, todo : SUBSET (1 .. MaxJobs)]
  \union [at : {"started", "running"}, ids : SUBSET (1 .. MaxJobs), todo : SUBSET (1 .. MaxJobs)]

JobRow == [command : Commands, status : {0, 1}, started : BOOLEAN,
           completed : BOOLEAN, runs : Nat]

Job(command, status, started, completed, runs) ==
  [command |-> command, status |-> status, started |-> started,
   completed |-> completed, runs |-> runs]

QueueTypeOK ==
  /\ jobs \in Seq(JobRow)
  /\ Len(jobs) <= MaxJobs
  /\ runner \in [Runners -> RunnerState]
  /\ crashes \in 0 .. MaxCrashes

QueueInit ==
  /\ jobs = <<>>
  /\ runner = [r \in Runners |-> [at |-> "idle"]]
  /\ crashes = 0

\* handle_sync_url.
Enqueue(command) ==
  /\ Len(jobs) < MaxJobs
  /\ jobs' = Append(jobs, Job(command, 0, FALSE, FALSE, 0))
  /\ UNCHANGED <<runner, crashes>>

\* WHERE status = 0 AND started_at IS NULL AND completed_at IS NULL
\* Bug: only the types that have a command.
PendingKnown == {j \in Ids : /\ jobs[j].status = 0
                             /\ ~ jobs[j].started
                             /\ ~ jobs[j].completed
                             /\ jobs[j].command \in Known}

Pending == {j \in Ids : jobs[j].status = 0 /\ ~ jobs[j].started /\ ~ jobs[j].completed}

Fetch(r) ==
  /\ runner[r].at = "idle"
  /\ Pending # {}
  /\ runner' = [runner EXCEPT ![r] = [at |-> "next", todo |-> Pending]]
  /\ UNCHANGED <<jobs, crashes>>

\* UPDATE sync_queuejob SET .. WHERE id in .., whoever else has these rows.
Update(rows) == jobs' = [j \in Ids |-> IF j \in DOMAIN rows THEN rows[j] ELSE jobs[j]]

\* Bug: the job is not marked before its command runs.
Unchanged(job) == job

\* Bug: the progress goes into the outcome.
StartedAsStatus(job) == Job(job.command, 2, TRUE, job.completed, job.runs)

Started(job) == Job(job.command, job.status, TRUE, job.completed, job.runs)

\* The commands in the order of their first job; all jobs of one together.
StartCommand(r) ==
  /\ runner[r].at = "next"
  /\ \E first \in runner[r].todo :
       LET ids == {j \in runner[r].todo : jobs[j].command = jobs[first].command}
       IN  /\ \A j \in runner[r].todo : first <= j
           /\ Update([j \in ids |-> Started(jobs[j])])
           /\ runner' = [runner EXCEPT ![r] =
                           [at |-> "started", ids |-> ids, todo |-> runner[r].todo \ ids]]
  /\ UNCHANGED crashes

CommandOf(r) == jobs[CHOOSE j \in runner[r].ids : TRUE].command

Executed(job) == Job(job.command, job.status, job.started, job.completed, job.runs + 1)

Run(r) ==
  /\ runner[r].at = "started"
  /\ CommandOf(r) \in Known
  /\ Update([j \in runner[r].ids |-> Executed(jobs[j])])
  /\ runner' = [runner EXCEPT ![r] =
                   [at |-> "running", ids |-> runner[r].ids, todo |-> runner[r].todo]]
  /\ UNCHANGED crashes

\* The rows that the final UPDATE writes.
\* Bug: every job of the type that is still open.
OpenOfType(r) == {j \in Ids : jobs[j].command = CommandOf(r) /\ ~ jobs[j].completed}
Held(r) == runner[r].ids

\* Bug: the output of a failed command is stored, but not completed_at.
FailedOpen(job) == Job(job.command, 0, job.started, job.completed, job.runs)
Failed(job) == Job(job.command, 0, job.started, TRUE, job.runs)
Succeeded(job) == Job(job.command, 1, job.started, TRUE, job.runs)

Ends(r, rows) ==
  /\ Update(rows)
  /\ runner' = [runner EXCEPT ![r] = [at |-> "next", todo |-> runner[r].todo]]
  /\ UNCHANGED crashes

\* There is no command of this type.
Reject(r) ==
  /\ runner[r].at = "started"
  /\ CommandOf(r) \notin Known
  /\ Ends(r, [j \in Held(r) |-> Failed(jobs[j])])

Succeed(r) == runner[r].at = "running" /\ Ends(r, [j \in Held(r) |-> Succeeded(jobs[j])])
Fail(r) == runner[r].at = "running" /\ Ends(r, [j \in Held(r) |-> Failed(jobs[j])])

Exit(r) ==
  /\ runner[r].at = "next"
  /\ runner[r].todo = {}
  /\ runner' = [runner EXCEPT ![r] = [at |-> "idle"]]
  /\ UNCHANGED <<jobs, crashes>>

Crash(r) ==
  /\ runner[r].at # "idle"
  /\ crashes < MaxCrashes
  /\ runner' = [runner EXCEPT ![r] = [at |-> "idle"]]
  /\ crashes' = crashes + 1
  /\ UNCHANGED jobs

Proceed(r) == Fetch(r) \/ StartCommand(r) \/ Run(r) \/ Reject(r) \/ Succeed(r) \/ Fail(r) \/ Exit(r)

QueueNext ==
  \/ \E command \in Commands : Enqueue(command)
  \/ \E r \in Runners : Proceed(r) \/ Crash(r)

QueueSpec == QueueInit /\ [][QueueNext]_queueVars

\* The scheduler starts the script again, and a command ends some time.
FairQueueSpec == QueueSpec /\ \A r \in Runners : WF_queueVars(Proceed(r))

-----------------------------------------------------------------------------
\* A process has the job in its hands and will still write its outcome.
InHands(j) == \E r \in Runners : runner[r].at \in {"started", "running"} /\ j \in runner[r].ids

\* A job nobody will ever look at again although it has no outcome.
Abandoned(j) == jobs[j].started /\ ~ jobs[j].completed /\ ~ InHands(j)

\* Every process runs a job's command at most once, so one process at a time runs
\* it at most once altogether, also when it dies and is started again: the job is
\* marked as started in a statement before.
RunsOncePerProcess == \A j \in Ids : jobs[j].runs <= Cardinality(Runners)

\* A job is completed only by a run of its command that began after the job was
\* there; one that arrives during a run waits for the next.
CompletedMeansRan ==
  \A j \in Ids : jobs[j].completed => jobs[j].runs > 0 \/ jobs[j].command \notin Known

\* Only a process that died leaves a job started and without an outcome;
\* failures and unknown types are completed too.
AbandonedOnlyByCrash == (\E j \in Ids : Abandoned(j)) => crashes > 0

\* Every job is settled in the end, or was in the hands of a process that died.
EventuallySettled ==
  \A j \in 1 .. MaxJobs : j \in Ids ~> j \in Ids /\ (jobs[j].completed \/ Abandoned(j))
=============================================================================
