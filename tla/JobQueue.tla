------------------------------ MODULE JobQueue ------------------------------
(***************************************************************************)
(* The in-process job runner: a bounded channel of jobs, a fixed pool of   *)
(* workers, a backpressure path for a full channel, and Close, which races *)
(* with callers that still enqueue. One select statement is one action per *)
(* ready case.                                                             *)
(***************************************************************************)
EXTENDS Integers, Sequences, FiniteSets

CONSTANTS
  Jobs,      \* every job that is ever handed to Enqueue
  Pool,      \* the goroutines of the pool
  Buffer     \* capacity of the jobs channel

ASSUME QueueAssumption == Buffer \in Nat \ {0} /\ IsFiniteSet(Jobs) /\ IsFiniteSet(Pool)

VARIABLES
  status,      \* where each job is
  jobs,        \* the buffered jobs channel
  running,     \* the job of each worker, or "idle" or "exited"
  closed,      \* the closed channel has been closed
  jobsClosed,  \* the jobs channel has been closed: Close has returned
  panicked     \* a goroutine died of a send on a closed channel

queueVars == <<status, jobs, running, closed, jobsClosed, panicked>>

Idle == "idle"
Exited == "exited"
ASSUME NamesAssumption == Idle \notin Jobs /\ Exited \notin Jobs

QueueInit ==
  /\ status = [j \in Jobs |-> "new"]
  /\ jobs = <<>>
  /\ running = [w \in Pool |-> Idle]
  /\ closed = FALSE /\ jobsClosed = FALSE /\ panicked = FALSE

-----------------------------------------------------------------------------
(* Enqueue: the cases of its select. A send on a closed channel is a ready *)
(* case too, and it panics.                                                *)

EnqueueSend(j) ==
  /\ status[j] = "new" /\ ~jobsClosed
  /\ Len(jobs) < Buffer
  /\ jobs' = Append(jobs, j)
  /\ status' = [status EXCEPT ![j] = "queued"]
  /\ UNCHANGED <<running, closed, jobsClosed, panicked>>

EnqueueOnClosed(j) ==
  /\ status[j] = "new" /\ jobsClosed
  /\ panicked' = TRUE
  /\ status' = [status EXCEPT ![j] = "dropped"]
  /\ UNCHANGED <<jobs, running, closed, jobsClosed>>

EnqueueSkip(j) ==
  /\ status[j] = "new" /\ closed
  /\ status' = [status EXCEPT ![j] = "dropped"]
  /\ UNCHANGED <<jobs, running, closed, jobsClosed, panicked>>

\* The default case: neither a send nor the closed channel is ready. The job
\* gets a goroutine of its own.
EnqueueOverflow(j) ==
  /\ status[j] = "new" /\ ~closed
  /\ Len(jobs) = Buffer
  /\ status' = [status EXCEPT ![j] = "overflow"]
  /\ UNCHANGED <<jobs, running, closed, jobsClosed, panicked>>

Enqueue(j) == EnqueueSend(j) \/ EnqueueOnClosed(j) \/ EnqueueSkip(j) \/ EnqueueOverflow(j)

\* A job ends by returning, by an error or by a panic that runJob recovers: the
\* goroutine that ran it goes on in every case.
OverflowDone(j) ==
  /\ status[j] = "overflow"
  /\ status' = [status EXCEPT ![j] = "done"]
  /\ UNCHANGED <<jobs, running, closed, jobsClosed, panicked>>

-----------------------------------------------------------------------------
(* The worker loop. Once closed is closed both cases of its select may be  *)
(* ready, and either is taken.                                             *)

\* Mutant: the job stays in the channel.
WorkerPeek(w) ==
  /\ running[w] = Idle /\ jobs # <<>>
  /\ running' = [running EXCEPT ![w] = Head(jobs)]
  /\ status' = [status EXCEPT ![Head(jobs)] = "running"]
  /\ UNCHANGED <<jobs, closed, jobsClosed, panicked>>

WorkerTake(w) ==
  /\ running[w] = Idle /\ jobs # <<>>
  /\ running' = [running EXCEPT ![w] = Head(jobs)]
  /\ status' = [status EXCEPT ![Head(jobs)] = "running"]
  /\ jobs' = Tail(jobs)
  /\ UNCHANGED <<closed, jobsClosed, panicked>>

\* Mutant: a panic of the job ends the worker (runJob does not recover).
WorkerDies(w) ==
  /\ running[w] \in Jobs
  /\ running' = [running EXCEPT ![w] = Exited]
  /\ status' = [status EXCEPT ![running[w]] = "done"]
  /\ UNCHANGED <<jobs, closed, jobsClosed, panicked>>

WorkerDone(w) ==
  /\ running[w] \in Jobs
  /\ running' = [running EXCEPT ![w] = Idle]
  /\ status' = [status EXCEPT ![running[w]] = "done"]
  /\ UNCHANGED <<jobs, closed, jobsClosed, panicked>>

\* Mutant: the loop does not listen to the closed channel.
WorkerDeaf(w) ==
  /\ running[w] = Idle /\ closed /\ jobsClosed
  /\ running' = [running EXCEPT ![w] = Exited]
  /\ UNCHANGED <<status, jobs, closed, jobsClosed, panicked>>

WorkerExit(w) ==
  /\ running[w] = Idle /\ closed
  /\ running' = [running EXCEPT ![w] = Exited]
  /\ UNCHANGED <<status, jobs, closed, jobsClosed, panicked>>

-----------------------------------------------------------------------------
(* Close: signal, throw away what is buffered, wait for the workers, close *)
(* the jobs channel.                                                       *)

CloseSignal ==
  /\ ~closed
  /\ closed' = TRUE
  /\ UNCHANGED <<status, jobs, running, jobsClosed, panicked>>

\* The drainer goroutine, which ends once the channel is closed and empty.
Drain ==
  /\ closed /\ jobs # <<>>
  /\ status' = [status EXCEPT ![Head(jobs)] = "dropped"]
  /\ jobs' = Tail(jobs)
  /\ UNCHANGED <<running, closed, jobsClosed, panicked>>

CloseJobs ==
  /\ closed /\ ~jobsClosed
  /\ \A w \in Pool : running[w] = Exited
  /\ jobsClosed' = TRUE
  /\ UNCHANGED <<status, jobs, running, closed, panicked>>

-----------------------------------------------------------------------------
QueueNext ==
  \/ \E j \in Jobs : Enqueue(j) \/ OverflowDone(j)
  \/ \E w \in Pool : WorkerTake(w) \/ WorkerDone(w) \/ WorkerExit(w)
  \/ CloseSignal \/ Drain \/ CloseJobs

\* The Go scheduler runs every runnable goroutine, a select takes one of its
\* ready cases, and a job ends (its context expires after 30 minutes). Whether
\* anyone enqueues or closes is up to the program.
QueueFairness ==
  /\ \A w \in Pool : WF_queueVars(WorkerTake(w) \/ WorkerExit(w)) /\ WF_queueVars(WorkerDone(w))
  /\ \A j \in Jobs : WF_queueVars(OverflowDone(j))
  /\ WF_queueVars(Drain) /\ WF_queueVars(CloseJobs)

QueueSpec == QueueInit /\ [][QueueNext]_queueVars /\ QueueFairness

-----------------------------------------------------------------------------
\* The values of the state.
QueueTypeOK ==
  /\ status \in [Jobs -> {"new", "queued", "running", "overflow", "done", "dropped"}]
  /\ jobs \in Seq(Jobs) /\ Len(jobs) <= Buffer
  /\ running \in [Pool -> Jobs \cup {Idle, Exited}]
  /\ closed \in BOOLEAN /\ jobsClosed \in BOOLEAN /\ panicked \in BOOLEAN

\* Every accepted job is in exactly one place: buffered once, or with exactly one
\* worker, or on a goroutine of its own. No job is lost between the channel and
\* the workers and none is run twice, also while Close drains the channel; and once
\* Close has returned no worker runs a job any more.
EachJobInOnePlace ==
  /\ QueueTypeOK
  /\ \A j \in Jobs :
       /\ Cardinality({i \in DOMAIN jobs : jobs[i] = j}) = IF status[j] = "queued" THEN 1 ELSE 0
       /\ Cardinality({w \in Pool : running[w] = j}) = IF status[j] = "running" THEN 1 ELSE 0
  /\ jobsClosed => \A w \in Pool : running[w] = Exited

\* Close waits for the running jobs, throws the others away and returns.
CloseReturns == closed ~> jobsClosed

\* A job that entered the channel is run to its end, or thrown away by a Close.
QueuedJobEnds ==
  \A j \in Jobs : status[j] = "queued" ~> (status[j] = "done" \/ (status[j] = "dropped" /\ closed))
=============================================================================
