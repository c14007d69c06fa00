----------------------------- MODULE JobService -----------------------------
(***************************************************************************)
(* The web tool's job service: JobStore (web/job_store.py), the worker     *)
(* thread and its queue (web/worker.py), the route handlers that create,   *)
(* poll and download jobs (web/routes/), and the process that holds them   *)
(* (web/main.py), through crashes, failing disk writes, graceful           *)
(* shutdowns and restarts.                                                 *)
(*                                                                         *)
(* Three actors interleave: the event loop, which runs one handler at a    *)
(* time; the single worker thread; and whoever stops the process.  The     *)
(* rows of jobs.db and the artifact files survive the process; the cached  *)
(* Job objects and the queue do not.                                       *)
(***************************************************************************)
EXTENDS Naturals, Sequences

CONSTANTS
  Jobs,         \* the job ids uuid4 will draw, each at most once
  NoJob,        \* the worker holds no job / the handler serves none
  MaxCrashes,   \* bound on process crashes
  MaxFaults,    \* bound on JobStore.update calls that raise
  MaxStops      \* bound on graceful shutdowns

ASSUME ConstantsAssumption ==
  /\ NoJob \notin Jobs
  /\ MaxCrashes \in Nat
  /\ MaxFaults \in Nat
  /\ MaxStops \in Nat

VARIABLES
  (* On disk. *)
  row,        \* the state column of each job's row in jobs.db
  files,      \* which of <id>.gcode ("gcode") and <id>.sql ("db") exist
  old,        \* jobs whose created_at is before the clean-up's cut-off
  (* In the process. *)
  mem,        \* the cached Job objects: state, and the results they carry
  queue,      \* _job_queue
  phase,      \* what the process is doing
  wpc,        \* where the worker thread is
  current,    \* the job the worker took from the queue
  handler,    \* the request the event loop is in the middle of
  (* Bounds. *)
  crashes, faults, stops

disk     == <<row, files, old>>
bounds   == <<crashes, faults, stops>>
vars     == <<disk, mem, queue, phase, wpc, current, handler, bounds>>

States    == {"pending", "running", "done", "failed"}
Terminal  == {"done", "failed"}
Artifacts == {"gcode", "db"}

Uncached == [state |-> "none", data |-> {}]
Idle     == [pc |-> "idle", job |-> NoJob, kind |-> "gcode"]

TypeOK ==
  /\ row \in [Jobs -> States \cup {"unused", "deleted"}]
  /\ files \in [Jobs -> SUBSET Artifacts]
  /\ old \subseteq Jobs
  /\ mem \in [Jobs -> [state : States \cup {"none"}, data : SUBSET Artifacts]]
  /\ queue \in Seq(Jobs)
  /\ phase \in {"down", "cleaning", "serving", "draining", "joining", "stopped"}
  /\ wpc \in {"off", "test", "get", "taken", "mark", "pipeline", "results",
              "saveGcode", "saveDb", "commit"}
  /\ current \in Jobs \cup {NoJob}
  /\ handler \in [pc : {"idle", "submit", "check", "body"},
                  job : Jobs \cup {NoJob}, kind : Artifacts]
  /\ crashes \in 0..MaxCrashes
  /\ faults \in 0..MaxFaults
  /\ stops \in 0..MaxStops

Init ==
  /\ row = [j \in Jobs |-> "unused"]
  /\ files = [j \in Jobs |-> {}]
  /\ old = {}
  /\ mem = [j \in Jobs |-> Uncached]
  /\ queue = <<>>
  /\ phase = "down"
  /\ wpc = "off"
  /\ current = NoJob
  /\ handler = Idle
  /\ crashes = 0 /\ faults = 0 /\ stops = 0

Cached(j) == mem[j].state # "none"

\* JobStore._lock.  Everything but the two-file update is a single action, so
\* the lock is held across states only in the middle of that update.
LockFree == wpc \notin {"saveDb", "commit"}

\* Mutant: the flag goes up only once the executor has been joined.
FlagAfterJoin == phase = "stopped"

\* worker._executor_shutdown
ExecutorShutdown == phase \in {"draining", "joining", "stopped"}

-----------------------------------------------------------------------------
(* Route handlers.  encode() has no await between create and submit, and    *)
(* the event loop runs one handler at a time.                               *)

EventLoopFree == phase = "serving" /\ handler = Idle

\* JobStore.create: the row is committed, then the object cached, under _lock.
Create(j) ==
  /\ EventLoopFree /\ LockFree
  /\ row[j] = "unused"
  /\ row' = [row EXCEPT ![j] = "pending"]
  /\ mem' = [mem EXCEPT ![j] = [state |-> "pending", data |-> {}]]
  /\ handler' = [pc |-> "submit", job |-> j, kind |-> "gcode"]
  /\ UNCHANGED <<files, old, queue, phase, wpc, current, bounds>>

\* submit_job
Submit ==
  /\ handler.pc = "submit"
  /\ queue' = Append(queue, handler.job)
  /\ handler' = Idle
  /\ UNCHANGED <<disk, mem, phase, wpc, current, bounds>>

\* JobStore._from_db_row: the artifacts are whatever files exist now.
FromDbRow(j) == [state |-> row[j], data |-> files[j]]

\* Mutant: a missing row is not noticed.
GetWithout404(j) ==
  /\ LockFree
  /\ mem' = IF Cached(j) THEN mem ELSE [mem EXCEPT ![j] = FromDbRow(j)]

\* JobStore.get: the cache first, then the row, which is cached from then on.
Get(j) ==
  /\ LockFree
  /\ Cached(j) \/ row[j] \in States
  /\ mem' = IF Cached(j) THEN mem ELSE [mem EXCEPT ![j] = FromDbRow(j)]

\* GET /jobs/{id}.  Anything else answers 404 and changes nothing.
Status(j) ==
  /\ EventLoopFree
  /\ Get(j)
  /\ UNCHANGED <<disk, queue, phase, wpc, current, handler, bounds>>

\* GET /jobs/{id}/gcode and /jobs/{id}/db: look the job up, then test its
\* state, then read its bytes, while the worker may be writing the object.
Download(j, kind) ==
  /\ EventLoopFree
  /\ Get(j)
  /\ handler' = [pc |-> "check", job |-> j, kind |-> kind]
  /\ UNCHANGED <<disk, queue, phase, wpc, current, bounds>>

\* "Job is ..., not done." (409) ends the request.
CheckDone ==
  /\ handler.pc = "check"
  /\ handler' = IF mem[handler.job].state = "done"
                THEN [pc |-> "body", job |-> handler.job, kind |-> handler.kind]
                ELSE Idle
  /\ UNCHANGED <<disk, mem, queue, phase, wpc, current, bounds>>

SendBody ==
  /\ handler.pc = "body"
  /\ handler' = Idle
  /\ UNCHANGED <<disk, mem, queue, phase, wpc, current, bounds>>

HandlerStep == Submit \/ CheckDone \/ SendBody

-----------------------------------------------------------------------------
(* The worker thread: _worker_thread and _run_job.                          *)

Goto(from, to) == wpc = from /\ wpc' = to

\* job.state = ...
SetState(s) ==
  mem' = [mem EXCEPT ![current] = [state |-> s, data |-> @.data]]

\* Mutant: the loop ends on an empty queue.
LoopTestUntilEmpty ==
  /\ Goto("test", IF ExecutorShutdown \/ queue = <<>> THEN "off" ELSE "get")
  /\ UNCHANGED <<disk, mem, queue, phase, current, handler, bounds>>

\* while not _executor_shutdown
LoopTest ==
  /\ Goto("test", IF ExecutorShutdown THEN "off" ELSE "get")
  /\ UNCHANGED <<disk, mem, queue, phase, current, handler, bounds>>

\* queue.Empty
GetTimesOut ==
  /\ queue = <<>>
  /\ Goto("get", "test")
  /\ UNCHANGED <<disk, mem, queue, phase, current, handler, bounds>>

Take ==
  /\ queue # <<>>
  /\ Goto("get", "taken")
  /\ current' = Head(queue)
  /\ queue' = Tail(queue)
  /\ UNCHANGED <<disk, mem, phase, handler, bounds>>

\* Mutant: the state is not saved before the pipeline runs.
MarkRunningUnsaved ==
  /\ Goto("taken", "pipeline")
  /\ SetState("running")
  /\ UNCHANGED <<disk, queue, phase, current, handler, bounds>>

MarkRunning ==
  /\ Goto("taken", "mark")
  /\ SetState("running")
  /\ UNCHANGED <<disk, queue, phase, current, handler, bounds>>

\* The first update: no bytes to save yet, only the row.
CommitRunning ==
  /\ Goto("mark", "pipeline")
  /\ row' = [row EXCEPT ![current] = "running"]
  /\ UNCHANGED <<files, old, mem, queue, phase, current, handler, bounds>>

\* Mutant: the state says done before the results are assigned.
DoneBeforeResults ==
  /\ Goto("pipeline", "results")
  /\ SetState("done")
  /\ UNCHANGED <<disk, queue, phase, current, handler, bounds>>

\* The results are put on the shared object before its state says done.
PipelineReturns ==
  /\ Goto("pipeline", "results")
  /\ mem' = [mem EXCEPT ![current] = [state |-> @.state, data |-> Artifacts]]
  /\ UNCHANGED <<disk, queue, phase, current, handler, bounds>>

MarkDone ==
  /\ Goto("results", "saveGcode")
  /\ SetState("done")
  /\ UNCHANGED <<disk, queue, phase, current, handler, bounds>>

\* Mutant: no finally, a failed job is not saved.
PipelineRaisesUnsaved ==
  /\ Goto("pipeline", "test")
  /\ SetState("failed")
  /\ current' = NoJob
  /\ UNCHANGED <<disk, queue, phase, handler, bounds>>

PipelineRaises ==
  /\ Goto("pipeline", "saveGcode")
  /\ SetState("failed")
  /\ UNCHANGED <<disk, queue, phase, current, handler, bounds>>

\* The update in the finally block: gcode file, sql file, then the row.
SaveFile(kind) ==
  files' = [files EXCEPT ![current] = @ \cup (mem[current].data \cap {kind})]

\* Mutant: the row is committed before the files are complete.
SaveGcodeRowFirst ==
  /\ Goto("saveGcode", "saveDb")
  /\ row' = [row EXCEPT ![current] = mem[current].state]
  /\ UNCHANGED <<files, old, mem, queue, phase, current, handler, bounds>>

SaveGcode ==
  /\ Goto("saveGcode", "saveDb")
  /\ SaveFile("gcode")
  /\ UNCHANGED <<row, old, mem, queue, phase, current, handler, bounds>>

SaveDb ==
  /\ Goto("saveDb", "commit")
  /\ SaveFile("db")
  /\ UNCHANGED <<row, old, mem, queue, phase, current, handler, bounds>>

\* Mutant: the row is left as it was.
CommitNothing ==
  /\ Goto("commit", "test")
  /\ current' = NoJob
  /\ UNCHANGED <<disk, mem, queue, phase, handler, bounds>>

CommitResult ==
  /\ Goto("commit", "test")
  /\ row' = [row EXCEPT ![current] = mem[current].state]
  /\ current' = NoJob
  /\ UNCHANGED <<files, old, mem, queue, phase, handler, bounds>>

\* Mutant: the job is put back into the queue.
UpdateRaisesRetry ==
  /\ faults < MaxFaults
  /\ wpc \in {"mark", "saveGcode", "saveDb", "commit"}
  /\ wpc' = "test"
  /\ queue' = Append(queue, current)
  /\ current' = NoJob
  /\ faults' = faults + 1
  /\ UNCHANGED <<disk, mem, phase, handler, crashes, stops>>

\* A write or the commit raises inside either update: the exception leaves
\* _run_job and the loop logs it; what was written so far stays.
UpdateRaises ==
  /\ faults < MaxFaults
  /\ wpc \in {"mark", "saveGcode", "saveDb", "commit"}
  /\ wpc' = "test"
  /\ current' = NoJob
  /\ faults' = faults + 1
  /\ UNCHANGED <<disk, mem, queue, phase, handler, crashes, stops>>

WorkerStep ==
  \/ LoopTest \/ GetTimesOut \/ Take \/ MarkRunning \/ CommitRunning
  \/ PipelineReturns \/ MarkDone \/ PipelineRaises
  \/ SaveGcode \/ SaveDb \/ CommitResult

-----------------------------------------------------------------------------
(* The process.                                                             *)

\* A job's created_at passes the seven-day cut-off.
GrowOld(j) ==
  /\ phase # "cleaning"
  /\ row[j] \in States /\ j \notin old
  /\ old' = old \cup {j}
  /\ UNCHANGED <<row, files, mem, queue, phase, wpc, current, handler, bounds>>

\* The rows cleanup_old_jobs selects.
Doomed == {j \in old : row[j] \in Terminal}

\* create_app: a JobStore with an empty cache, then cleanup_old_jobs.
Boot ==
  /\ phase = "down"
  /\ phase' = "cleaning"
  /\ UNCHANGED <<disk, mem, queue, wpc, current, handler, bounds>>

\* _cleanup_job_files: the gcode file, then the sql file.
UnlinkFile(j) ==
  /\ phase = "cleaning"
  /\ j \in Doomed /\ files[j] # {}
  /\ files' = [files EXCEPT ![j] = IF "gcode" \in @ THEN @ \ {"gcode"} ELSE {}]
  /\ UNCHANGED <<row, old, mem, queue, phase, wpc, current, handler, bounds>>

\* Mutant: the rows go before the files.
DeleteRowsFirst ==
  /\ phase = "cleaning"
  /\ row' = [j \in Jobs |-> IF j \in Doomed THEN "deleted" ELSE row[j]]
  /\ phase' = "serving"
  /\ wpc' = "test"
  /\ UNCHANGED <<files, old, mem, queue, current, handler, bounds>>

\* The second transaction deletes the rows; then lifespan starts the worker.
DeleteRows ==
  /\ phase = "cleaning"
  /\ \A j \in Doomed : files[j] = {}
  /\ row' = [j \in Jobs |-> IF j \in Doomed THEN "deleted" ELSE row[j]]
  /\ phase' = "serving"
  /\ wpc' = "test"
  /\ UNCHANGED <<files, old, mem, queue, current, handler, bounds>>

\* shutdown_worker: the flag is set first.
Shutdown ==
  /\ EventLoopFree
  /\ stops < MaxStops
  /\ phase' = "draining"
  /\ stops' = stops + 1
  /\ UNCHANGED <<disk, mem, queue, wpc, current, handler, crashes, faults>>

\* The polling loop ends when the queue is empty, or when the timeout passes.
DrainEnds ==
  /\ phase = "draining"
  /\ phase' = "joining"
  /\ UNCHANGED <<disk, mem, queue, wpc, current, handler, bounds>>

\* Mutant: the executor is not waited for.
JoinedAtOnce ==
  /\ phase = "joining"
  /\ phase' = "stopped"
  /\ UNCHANGED <<disk, mem, queue, wpc, current, handler, bounds>>

\* _executor.shutdown(wait=True)
Joined ==
  /\ phase = "joining" /\ wpc = "off"
  /\ phase' = "stopped"
  /\ UNCHANGED <<disk, mem, queue, wpc, current, handler, bounds>>

\* start_worker after shutdown_worker in the same process.
StartAgain ==
  /\ phase = "stopped"
  /\ phase' = "serving"
  /\ wpc' = "test"
  /\ UNCHANGED <<disk, mem, queue, current, handler, bounds>>

LoseMemory ==
  /\ mem' = [j \in Jobs |-> Uncached]
  /\ queue' = <<>>
  /\ phase' = "down"
  /\ wpc' = "off"
  /\ current' = NoJob
  /\ handler' = Idle
  /\ UNCHANGED disk

Exit ==
  /\ phase = "stopped"
  /\ LoseMemory
  /\ UNCHANGED bounds

\* The process dies (a signal, an OOM kill); what it wrote is on disk all the same.
\* A power loss, which may also lose files that write_bytes did not sync, is left out.
Crash ==
  /\ phase # "down"
  /\ crashes < MaxCrashes
  /\ crashes' = crashes + 1
  /\ LoseMemory
  /\ UNCHANGED <<faults, stops>>

ProcessStep ==
  Boot \/ DeleteRows \/ DrainEnds \/ Joined \/ \E j \in Jobs : UnlinkFile(j)

Next ==
  \/ \E j \in Jobs : Create(j) \/ Status(j) \/ GrowOld(j) \/ UnlinkFile(j)
  \/ \E j \in Jobs, kind \in Artifacts : Download(j, kind)
  \/ HandlerStep
  \/ WorkerStep
  \/ UpdateRaises
  \/ Boot \/ DeleteRows \/ Shutdown \/ DrainEnds \/ Joined
  \/ StartAgain \/ Exit \/ Crash

\* The threads are scheduled, and a stopped container is started again
\* (docker-compose's restart policy).
Fairness ==
  /\ WF_vars(HandlerStep)
  /\ WF_vars(WorkerStep)
  /\ WF_vars(ProcessStep)

Spec == Init /\ [][Next]_vars
FairSpec == Spec /\ Fairness
-----------------------------------------------------------------------------
(* Properties.                                                              *)

\* While requests are served, a row that says done has both artifacts on disk,
\* whatever crash, failed write or half-finished clean-up came before: update
\* writes the files before the row, and start-up finishes what a crashed
\* clean-up left behind (web/job_store.py).
DoneRowHasArtifacts ==
  phase = "serving" =>
    \A j \in Jobs : row[j] = "done" => files[j] = Artifacts

\* No artifact outlives its row: clean-up unlinks first and deletes rows last,
\* and an update saves files only for a job whose row exists.
ArtifactHasRow ==
  \A j \in Jobs : files[j] # {} => row[j] \in States

\* A download that passed the state test finds its bytes, though the worker
\* fills in the same object concurrently: the 500 answers in routes/jobs.py
\* are unreachable.
DownloadHasBody ==
  handler.pc = "body" => handler.kind \in mem[handler.job].data

\* As long as no update has raised, every cached job except the one the worker
\* holds has the state its row has: nothing a client can be told is lost when
\* the process ends between jobs.
CacheMatchesRow ==
  faults = 0 =>
    \A j \in Jobs : Cached(j) /\ j # current => mem[j].state = row[j]

\* A graceful shutdown never cuts a job in half: once it has returned, no job of
\* this process is left running unless an update raised.
StopCutsNoJob ==
  phase = "stopped" /\ faults = 0 =>
    /\ current = NoJob
    /\ \A j \in Jobs : Cached(j) /\ mem[j].state = "running" => crashes > 0

\* A job waits in the queue at most once and is not the one being run, so no job
\* is ever encoded twice.
QueuedOnce ==
  /\ \A m, n \in DOMAIN queue : queue[m] = queue[n] => m = n
  /\ \A n \in DOMAIN queue : queue[n] # current /\ row[queue[n]] = "pending"

\* The rows implement the job life cycle across every crash and fault.
Durable == INSTANCE JobLifecycle WITH status <- row
DurableLifecycle == Durable!Spec

\* What GET /jobs/{id} reports: the cached object, else the row.
Visible == [j \in Jobs |-> IF Cached(j) THEN mem[j].state ELSE row[j]]
Observed == INSTANCE JobLifecycle WITH status <- Visible

\* What clients are told implements the job life cycle too, up to the first crash
\* and the first update that raises: from then on a job reported done may be
\* running again after a restart.
ObservedLifecycle ==
  /\ Observed!Init
  /\ [][crashes' = 0 /\ faults' = 0 => Observed!Next]_Visible

\* Accepted by this process: the request that created it is about to submit it,
\* or it is in the queue.
Accepted(j) ==
  \/ handler.pc = "submit" /\ handler.job = j
  \/ \E n \in DOMAIN queue : queue[n] = j

\* An accepted job ends as done or failed unless the process goes down first, and
\* when an update has raised, of this job or of one before it, it is at least
\* taken: the worker's loop outlives an empty queue, and _worker_thread catches
\* what _run_job lets out.
AcceptedJobEnds ==
  \A j \in Jobs :
    Accepted(j) ~> \/ Visible[j] \in Terminal
                   \/ faults > 0 /\ ~Accepted(j)
                   \/ phase # "serving"

\* shutdown_worker returns: the worker sees the flag, finishes its job, and the
\* executor is joined.
ShutdownReturns ==
  phase \in {"draining", "joining"} ~> phase \notin {"draining", "joining"}

\* job_store.py:4-6, "Job states: pending -> running -> done | failed. Jobs are
\* stored in SQLite for persistence across restarts": a job that was accepted
\* ends.  It does not when the process stops first: nothing re-queues the rows
\* that are pending or running at start-up.
EveryJobEnds == \A j \in Jobs : Visible[j] = "pending" ~> Visible[j] \in Terminal
=============================================================================
