-------------------------- MODULE JobServiceProofs --------------------------
(***************************************************************************)
(* Proofs about JobService, for any set of jobs and any bounds.            *)
(*                                                                         *)
(* The properties are not inductive: that a row says done only when its    *)
(* files exist rests on where the worker stands in the update, on what the *)
(* shared Job object carries, and on who holds which job.  Inv collects    *)
(* these facts.                                                            *)
(***************************************************************************)
EXTENDS JobService, TLAPS

Busy   == {"taken", "mark", "pipeline", "results", "saveGcode", "saveDb", "commit"}
Saving == {"saveGcode", "saveDb", "commit"}

\* A process that is down or starting up has nothing in memory.
MemoryInv ==
  phase \in {"down", "cleaning"} =>
    /\ mem = [j \in Jobs |-> Uncached]
    /\ queue = <<>>
    /\ wpc = "off"
    /\ handler = Idle

\* A stopped process has joined its worker.
StoppedInv == phase = "stopped" => wpc = "off"

\* The worker holds a job exactly between taking it and saving its result, and
\* its place in _run_job fixes what the object and the row say.
WorkerInv ==
  /\ wpc \in Busy <=> current \in Jobs
  /\ wpc = "taken" => mem[current].state = "pending"
  /\ wpc \in {"mark", "pipeline", "results"} => mem[current].state = "running"
  /\ wpc \in {"results"} => mem[current].data = Artifacts
  /\ wpc \in Saving => mem[current].state \in Terminal
  /\ wpc \in {"taken", "mark"} => row[current] = "pending"
  /\ wpc \in Saving \cup {"pipeline", "results"} => row[current] = "running"

\* A job that is still to run is pending in the cache and in its row.
Fresh(j) == mem[j].state = "pending" /\ row[j] = "pending"

\* A job is with at most one of: the request that creates it, the queue, the
\* worker.
QueueInv ==
  /\ \A n \in 1..Len(queue) : Fresh(queue[n]) /\ queue[n] # current
  /\ \A m, n \in 1..Len(queue) : queue[m] = queue[n] => m = n
  /\ handler.pc = "submit" =>
       /\ Fresh(handler.job) /\ handler.job # current
       /\ \A n \in 1..Len(queue) : queue[n] # handler.job

\* An object that says done carries its results.
DataInv == \A j \in Jobs : mem[j].state = "done" => mem[j].data = Artifacts

\* What each stage of the update has put on disk.
FilesInv ==
  /\ \A j \in Jobs : row[j] = "done" =>
       \/ files[j] = Artifacts
       \/ j \in old /\ phase \in {"down", "cleaning"}
  /\ wpc \in {"saveDb", "commit"} /\ mem[current].state = "done" =>
       "gcode" \in files[current]
  /\ wpc = "commit" /\ mem[current].state = "done" => "db" \in files[current]

\* The request in hand is for a cached job, and past the state test that job is
\* done.
HandlerInv ==
  /\ handler.pc # "idle" => handler.job \in Jobs /\ Cached(handler.job)
  /\ handler.pc = "idle" => handler = Idle
  /\ handler.pc = "body" => mem[handler.job].state = "done"

\* Without a crash or a failed update, a job that its row or its object calls
\* running is the worker's.
RunningInv ==
  faults = 0 /\ crashes = 0 =>
    \A j \in Jobs : "running" \in {row[j], mem[j].state} => j = current

Inv ==
  /\ TypeOK /\ MemoryInv /\ StoppedInv /\ WorkerInv /\ QueueInv /\ DataInv
  /\ FilesInv /\ HandlerInv /\ RunningInv /\ ArtifactHasRow /\ CacheMatchesRow

-----------------------------------------------------------------------------
(* The parts of Inv are visible everywhere below; each step adds the action *)
(* it is about and the helpers that action uses.                            *)

USE ConstantsAssumption
    DEF Inv, TypeOK, MemoryInv, StoppedInv, WorkerInv, QueueInv, DataInv, FilesInv,
        HandlerInv, RunningInv, ArtifactHasRow, CacheMatchesRow,
        Cached, Fresh, Busy, Saving, States, Terminal, Artifacts, Uncached, Idle,
        disk, bounds

\* The invariant holds in the initial state: the process is down.
LEMMA InvInit == Init => Inv
  BY DEF Init

\* No request handler step breaks the invariant (web/routes/).
LEMMA RequestsKeepInv ==
  ASSUME Inv,
         \/ \E j \in Jobs : Create(j) \/ Status(j)
         \/ \E j \in Jobs, kind \in Artifacts : Download(j, kind)
         \/ HandlerStep
  PROVE  Inv'
<1> USE DEF EventLoopFree, LockFree, Get, FromDbRow
<1>1. ASSUME NEW j \in Jobs, Create(j) PROVE Inv'
  BY <1>1 DEF Create
<1>2. ASSUME NEW j \in Jobs, Status(j) PROVE Inv'
  BY <1>2 DEF Status
<1>3. ASSUME NEW j \in Jobs, NEW kind \in Artifacts, Download(j, kind)
      PROVE  Inv'
  BY <1>3 DEF Download
<1>4. CASE Submit
  BY <1>4 DEF Submit
<1>5. CASE CheckDone
  BY <1>5 DEF CheckDone
<1>6. CASE SendBody
  BY <1>6 DEF SendBody
<1> QED
  BY <1>1, <1>2, <1>3, <1>4, <1>5, <1>6 DEF HandlerStep

\* No step of the worker thread breaks the invariant (web/worker.py).
LEMMA WorkerKeepsInv ==
  ASSUME Inv, WorkerStep \/ UpdateRaises
  PROVE  Inv'
<1> USE DEF Goto, SetState, SaveFile
<1>1. CASE LoopTest
  BY <1>1 DEF LoopTest, ExecutorShutdown
<1>2. CASE GetTimesOut
  BY <1>2 DEF GetTimesOut
<1>3. CASE Take
  BY <1>3 DEF Take
<1>4. CASE MarkRunning
  BY <1>4 DEF MarkRunning
<1>5. CASE CommitRunning
  BY <1>5 DEF CommitRunning
<1>6. CASE PipelineReturns
  BY <1>6 DEF PipelineReturns
<1>7. CASE MarkDone
  BY <1>7 DEF MarkDone
<1>8. CASE PipelineRaises
  BY <1>8 DEF PipelineRaises
<1>9. CASE SaveGcode
  BY <1>9 DEF SaveGcode
<1>10. CASE SaveDb
  BY <1>10 DEF SaveDb
<1>11. CASE CommitResult
  BY <1>11 DEF CommitResult
<1>12. CASE UpdateRaises
  BY <1>12 DEF UpdateRaises
<1> QED
  BY <1>1, <1>2, <1>3, <1>4, <1>5, <1>6, <1>7, <1>8, <1>9, <1>10, <1>11, <1>12
     DEF WorkerStep

\* No step of the process breaks the invariant: start-up with its clean-up,
\* graceful shutdown, exit and crash (web/main.py, JobStore.cleanup_old_jobs).
LEMMA ProcessKeepsInv ==
  ASSUME Inv,
         \/ \E j \in Jobs : GrowOld(j) \/ UnlinkFile(j)
         \/ Boot \/ DeleteRows \/ Shutdown \/ DrainEnds \/ Joined
         \/ StartAgain \/ Exit \/ Crash
  PROVE  Inv'
<1>1. ASSUME NEW j \in Jobs, GrowOld(j) PROVE Inv'
  BY <1>1 DEF GrowOld
<1>2. ASSUME NEW j \in Jobs, UnlinkFile(j) PROVE Inv'
  BY <1>2 DEF UnlinkFile, Doomed
<1>3. CASE Boot
  BY <1>3 DEF Boot
<1>4. CASE DeleteRows
  BY <1>4 DEF DeleteRows, Doomed
<1>5. CASE Shutdown
  BY <1>5 DEF Shutdown, EventLoopFree
<1>6. CASE DrainEnds
  BY <1>6 DEF DrainEnds
<1>7. CASE Joined
  BY <1>7 DEF Joined
<1>8. CASE StartAgain
  BY <1>8 DEF StartAgain
<1>9. CASE Exit
  BY <1>9 DEF Exit, LoseMemory
<1>10. CASE Crash
  BY <1>10 DEF Crash, LoseMemory
<1> QED
  BY <1>1, <1>2, <1>3, <1>4, <1>5, <1>6, <1>7, <1>8, <1>9, <1>10

\* Nothing of the invariant is about more than the variables.
LEMMA StutterKeepsInv == ASSUME Inv, UNCHANGED vars PROVE Inv'
  BY DEF vars

HIDE DEF Inv, TypeOK, MemoryInv, StoppedInv, WorkerInv, QueueInv, DataInv, FilesInv,
         HandlerInv, RunningInv, ArtifactHasRow, CacheMatchesRow,
         Cached, Fresh, Busy, Saving, States, Terminal, Artifacts, Uncached, Idle,
         disk, bounds

\* Inv is inductive.
LEMMA InvNext == Inv /\ [Next]_vars => Inv'
<1> SUFFICES ASSUME Inv, [Next]_vars PROVE Inv'
  OBVIOUS
<1>1. CASE Next
  BY <1>1, RequestsKeepInv, WorkerKeepsInv, ProcessKeepsInv DEF Next
<1>2. CASE UNCHANGED vars
  BY <1>2, StutterKeepsInv
<1> QED
  BY <1>1, <1>2

\* In every reachable state of every instance the invariant holds.
THEOREM Invariance == Spec => []Inv
  BY InvInit, InvNext, PTL DEF Spec

-----------------------------------------------------------------------------
(* The properties.                                                          *)

\* Every variable keeps its type.
THEOREM TypeCorrect == Spec => []TypeOK
<1>1. Inv => TypeOK
  BY DEF Inv
<1> QED
  BY <1>1, Invariance, PTL

\* While requests are served, a done row has both artifacts, whatever crashed or
\* failed before.
THEOREM DoneRowsHaveArtifacts == Spec => []DoneRowHasArtifacts
<1>1. Inv => DoneRowHasArtifacts
  BY DEF Inv, FilesInv, DoneRowHasArtifacts
<1> QED
  BY <1>1, Invariance, PTL

\* No artifact is left without a row.
THEOREM ArtifactsHaveRows == Spec => []ArtifactHasRow
<1>1. Inv => ArtifactHasRow
  BY DEF Inv
<1> QED
  BY <1>1, Invariance, PTL

\* A download that passed the state test has bytes to send.
THEOREM DownloadsHaveBodies == Spec => []DownloadHasBody
<1>1. Inv => DownloadHasBody
  BY DEF Inv, TypeOK, HandlerInv, DataInv, DownloadHasBody
<1> QED
  BY <1>1, Invariance, PTL

\* Without failed updates the cache tells what the rows say, the worker's job
\* excepted.
THEOREM CacheMatchesRows == Spec => []CacheMatchesRow
<1>1. Inv => CacheMatchesRow
  BY DEF Inv
<1> QED
  BY <1>1, Invariance, PTL

\* A graceful shutdown leaves no job half run.
THEOREM StopsCutNoJob == Spec => []StopCutsNoJob
<1>1. Inv => StopCutsNoJob
  BY DEF Inv, TypeOK, StoppedInv, WorkerInv, RunningInv, Busy, StopCutsNoJob
<1> QED
  BY <1>1, Invariance, PTL

\* No job is encoded twice.
THEOREM JobsQueuedOnce == Spec => []QueuedOnce
<1>1. Inv => QueuedOnce
  <2> SUFFICES ASSUME Inv PROVE QueuedOnce
    OBVIOUS
  <2>1. queue \in Seq(Jobs)
    BY DEF Inv, TypeOK
  <2>2. DOMAIN queue = 1..Len(queue)
    BY <2>1
  <2>3. QueueInv
    BY DEF Inv
  <2> QED
    BY <2>2, <2>3 DEF QueueInv, Fresh, QueuedOnce
<1> QED
  BY <1>1, Invariance, PTL

\* Every step maps to a step of the job life cycle on the rows, or to none.
LEMMA StepRefines == Inv /\ [Next]_vars => [Durable!Next]_row
<1> SUFFICES ASSUME Inv, Next, row' # row PROVE Durable!Next
  BY DEF vars, disk
<1> USE DEF Inv, TypeOK, WorkerInv, Terminal, Busy, Saving, disk, Durable!Next,
            Durable!Terminal
<1>1. ASSUME NEW j \in Jobs, Create(j) PROVE Durable!Next
  BY <1>1 DEF Create, Durable!Create, Durable!Move
<1>2. CASE CommitRunning
  BY <1>2 DEF CommitRunning, Goto, Durable!Begin, Durable!Move
<1>3. CASE CommitResult
  BY <1>3 DEF CommitResult, Goto, Durable!End, Durable!Move
<1>4. CASE DeleteRows
  <2>1. Doomed \in SUBSET {j \in Jobs : row[j] \in Durable!Terminal}
    BY DEF Doomed
  <2> QED
    BY <1>4, <2>1 DEF DeleteRows, Durable!Purge
<1> QED
  BY <1>1, <1>2, <1>3, <1>4
  DEF Next, HandlerStep, WorkerStep, Status, Download, Submit, CheckDone, SendBody,
      LoopTest, GetTimesOut, Take, MarkRunning, PipelineReturns, MarkDone,
      PipelineRaises, SaveGcode, SaveDb, UpdateRaises, GrowOld, UnlinkFile, Boot,
      Shutdown, DrainEnds, Joined, StartAgain, Exit, Crash, LoseMemory

\* The rows of jobs.db implement the job life cycle, across crashes, failed
\* updates, shutdowns and clean-ups.
THEOREM RowsImplementLifecycle == Spec => DurableLifecycle
<1>1. Init => Durable!Init
  BY DEF Init, Durable!Init
<1> QED
  BY <1>1, StepRefines, Invariance, PTL DEF Spec, DurableLifecycle, Durable!Spec

-----------------------------------------------------------------------------
(* What clients are told.                                                   *)

\* What a client is told changes where a Job object does; when one is read back from
\* its row, or lost with the process, the row says the same.
LEMMA AnswersRefine ==
  Inv /\ [Next]_vars => [crashes' = 0 /\ faults' = 0 => Observed!Next]_Visible
<1> SUFFICES ASSUME Inv, Next, crashes' = 0, faults' = 0
             PROVE  Observed!Next \/ UNCHANGED Visible
  BY DEF vars, disk, Visible, Cached
<1> USE ConstantsAssumption DEF Visible, Cached, disk, bounds
<1>1. /\ mem \in [Jobs -> [state : States \cup {"none"}, data : SUBSET Artifacts]]
      /\ row \in [Jobs -> States \cup {"unused", "deleted"}]
      /\ handler \in [pc : {"idle", "submit", "check", "body"},
                      job : Jobs \cup {NoJob}, kind : Artifacts]
      /\ crashes \in Nat /\ faults \in Nat
  BY DEF Inv, TypeOK
<1>2. ASSUME NEW j \in Jobs, Create(j) PROVE Observed!Next
  <2>1. faults = 0 /\ j # current /\ mem[j].state = "none"
    BY <1>1, <1>2 DEF Inv, WorkerInv, CacheMatchesRow, Create, Busy, Saving, States
  <2>2. Visible[j] = "unused" /\ Visible' = [Visible EXCEPT ![j] = "pending"]
    BY <1>1, <1>2, <2>1 DEF Create
  <2> QED
    BY <2>2 DEF Observed!Next, Observed!Create, Observed!Move
<1>3. ASSUME NEW j \in Jobs, Get(j), UNCHANGED <<row, files>> PROVE UNCHANGED Visible
  BY <1>1, <1>3 DEF Get, FromDbRow, States
<1>4. CASE MarkRunning
  <2>1. current \in Jobs /\ mem[current].state = "pending"
    BY <1>4 DEF MarkRunning, Goto, Inv, WorkerInv, Busy
  <2>2. Visible[current] = "pending" /\ Visible' = [Visible EXCEPT ![current] = "running"]
    BY <1>1, <1>4, <2>1 DEF MarkRunning, SetState
  <2> QED
    BY <2>1, <2>2 DEF Observed!Next, Observed!Begin, Observed!Move
<1>5. ASSUME NEW result \in Terminal,
             SetState(result), UNCHANGED row, wpc \in {"results", "pipeline"}
      PROVE  Observed!Next
  <2>1. current \in Jobs /\ mem[current].state = "running"
    BY <1>5 DEF Inv, WorkerInv, Busy
  <2>2. Visible[current] = "running" /\ Visible' = [Visible EXCEPT ![current] = result]
    BY <1>1, <1>5, <2>1 DEF SetState, Terminal
  <2> QED
    BY <2>1, <2>2 DEF Observed!Next, Observed!End, Observed!Move, Observed!Terminal, Terminal
<1>6. CASE PipelineReturns
  BY <1>1, <1>6 DEF PipelineReturns
<1>7. CASE CommitRunning \/ CommitResult
  <2>1. current \in Jobs /\ mem[current].state # "none"
    BY <1>7 DEF CommitRunning, CommitResult, Goto, Inv, WorkerInv, Busy, Saving, Terminal
  <2> QED
    BY <1>1, <1>7, <2>1 DEF CommitRunning, CommitResult
<1>8. CASE DeleteRows
  <2>1. mem = [j \in Jobs |-> Uncached] /\ mem' = mem
    BY <1>8 DEF DeleteRows, Inv, MemoryInv
  <2>2. Visible = [j \in Jobs |-> row[j]] /\ Visible' = [j \in Jobs |-> row'[j]]
    BY <2>1 DEF Uncached
  <2>3. Doomed \in SUBSET {j \in Jobs : Visible[j] \in Observed!Terminal}
    BY <2>2 DEF Doomed, Observed!Terminal, Terminal, Inv, TypeOK
  <2> QED
    BY <1>8, <2>2, <2>3 DEF DeleteRows, Observed!Next, Observed!Purge
<1>9. CASE Exit
  <2>1. faults = 0 /\ \A j \in Jobs : j # current
    BY <1>9 DEF Exit, Inv, StoppedInv, WorkerInv, Busy
  <2>2. \A j \in Jobs : mem[j].state # "none" => mem[j].state = row[j]
    BY <2>1 DEF Inv, CacheMatchesRow
  <2> QED
    BY <1>9, <2>2 DEF Exit, LoseMemory, Uncached
<1>10. ~UpdateRaises /\ ~Crash
  BY <1>1 DEF UpdateRaises, Crash
<1>11. ASSUME UNCHANGED <<row, mem>> PROVE UNCHANGED Visible
  BY <1>11
<1>12. CASE MarkDone \/ PipelineRaises
  BY <1>5, <1>12 DEF MarkDone, PipelineRaises, Goto, Terminal
<1> HIDE DEF Visible, Cached
<1> QED
  BY <1>2, <1>3, <1>4, <1>5, <1>6, <1>7, <1>8, <1>9, <1>10, <1>11, <1>12
  DEF Next, HandlerStep, WorkerStep, Status, Download, Submit, CheckDone, SendBody,
      LoopTest, GetTimesOut, Take, SaveGcode, SaveDb, GrowOld, UnlinkFile, Boot,
      Shutdown, DrainEnds, Joined, StartAgain

\* What GET /jobs/{id} tells clients implements the job life cycle too, over graceful
\* stops and restarts, up to the first crash and the first failed update.
THEOREM AnswersImplementLifecycle == Spec => ObservedLifecycle
<1>1. Init => Observed!Init
  BY DEF Init, Observed!Init, Visible, Cached, Uncached
<1> QED
  BY <1>1, AnswersRefine, Invariance, PTL DEF Spec, ObservedLifecycle
=============================================================================
