---------------------------- MODULE WebClientProofs ----------------------------
(***************************************************************************)
(* Proofs about WebClient, for any number of uploads, of polls in flight   *)
(* and of graceful stops.                                                  *)
(*                                                                         *)
(* With a page in front of it the service takes only steps of its own      *)
(* specification (ServiceUnderPage), so that JobServiceProofs' invariant   *)
(* holds here too; what is added is that a job once told done stays so,    *)
(* and that whatever is under way belongs to the last upload.              *)
(***************************************************************************)
EXTENDS WebClient, JobServiceProofs

-----------------------------------------------------------------------------
(* The service under the page.                                              *)

\* The steps of the page's own leave the service alone, the others are the service's.
LEMMA ClientStepsServe == ClientTypeOK /\ [ClientNext]_webVars => [Next]_vars
<1> SUFFICES ASSUME ClientTypeOK, ClientNext, ~UNCHANGED vars PROVE Next
  BY DEF webVars
<1>1. CASE ServiceStep
  BY <1>1 DEF ServiceStep, Next
<1>2. CASE AcceptUpload
  BY <1>2 DEF AcceptUpload, Next, HandlerStep
<1>3. ASSUME NEW j \in Jobs, Encode(j) PROVE Next
  BY <1>3 DEF Encode, Next
<1>4. ASSUME NEW n \in 1..MaxPolls, AnswerPoll(n) PROVE Next
  <2>1. PICK j \in {polls[n].job} \ {NoJob} : Status(j)
    BY <1>4 DEF AnswerPoll
  <2>2. j \in Jobs
    BY DEF ClientTypeOK
  <2> QED
    BY <2>1, <2>2 DEF Next
<1> QED
  BY <1>1, <1>2, <1>3, <1>4 DEF ClientNext, LosePoll

-----------------------------------------------------------------------------
(* Types.                                                                   *)

LEMMA PollFits ==
  ASSUME ClientTypeOK, NEW n \in 1..MaxPolls, NEW j \in Jobs \cup {NoJob},
         NEW answer \in States \cup {"none", "lost"}
  PROVE  [polls EXCEPT ![n] = [job |-> j, answer |-> answer]] \in
           [1..MaxPolls -> [job : Jobs \cup {NoJob}, answer : States \cup {"none", "lost"}]]
  BY DEF ClientTypeOK

LEMMA TypesInit == ClientInit => ClientTypeOK
<1> SUFFICES ASSUME ClientInit PROVE ClientTypeOK
  OBVIOUS
<1>1. NoPoll \in [job : Jobs \cup {NoJob}, answer : States \cup {"none", "lost"}]
  BY DEF NoPoll
<1>2. polls \in [1..MaxPolls -> [job : Jobs \cup {NoJob},
                                answer : States \cup {"none", "lost"}]]
  BY <1>1 DEF ClientInit
<1> QED
  BY <1>2 DEF ClientInit, ClientTypeOK

\* The page keeps its types: each step that ends an interval ends the one in
\* pollTimer, and no step starts a second.
LEMMA PageKeepsTypes ==
  ASSUME ClientTypeOK, PageStep
  PROVE  ClientTypeOK'
<1> USE DEF ClientTypeOK
<1>1. ASSUME NEW n \in 1..MaxPolls, Arrive(n)
      PROVE  polls' \in [1..MaxPolls -> [job : Jobs \cup {NoJob},
                                         answer : States \cup {"none", "lost"}]]
  BY <1>1 DEF Arrive, NoPoll
<1>2. ASSUME NEW n \in 1..MaxPolls, Receive(n) PROVE ClientTypeOK'
  <2>1. CASE ReceiveProgress(n)
    BY <1>1, <2>1 DEF ReceiveProgress
  <2>2. CASE ReceiveDone(n)
    BY <1>1, <2>2 DEF ReceiveDone, StopPolling
  <2>3. CASE ReceiveFailed(n)
    BY <1>1, <2>3 DEF ReceiveFailed, StopPolling
  <2>4. CASE ReceiveError(n)
    BY <1>1, <2>4 DEF ReceiveError, ShowError
  <2> QED
    BY <1>2, <2>1, <2>2, <2>3, <2>4 DEF Receive
<1>3. ASSUME NEW j \in Jobs, PollJob(j) \/ UploadLost(j) PROVE ClientTypeOK'
  <2>1. CASE PollJob(j)
    BY <2>1, ConstantsAssumption DEF PollJob
  <2>2. CASE UploadLost(j)
    BY <2>2 DEF UploadLost, ShowError
  <2> QED
    BY <1>3, <2>1, <2>2
<1>4. ASSUME NEW j \in Jobs, Tick(j) PROVE ClientTypeOK'
  BY <1>4 DEF Tick
<1>5. ASSUME NEW j \in Jobs, UploadFile(j) PROVE ClientTypeOK'
  BY <1>5 DEF UploadFile
<1>6. CASE ResetUI
  BY <1>6 DEF ResetUI
<1> QED
  BY <1>2, <1>3, <1>4, <1>5, <1>6 DEF PageStep, PageLoop

\* So do the service's: what a poll is answered with is a state.
LEMMA ServiceKeepsTypes ==
  ASSUME ClientTypeOK, TypeOK,
         \/ ServiceStep /\ UNCHANGED page
         \/ AcceptUpload
         \/ \E j \in Jobs : Encode(j)
         \/ \E n \in 1..MaxPolls : AnswerPoll(n) \/ LosePoll(n)
  PROVE  ClientTypeOK'
<1>1. ASSUME UNCHANGED page PROVE ClientTypeOK'
  BY <1>1 DEF ClientTypeOK, page
<1>2. CASE AcceptUpload
  BY <1>2 DEF AcceptUpload, ClientTypeOK
<1>3. ASSUME NEW n \in 1..MaxPolls, NEW answer \in States \cup {"lost"}, Answered(n, answer)
      PROVE  ClientTypeOK'
  BY <1>3 DEF Answered, ClientTypeOK
<1>4. ASSUME NEW n \in 1..MaxPolls, AnswerPoll(n) PROVE ClientTypeOK'
  <2>1. PICK j \in {polls[n].job} \ {NoJob} : Status(j) /\ Answered(n, Visible[j])
    BY <1>4 DEF AnswerPoll
  <2>2. j \in Jobs
    BY DEF ClientTypeOK
  <2>3. Visible[j] \in States
    BY <2>1, <2>2 DEF Status, Get, Visible, Cached, TypeOK
  <2> QED
    BY <1>3, <2>1, <2>3
<1> QED
  BY <1>1, <1>2, <1>3, <1>4 DEF LosePoll, Encode

LEMMA TypesNext == Inv /\ ClientTypeOK /\ [ClientNext]_webVars => ClientTypeOK'
<1>1. CASE UNCHANGED webVars
  BY <1>1 DEF webVars, page, ClientTypeOK
<1>2. Inv => TypeOK
  BY DEF Inv
<1> QED
  BY <1>1, <1>2, PageKeepsTypes, ServiceKeepsTypes DEF ClientNext

\* The service's invariant and the page's types hold together.
LEMMA ClientTypesInvariant == ClientSpec => [](Inv /\ ClientTypeOK)
<1>1. ClientInit => Inv /\ ClientTypeOK
  BY InvInit, TypesInit DEF ClientInit
<1>2. Inv /\ ClientTypeOK /\ [ClientNext]_webVars => (Inv /\ ClientTypeOK)'
  BY InvNext, ClientStepsServe, TypesNext
<1> QED
  BY <1>1, <1>2, PTL DEF ClientSpec

\* pollTimer never loses an interval that still runs, for any number of uploads and
\* whatever is lost or late.
THEOREM ClientTypeCorrect == ClientSpec => []ClientTypeOK
  BY ClientTypesInvariant, PTL

\* What a page brings about in the service is a behaviour of JobService: whatever is
\* proved of the service alone holds behind the page.
THEOREM ServiceUnderPage == ClientSpec => Spec
<1>1. ClientInit => Init
  BY DEF ClientInit
<1> QED
  BY <1>1, ClientStepsServe, ClientTypesInvariant, PTL DEF ClientSpec, Spec

-----------------------------------------------------------------------------
(* Only the last upload.                                                    *)

\* Unless crossed, every request and the interval are the shown upload's: the POST
\* first, then the interval and its polls, then the links.
OwnInv ==
  ~crossed =>
    /\ \A j \in Jobs : posts[j] # "none" => j = shown /\ view = "status"
    /\ \A n \in 1..MaxPolls : polls[n] # NoPoll => polls[n].job = shown
    /\ live \subseteq (IF view = "status" THEN {shown} ELSE {})
    /\ InFlight # {} \/ live # {} \/ (links = shown /\ shown # NoJob) =>
         \A j \in Jobs : posts[j] = "none"
    /\ view = "status" => links \in {NoJob, shown}
    /\ links = shown => live = {}

LEMMA OwnInit == ClientInit => OwnInv
  BY DEF ClientInit, OwnInv, NoPoll, InFlight

\* A step of the page keeps all of it to the upload that is shown.
LEMMA PageKeepsOwn ==
  ASSUME ClientTypeOK, ClientTypeOK', OwnInv, PageStep
  PROVE  OwnInv'
<1> USE DEF ClientTypeOK, OwnInv, InFlight
<1>1. ASSUME NEW j \in Jobs, UploadFile(j) PROVE OwnInv'
  BY <1>1, ConstantsAssumption DEF UploadFile, Quiet
<1>2. ASSUME NEW j \in Jobs, PollJob(j) PROVE OwnInv'
  BY <1>2, ConstantsAssumption DEF PollJob
<1>3. ASSUME NEW j \in Jobs, UploadLost(j) PROVE OwnInv'
  BY <1>3, ConstantsAssumption DEF UploadLost, ShowError
<1>4. ASSUME NEW j \in Jobs, Tick(j) PROVE OwnInv'
  BY <1>4, ConstantsAssumption DEF Tick, NoPoll
<1>5. CASE ResetUI
  BY <1>5 DEF ResetUI
<1>6. ASSUME NEW n \in 1..MaxPolls, Receive(n) PROVE OwnInv'
  <2>1. polls[n] # NoPoll
    BY <1>6 DEF Receive, ReceiveProgress, ReceiveDone, ReceiveFailed, ReceiveError,
                NoPoll, Unsettled
  <2>2. CASE ReceiveProgress(n)
    BY <2>1, <2>2 DEF ReceiveProgress, Arrive
  <2>3. CASE ReceiveDone(n)
    BY <2>1, <2>3 DEF ReceiveDone, Arrive, StopPolling
  <2>4. CASE ReceiveFailed(n)
    BY <2>1, <2>4 DEF ReceiveFailed, Arrive, StopPolling
  <2>5. CASE ReceiveError(n)
    BY <2>1, <2>5 DEF ReceiveError, Arrive, ShowError
  <2> QED
    BY <1>6, <2>2, <2>3, <2>4, <2>5 DEF Receive
<1> QED
  BY <1>1, <1>2, <1>3, <1>4, <1>5, <1>6 DEF PageStep, PageLoop

LEMMA OwnNext ==
  ClientTypeOK /\ ClientTypeOK' /\ OwnInv /\ [ClientNext]_webVars => OwnInv'
<1> SUFFICES ASSUME ClientTypeOK, ClientTypeOK', OwnInv, [ClientNext]_webVars PROVE OwnInv'
  OBVIOUS
<1>1. CASE PageStep
  BY <1>1, PageKeepsOwn
<1>2. CASE UNCHANGED page
  BY <1>2 DEF page, OwnInv, InFlight
<1>3. CASE AcceptUpload
  BY <1>3 DEF AcceptUpload, OwnInv, InFlight, ClientTypeOK
<1>4. ASSUME NEW n \in 1..MaxPolls, NEW answer, Answered(n, answer) PROVE OwnInv'
  BY <1>4 DEF Answered, OwnInv, InFlight, ClientTypeOK, NoPoll
<1> QED
  BY <1>1, <1>2, <1>3, <1>4
     DEF ClientNext, webVars, AnswerPoll, LosePoll, Encode

\* When each upload begins with nothing of an earlier one under way, the page is about
\* the last upload, however many there are and however its polls overtake each other.
THEOREM PageStaysOfLastUpload == ClientSpec => []PageOfLastUpload
<1>1. OwnInv => PageOfLastUpload
  BY DEF OwnInv, PageOfLastUpload
<1>2. ClientSpec => []OwnInv
  BY OwnInit, OwnNext, ClientTypesInvariant, PTL DEF ClientSpec
<1> QED
  BY <1>1, <1>2, PTL

-----------------------------------------------------------------------------
(* The links.                                                               *)

\* The service says done: from the object, or from the row once it is read.
SaysDone(j) == mem[j].state = "done" \/ (~Cached(j) /\ row[j] = "done")

\* A page is on its own, with nothing that breaks the service.
UndisturbedInv == old = {} /\ crashes = 0 /\ faults = 0

\* What the page was told, or is about to be, still stands.
ToldInv ==
  \A j \in Jobs :
    links = j \/ (\E n \in 1..MaxPolls : polls[n].job = j /\ polls[n].answer = "done") =>
      SaysDone(j)

\* A job that is said to be done stays so: the worker is with another job, and when
\* the process exits the row says it too.
LEMMA DoneStays ==
  ASSUME Inv, UndisturbedInv, NEW j \in Jobs, SaysDone(j),
         \/ ServiceStep
         \/ Submit
         \/ \E k \in Jobs : Create(k) \/ Status(k)
         \/ UNCHANGED vars
  PROVE  SaysDone(j)'
<1> USE ConstantsAssumption DEF SaysDone, Cached
<1>1. /\ wpc \in Busy \ Saving => mem[current].state \in {"pending", "running"}
      /\ wpc \in Busy <=> current \in Jobs
      /\ current \in Jobs => row[current] \in {"pending", "running"}
      /\ Cached(j) /\ j # current => mem[j].state = row[j]
      /\ wpc = "off" => current \notin Jobs
      /\ phase = "stopped" => wpc = "off"
      /\ mem \in [Jobs -> [state : States \cup {"none"}, data : SUBSET Artifacts]]
      /\ row \in [Jobs -> States \cup {"unused", "deleted"}]
  BY DEF Inv, TypeOK, WorkerInv, StoppedInv, CacheMatchesRow, UndisturbedInv, Busy, Saving
<1>2. CASE WorkerStep
  <2> USE DEF Goto, disk, Busy, Saving
  <2>1. CASE LoopTest \/ GetTimesOut \/ Take \/ SaveGcode \/ SaveDb
    BY <2>1 DEF LoopTest, GetTimesOut, Take, SaveGcode, SaveDb
  <2>2. CASE MarkRunning \/ MarkDone \/ PipelineRaises
    BY <1>1, <2>2 DEF MarkRunning, MarkDone, PipelineRaises, SetState
  <2>3. CASE PipelineReturns
    BY <1>1, <2>3 DEF PipelineReturns
  <2>4. CASE CommitRunning \/ CommitResult
    <3>1. mem' = mem /\ wpc \in Busy
      BY <2>4 DEF CommitRunning, CommitResult
    <3>2. j # current => row'[j] = row[j]
      BY <1>1, <2>4 DEF CommitRunning, CommitResult
    <3>3. j = current => mem[j].state = "done"
      BY <1>1, <3>1
    <3> QED
      BY <3>1, <3>2, <3>3
  <2> QED
    BY <1>2, <2>1, <2>2, <2>3, <2>4 DEF WorkerStep
<1>3. CASE Boot \/ Shutdown \/ DrainEnds \/ Joined \/ StartAgain \/ Submit \/ UNCHANGED vars
  BY <1>3 DEF Boot, Shutdown, DrainEnds, Joined, StartAgain, Submit, vars, disk
<1>4. CASE DeleteRows
  BY <1>1, <1>4 DEF DeleteRows, Doomed, UndisturbedInv
<1>5. CASE Exit
  BY <1>1, <1>5 DEF Exit, LoseMemory, Uncached, disk
<1>6. ASSUME NEW k \in Jobs, Create(k) PROVE SaysDone(j)'
  BY <1>1, <1>6 DEF Create
<1>7. ASSUME NEW k \in Jobs, Status(k) PROVE SaysDone(j)'
  BY <1>1, <1>7 DEF Status, Get, FromDbRow, disk
<1> QED
  BY <1>2, <1>3, <1>4, <1>5, <1>6, <1>7 DEF ServiceStep

LEMMA UndisturbedNext ==
  ClientTypeOK /\ UndisturbedInv /\ [ClientNext]_webVars => UndisturbedInv'
<1> SUFFICES ASSUME ClientTypeOK, UndisturbedInv, [ClientNext]_webVars PROVE UndisturbedInv'
  OBVIOUS
<1> USE DEF UndisturbedInv, disk, bounds
<1>1. CASE UNCHANGED vars
  BY <1>1 DEF vars
<1>2. CASE WorkerStep
  BY <1>2 DEF WorkerStep, LoopTest, GetTimesOut, Take, MarkRunning, CommitRunning,
     PipelineReturns, MarkDone, PipelineRaises, SaveGcode, SaveDb, CommitResult
<1>3. CASE Boot \/ DeleteRows \/ Shutdown \/ DrainEnds \/ Joined \/ StartAgain \/ Exit
  BY <1>3 DEF Boot, DeleteRows, Shutdown, DrainEnds, Joined, StartAgain, Exit, LoseMemory
<1>4. CASE AcceptUpload
  BY <1>4 DEF AcceptUpload, Submit
<1>5. ASSUME NEW j, Create(j) \/ Status(j) PROVE UndisturbedInv'
  BY <1>5 DEF Create, Status
<1> QED
  BY <1>1, <1>2, <1>3, <1>4, <1>5
     DEF ClientNext, ServiceStep, webVars, AnswerPoll, LosePoll, Encode

\* A poll is answered with what the service says, and links are shown for such an
\* answer only.
LEMMA ToldNext ==
  Inv /\ ClientTypeOK /\ UndisturbedInv /\ ToldInv /\ [ClientNext]_webVars => ToldInv'
<1> SUFFICES ASSUME Inv, ClientTypeOK, UndisturbedInv, ToldInv, [ClientNext]_webVars,
                    NEW j \in Jobs,
                    \/ links' = j
                    \/ \E n \in 1..MaxPolls : polls'[n].job = j /\ polls'[n].answer = "done"
             PROVE  SaysDone(j)'
  BY DEF ToldInv
<1>1. CASE SaysDone(j)
  <2>1. \/ ServiceStep
        \/ Submit
        \/ \E k \in Jobs : Create(k) \/ Status(k)
        \/ UNCHANGED vars
    <3>1. ASSUME NEW n \in 1..MaxPolls, AnswerPoll(n) PROVE \E k \in Jobs : Status(k)
      BY <3>1 DEF AnswerPoll, ClientTypeOK
    <3> QED
      BY <3>1 DEF ClientNext, webVars, AcceptUpload, Encode, LosePoll
  <2> QED
    BY <1>1, <2>1, DoneStays
<1>2. CASE ~SaysDone(j)
  <2>1. /\ links # j
        /\ \A n \in 1..MaxPolls : ~(polls[n].job = j /\ polls[n].answer = "done")
    BY <1>2 DEF ToldInv
  <2>2. ASSUME UNCHANGED <<links, polls>> PROVE FALSE
    BY <2>1, <2>2
  <2>3. CASE PageStep
    <3> USE DEF ClientTypeOK
    <3>1. ASSUME NEW n \in 1..MaxPolls, Receive(n) PROVE FALSE
      <4>1. Arrive(n) /\ (links' # links => polls[n].answer = "done" /\ links' = polls[n].job)
        BY <3>1 DEF Receive, ReceiveProgress, ReceiveDone, ReceiveFailed, ReceiveError,
           ShowError
      <4>2. \A m \in 1..MaxPolls : polls'[m] = polls[m] \/ polls'[m].answer = "none"
        BY <4>1 DEF Arrive, NoPoll
      <4>3. links' # j
        BY <2>1, <4>1
      <4> QED
        BY <2>1, <4>2, <4>3
    <3>2. ASSUME NEW k \in Jobs, Tick(k) PROVE FALSE
      BY <2>1, <3>2 DEF Tick
    <3>3. ASSUME NEW k \in Jobs, UploadFile(k) PROVE FALSE
      BY <2>1, <3>3, ConstantsAssumption DEF UploadFile
    <3> QED
      BY <2>2, <2>3, <3>1, <3>2, <3>3
         DEF PageStep, PageLoop, ResetUI, PollJob, UploadLost, ShowError
  <2>4. ASSUME NEW n \in 1..MaxPolls, AnswerPoll(n) PROVE SaysDone(j)'
    <3>1. PICK k \in {polls[n].job} \ {NoJob} : Status(k) /\ Answered(n, Visible[k])
      BY <2>4 DEF AnswerPoll
    <3>2. k \in Jobs
      BY DEF ClientTypeOK
    <3>3. k = j /\ Visible[k] = "done"
      BY <2>1, <3>1, <3>2 DEF Answered, ClientTypeOK
    <3>4. SaysDone(j)
      BY <3>2, <3>3 DEF Visible, SaysDone, Cached
    <3> QED
      BY <1>2, <3>4
  <2>5. ASSUME NEW n \in 1..MaxPolls, LosePoll(n) PROVE FALSE
    BY <2>1, <2>5 DEF LosePoll, Answered, ClientTypeOK
  <2> QED
    BY <2>2, <2>3, <2>4, <2>5 DEF ClientNext, webVars, page, AcceptUpload, Encode
<1> QED
  BY <1>1, <1>2

\* Links that are shown are answered with both files while requests are served, over
\* any number of stops and starts of the service.
THEOREM LinksAnswered == ClientSpec => []LinkAnswers
<1>1. ClientInit => UndisturbedInv /\ ToldInv
  BY ConstantsAssumption DEF ClientInit, Init, UndisturbedInv, ToldInv, NoPoll
<1>2. Inv /\ ClientTypeOK /\ UndisturbedInv /\ ToldInv => LinkAnswers
  <2> SUFFICES ASSUME Inv, ClientTypeOK, UndisturbedInv, ToldInv,
                      links # NoJob, phase = "serving"
               PROVE  \/ Cached(links) /\ mem[links] = [state |-> "done", data |-> Artifacts]
                      \/ ~Cached(links) /\ FromDbRow(links) = [state |-> "done", data |-> Artifacts]
    BY DEF LinkAnswers
  <2>1. links \in Jobs /\ SaysDone(links)
    BY DEF ClientTypeOK, ToldInv
  <2>2. CASE mem[links].state = "done"
    <3>1. mem[links].data = Artifacts
      BY <2>1, <2>2 DEF Inv, DataInv
    <3>2. mem[links] \in [state : States \cup {"none"}, data : SUBSET Artifacts]
      BY <2>1 DEF Inv, TypeOK
    <3> QED
      BY <2>2, <3>1, <3>2 DEF Cached
  <2>3. CASE ~Cached(links) /\ row[links] = "done"
    <3>1. files[links] = Artifacts
      BY <2>1, <2>3 DEF Inv, FilesInv, UndisturbedInv
    <3> QED
      BY <2>3, <3>1 DEF FromDbRow
  <2> QED
    BY <2>1, <2>2, <2>3 DEF SaysDone
<1>3. ClientSpec => [](UndisturbedInv /\ ToldInv)
  <2>1. /\ Inv /\ ClientTypeOK /\ UndisturbedInv /\ ToldInv /\ [ClientNext]_webVars
        => (UndisturbedInv /\ ToldInv)'
    BY UndisturbedNext, ToldNext
  <2> QED
    BY <1>1, <2>1, ClientTypesInvariant, PTL DEF ClientSpec
<1> QED
  BY <1>2, <1>3, ClientTypesInvariant, PTL
=============================================================================
