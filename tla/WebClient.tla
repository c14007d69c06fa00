------------------------------ MODULE WebClient ------------------------------
(***************************************************************************)
(* The web tool's page (web/static/app.js) at work with the job service.   *)
(*                                                                         *)
(* One page, open throughout, uploads files and asks for the job's state   *)
(* every 1.2 seconds from an interval whose id is in pollTimer.  Nothing   *)
(* waits for an answer before the next poll is sent, answers overtake each *)
(* other, and a poll or an upload may be lost.  A file is named by the job *)
(* its upload creates; an interval by the job it polls, as pollJob is      *)
(* called once for each.  Numbers, labels and the layer table are left out. *)
(***************************************************************************)
EXTENDS JobService

CONSTANT MaxPolls  \* bound on polls in flight

ASSUME MaxPollsAssumption == MaxPolls \in Nat

VARIABLES
  view,      \* the section that is not hidden
  shown,     \* the upload whose name the status section shows
  links,     \* the job of the download links, when they are not hidden
  timer,     \* pollTimer
  live,      \* the intervals that are running
  posts,     \* POST /encode: not in flight, sent, or accepted and being answered
  polls,     \* GET /jobs/{id} in flight, each with its answer once there is one
  crossed    \* history: the last upload began with another still under way

page    == <<view, shown, links, timer, live, posts, polls, crossed>>
webVars == <<vars, page>>

NoPoll    == [job |-> NoJob, answer |-> "none"]
Unsettled == {"pending", "running"}

\* Types, and pollTimer never loses an interval that still runs: no interval runs
\* that clearInterval(pollTimer) would not reach.
ClientTypeOK ==
  /\ view \in {"upload", "status", "error"}
  /\ {shown, links, timer} \subseteq Jobs \cup {NoJob}
  /\ live \subseteq {timer} \ {NoJob}
  /\ posts \in [Jobs -> {"none", "sent", "accepted"}]
  /\ polls \in [1..MaxPolls -> [job : Jobs \cup {NoJob},
                                answer : States \cup {"none", "lost"}]]
  /\ crossed \in BOOLEAN

ClientInit ==
  /\ Init
  /\ view = "upload" /\ shown = NoJob /\ links = NoJob
  /\ timer = NoJob /\ live = {}
  /\ posts = [j \in Jobs |-> "none"]
  /\ polls = [n \in 1..MaxPolls |-> NoPoll]
  /\ crossed = FALSE

InFlight == {n \in 1..MaxPolls : polls[n] # NoPoll}

\* Nothing of an earlier upload can still reach the page.
Quiet == InFlight = {} /\ live = {} /\ \A j \in Jobs : posts[j] = "none"

\* Mutant: pollTimer is forgotten instead of cleared.
ClearTimerOnly == live' = live /\ timer' = NoJob

\* clearInterval(pollTimer); pollTimer = null
StopPolling == live' = live \ {timer} /\ timer' = NoJob

\* showError: the interval is cleared, pollTimer keeps its number.
ShowError ==
  /\ view' = "error"
  /\ live' = live \ {timer} /\ timer' = timer
  /\ UNCHANGED <<shown, links>>

-----------------------------------------------------------------------------
(* The user.                                                                *)

\* Mutant: the last upload's links stay.
UploadFileKeepsLinks(j) ==
  /\ view = "upload"
  /\ row[j] = "unused" /\ posts[j] = "none"
  /\ view' = "status" /\ shown' = j
  /\ posts' = [posts EXCEPT ![j] = "sent"]
  /\ crossed' = ~Quiet
  /\ UNCHANGED <<links, timer, live, polls>>

\* uploadFile: showStatus, then the POST.
UploadFile(j) ==
  /\ view = "upload"
  /\ row[j] = "unused" /\ posts[j] = "none"
  /\ view' = "status" /\ shown' = j /\ links' = NoJob
  /\ posts' = [posts EXCEPT ![j] = "sent"]
  /\ crossed' = ~Quiet
  /\ UNCHANGED <<timer, live, polls>>

\* resetUI
ResetUI ==
  /\ view = "error"
  /\ view' = "upload"
  /\ live' = live \ {timer}
  /\ UNCHANGED <<shown, links, timer, posts, polls, crossed>>

-----------------------------------------------------------------------------
(* Answers to uploads, the interval and its polls.                          *)

\* pollJob, with the answer to the POST.
PollJob(j) ==
  /\ posts[j] = "accepted"
  /\ posts' = [posts EXCEPT ![j] = "none"]
  /\ live' = (live \ {timer}) \cup {j}
  /\ timer' = j
  /\ UNCHANGED <<view, shown, links, polls, crossed>>

\* The POST fails, before or after its handler has run.
UploadLost(j) ==
  /\ posts[j] # "none"
  /\ posts' = [posts EXCEPT ![j] = "none"]
  /\ ShowError
  /\ UNCHANGED <<polls, crossed>>

\* The interval fires.
Tick(j) ==
  /\ j \in live
  /\ \E n \in 1..MaxPolls \ InFlight :
       /\ \A k \in 1..(n - 1) : k \in InFlight
       /\ polls' = [polls EXCEPT ![n] = [job |-> j, answer |-> "none"]]
  /\ UNCHANGED <<view, shown, links, timer, live, posts, crossed>>

Arrive(n) == polls' = [polls EXCEPT ![n] = NoPoll]

\* Mutant: the first answer ends the interval.
ReceiveProgressOnce(n) ==
  /\ polls[n].answer \in Unsettled
  /\ Arrive(n)
  /\ StopPolling
  /\ UNCHANGED <<view, shown, links, posts, crossed>>

\* updateStatus with "pending" or "running".
ReceiveProgress(n) ==
  /\ polls[n].answer \in Unsettled
  /\ Arrive(n)
  /\ UNCHANGED <<view, shown, links, timer, live, posts, crossed>>

\* updateStatus with "done" shows the links.
ReceiveDone(n) ==
  /\ polls[n].answer = "done"
  /\ Arrive(n)
  /\ links' = polls[n].job
  /\ StopPolling
  /\ UNCHANGED <<view, shown, posts, crossed>>

\* updateStatus with "failed" is showError, then the interval is stopped.
ReceiveFailed(n) ==
  /\ polls[n].answer = "failed"
  /\ Arrive(n)
  /\ view' = "error"
  /\ StopPolling
  /\ UNCHANGED <<shown, links, posts, crossed>>

\* The catch block.
ReceiveError(n) ==
  /\ polls[n].answer = "lost"
  /\ Arrive(n)
  /\ ShowError
  /\ UNCHANGED <<posts, crossed>>

Receive(n) == ReceiveProgress(n) \/ ReceiveDone(n) \/ ReceiveFailed(n) \/ ReceiveError(n)

-----------------------------------------------------------------------------
(* The service, as this page uses it.                                       *)

Answered(n, answer) ==
  /\ polls[n].job # NoJob /\ polls[n].answer = "none"
  /\ polls' = [polls EXCEPT ![n].answer = answer]
  /\ UNCHANGED <<view, shown, links, timer, live, posts, crossed>>

\* job_status answers with the object's state.
AnswerPoll(n) ==
  \E j \in {polls[n].job} \ {NoJob} : Status(j) /\ Answered(n, Visible[j])

\* 404, a refused connection, a broken one.
LosePoll(n) == Answered(n, "lost") /\ UNCHANGED vars

Encode(j) == posts[j] = "sent" /\ Create(j) /\ UNCHANGED page

AcceptUpload ==
  /\ Submit
  /\ posts' = [posts EXCEPT ![handler.job] = IF @ = "sent" THEN "accepted" ELSE @]
  /\ UNCHANGED <<view, shown, links, timer, live, polls, crossed>>

\* The process stops and starts again but does not crash, no update raises, and no
\* page is open for the seven days after which jobs are removed.
ServiceStep ==
  \/ WorkerStep
  \/ Boot \/ DeleteRows \/ Shutdown \/ DrainEnds \/ Joined
  \/ StartAgain \/ Exit

\* The page's event loop: timers and answers.
PageLoop ==
  \/ \E j \in Jobs : PollJob(j) \/ Tick(j)
  \/ \E n \in 1..MaxPolls : Receive(n)

PageStep ==
  \/ ResetUI \/ PageLoop
  \/ \E j \in Jobs : UploadFile(j) \/ UploadLost(j)

ClientNext ==
  \/ PageStep /\ UNCHANGED vars
  \/ ServiceStep /\ UNCHANGED page
  \/ AcceptUpload
  \/ \E j \in Jobs : Encode(j)
  \/ \E n \in 1..MaxPolls : AnswerPoll(n) \/ LosePoll(n)

\* The service's threads are scheduled and it answers polls; the page's event loop
\* does not stop while it has something to do.
ClientSpec ==
  /\ ClientInit /\ [][ClientNext]_webVars
  /\ Fairness
  /\ WF_page(PageLoop)
  /\ WF_webVars(\E n \in 1..MaxPolls : AnswerPoll(n))

-----------------------------------------------------------------------------
(* Properties.                                                              *)

\* A download link that the page shows is answered with its bytes while requests
\* are served: the page's "done" came from an object that is saved only afterwards,
\* and the process may have been stopped and started since.
LinkAnswers ==
  links # NoJob /\ phase = "serving" =>
    \/ Cached(links) /\ mem[links] = [state |-> "done", data |-> Artifacts]
    \/ ~Cached(links) /\ FromDbRow(links) = [state |-> "done", data |-> Artifacts]

\* As long as an upload begins when no request or interval of an earlier one is
\* left, the page is about the last upload only, however its own polls overtake
\* each other: its links, its interval, and no interval without it.
PageOfLastUpload ==
  ~crossed =>
    /\ live \subseteq (IF view = "status" THEN {shown} ELSE {})
    /\ view = "status" => links \in {NoJob, shown}
    /\ links = shown => live = {}

\* Then, too, a page that polls a job the service has taken on ends with its links
\* or an error message, unless the process goes down.
PageResolves ==
  \A j \in Jobs :
    j \in live /\ (Accepted(j) \/ current = j)
      ~> view = "error" \/ links = j \/ phase # "serving" \/ crossed
=============================================================================
