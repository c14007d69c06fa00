-------------------------- MODULE FingerprintMonitor --------------------------
(***************************************************************************)
(* Mid-print health monitoring in the OctoPrint plugin                     *)
(* (octoprint_plugin/infillcode/__init__.py): progress reports start check *)
(* threads, a check takes a picture and decodes it without any lock, its   *)
(* result goes into a rolling history and a failure counter, and enough    *)
(* failures in a row pause the print.  Print events reset all of it.       *)
(*                                                                         *)
(* OctoPrint is external: it runs one print after another, queues the      *)
(* events of a print, and reports progress from a thread of its own, so a  *)
(* report, an event and a check can each arrive when the print they are    *)
(* about is over.  Each critical section of _state_lock is one action.     *)
(***************************************************************************)
EXTENDS Integers, Sequences, FiniteSets

CONSTANTS
  Window,       \* _HEALTH_WINDOW
  Interval,     \* fingerprint_check_interval
  Threshold,    \* auto_pause_consecutive_failures
  Percents,     \* the progress values OctoPrint reports
  NoBucket,     \* _last_fingerprint_check_pct is None
  MaxChecks,    \* bound on check threads
  MaxPrints,    \* bound on prints
  MaxEvents     \* bound on undelivered events

Checks  == 1..MaxChecks
Bucket(progress) == (progress \div Interval) * Interval
Buckets == {Bucket(p) : p \in Percents}

ASSUME MonitorConstants ==
  /\ Window \in Nat \ {0} /\ Interval \in Nat \ {0} /\ Threshold \in Nat
  /\ Percents \subseteq 0..100
  /\ NoBucket \notin Int
  /\ MaxChecks \in Nat /\ MaxPrints \in Nat /\ MaxEvents \in Nat

VARIABLES
  (* The plugin, under _state_lock. *)
  lastBucket,   \* _last_fingerprint_check_pct
  history,      \* _fingerprint_history
  failures,     \* _consecutive_failures
  (* Its threads. *)
  calls,        \* on_print_progress between computing its bucket and the lock
  checks,       \* check threads started so far
  pc,           \* of each check thread
  cause,        \* history: the print, bucket and reset a check was started in
  (* OctoPrint. *)
  print,        \* number of prints so far
  printer,      \* its state
  progress,     \* last percentage reported in this print
  events,       \* queued for on_event
  log,          \* history: results recorded and resets, in order
  epoch         \* history: where in the log the last reset is

plugin  == <<lastBucket, history, failures, log, epoch>>
threads == <<calls, checks, pc, cause>>
octo    == <<print, printer, progress, events>>
vars    == <<plugin, threads, octo>>

Call == [print : Nat, bucket : Int]

Results == {"pass", "fail"}   \* passed: True, False

TypeOK ==
  /\ lastBucket \in Int \cup {NoBucket}
  /\ history \in Seq(Results)
  /\ failures \in Nat
  /\ calls \in Seq(Call)
  /\ checks \in 0..MaxChecks
  /\ pc \in [Checks -> {"none", "scan", "compare", "pause", "ended"}]
  /\ cause \in [Checks -> [print : Nat, bucket : Int, reset : Nat]]
  /\ print \in Nat
  /\ printer \in {"idle", "printing", "paused"}
  /\ progress \in 0..100
  /\ events \in Seq({"PrintStarted", "PrintDone"})
  /\ log \in Seq(Results \cup {"reset"}) /\ epoch \in Nat

\* initialize
Init ==
  /\ lastBucket = NoBucket /\ history = <<>> /\ failures = 0
  /\ calls = <<>> /\ checks = 0
  /\ pc = [c \in Checks |-> "none"]
  /\ cause = [c \in Checks |-> [print |-> 0, bucket |-> 0, reset |-> 0]]
  /\ print = 0 /\ printer = "idle" /\ progress = 0 /\ events = <<>>
  /\ log = <<>> /\ epoch = 0

Goto(c, from, to) == pc[c] = from /\ pc' = [pc EXCEPT ![c] = to]

-----------------------------------------------------------------------------
(* OctoPrint and the user.                                                  *)

PrintStarts ==
  /\ printer = "idle" /\ print < MaxPrints /\ Len(events) < MaxEvents
  /\ printer' = "printing" /\ print' = print + 1
  /\ events' = Append(events, "PrintStarted")
  /\ UNCHANGED <<plugin, threads, progress>>

\* PrintDone, PrintFailed and PrintCancelled reset alike.
PrintEnds ==
  /\ printer # "idle" /\ Len(events) < MaxEvents
  /\ printer' = "idle" /\ progress' = 0
  /\ events' = Append(events, "PrintDone")
  /\ UNCHANGED <<plugin, threads, print>>

UserResumes ==
  /\ printer = "paused"
  /\ printer' = "printing"
  /\ UNCHANGED <<plugin, threads, print, progress, events>>

\* A report that passes on_print_progress's first test; one call at a time.
ReportProgress ==
  /\ printer = "printing" /\ calls = <<>>
  /\ \E p \in Percents :
       /\ p > progress
       /\ progress' = p
       /\ calls' = <<[print |-> print, bucket |-> Bucket(p)]>>
  /\ UNCHANGED <<plugin, checks, pc, cause, print, printer, events>>

-----------------------------------------------------------------------------
(* on_print_progress and on_event.                                          *)

SameBucket(bucket) == bucket = 0 \/ bucket = lastBucket

\* The bucket was checked already.
SkipCheck ==
  /\ calls # <<>> /\ SameBucket(Head(calls).bucket)
  /\ calls' = Tail(calls)
  /\ UNCHANGED <<plugin, checks, pc, cause, octo>>

\* Mutant: the check starts without the bucket being noted.
StartCheckUnnoted ==
  /\ calls # <<>> /\ ~SameBucket(Head(calls).bucket)
  /\ checks < MaxChecks
  /\ calls' = Tail(calls)
  /\ checks' = checks + 1
  /\ pc' = [pc EXCEPT ![checks'] = "scan"]
  /\ cause' = [cause EXCEPT ![checks'] =
       [print |-> Head(calls).print, bucket |-> Head(calls).bucket, reset |-> epoch]]
  /\ UNCHANGED <<plugin, octo>>

\* The bucket is noted and its check thread started.
StartCheck ==
  /\ calls # <<>> /\ ~SameBucket(Head(calls).bucket)
  /\ checks < MaxChecks
  /\ calls' = Tail(calls)
  /\ lastBucket' = Head(calls).bucket
  /\ checks' = checks + 1
  /\ pc' = [pc EXCEPT ![checks'] = "scan"]
  /\ cause' = [cause EXCEPT ![checks'] =
       [print |-> Head(calls).print, bucket |-> Head(calls).bucket, reset |-> epoch]]
  /\ UNCHANGED <<history, failures, log, epoch, octo>>

\* Mutant: the failure counter survives.
ResetHistoryOnly ==
  /\ lastBucket' = NoBucket /\ history' = <<>>
  /\ log' = Append(log, "reset") /\ epoch' = Len(log) + 1
  /\ UNCHANGED failures

\* _reset_print_state
Reset ==
  /\ lastBucket' = NoBucket /\ history' = <<>> /\ failures' = 0
  /\ log' = Append(log, "reset") /\ epoch' = Len(log) + 1

\* Each of the print events resets.
OnEvent ==
  /\ events # <<>>
  /\ events' = Tail(events)
  /\ Reset
  /\ UNCHANGED <<threads, print, printer, progress>>

-----------------------------------------------------------------------------
(* _mid_print_fingerprint_check: scan, record, compare, pause.              *)

\* Mutant: the newest result is dropped from a full history, not the oldest.
RollDropsNewest(h, result) == IF Len(h) < Window THEN Append(h, result) ELSE h

\* The rolling window.
Roll(h, result) ==
  IF Len(h) < Window THEN Append(h, result) ELSE Append(Tail(h), result)

\* Mutant: a pass leaves the failure counter as it is.
RecordNoClear(result) ==
  /\ history' = Roll(history, result)
  /\ failures' = IF result = "pass" THEN failures ELSE failures + 1
  /\ log' = Append(log, result)
  /\ UNCHANGED epoch

\* Mutant: a pass takes one failure off the counter.
RecordLeaky(result) ==
  /\ history' = Roll(history, result)
  /\ failures' = IF result = "pass" THEN failures - 1 ELSE failures + 1
  /\ log' = Append(log, result)
  /\ UNCHANGED epoch

\* _record_check_result
Record(result) ==
  /\ history' = Roll(history, result)
  /\ failures' = IF result = "pass" THEN 0 ELSE failures + 1
  /\ log' = Append(log, result)
  /\ UNCHANGED epoch

\* The picture decodes to a registered layer.
ScanPasses(c) ==
  /\ Goto(c, "scan", "ended")
  /\ Record("pass")
  /\ UNCHANGED <<lastBucket, calls, checks, cause, octo>>

\* An exception, or nothing readable in the picture.
ScanFails(c) ==
  /\ Goto(c, "scan", "compare")
  /\ Record("fail")
  /\ UNCHANGED <<lastBucket, calls, checks, cause, octo>>

\* Mutant: the threshold must be exceeded, not reached.
ExceedsThreshold == Threshold > 0 /\ failures > Threshold

AtThreshold == Threshold > 0 /\ failures >= Threshold

\* _maybe_auto_pause up to its unlock.
BelowThreshold(c) ==
  /\ ~AtThreshold
  /\ Goto(c, "compare", "ended")
  /\ UNCHANGED <<plugin, calls, checks, cause, octo>>

DecidePause(c) ==
  /\ AtThreshold
  /\ Goto(c, "compare", "pause")
  /\ UNCHANGED <<plugin, calls, checks, cause, octo>>

\* pause_print, or the exception that _maybe_auto_pause swallows.
PausePrint(c) ==
  /\ Goto(c, "pause", "ended")
  /\ printer' \in {printer, IF printer = "printing" THEN "paused" ELSE printer}
  /\ UNCHANGED <<plugin, calls, checks, cause, print, progress, events>>

CheckStep(c) ==
  ScanPasses(c) \/ ScanFails(c) \/ BelowThreshold(c) \/ DecidePause(c) \/ PausePrint(c)

PluginStep == SkipCheck \/ StartCheck \/ OnEvent

Next ==
  \/ PrintStarts \/ PrintEnds \/ UserResumes \/ ReportProgress
  \/ PluginStep
  \/ \E c \in Checks : CheckStep(c)

Spec == Init /\ [][Next]_vars

\* Check threads run to their end: the snapshot request times out.
FairSpec == Spec /\ \A c \in Checks : WF_vars(CheckStep(c))

-----------------------------------------------------------------------------
(* Properties.                                                              *)

\* The counter is the run of failures at the end of the history, and goes on
\* counting when that run fills the window: the score, the dots and the number
\* in the pause message tell the same story whatever order checks and resets
\* arrive in.
CounterMatchesHistory ==
  /\ Len(history) <= Window
  /\ \A i \in DOMAIN history : i > Len(history) - failures => history[i] = "fail"
  /\ failures < Len(history) => history[Len(history) - failures] = "pass"
  /\ Len(history) < Window => failures <= Len(history)

\* The history is what was recorded since the last reset, newest last, up to the
\* window.
HistoryIsRecent ==
  LET n == Len(history) IN
  /\ n = IF Len(log) - epoch < Window THEN Len(log) - epoch ELSE Window
  /\ \A i \in 1..n : history[i] = log[Len(log) - n + i]

\* A pause was decided on Threshold failures recorded one after the other, with
\* no pass and no new print between them.
PauseEarned ==
  \A c \in Checks : pc[c] = "pause" =>
    /\ Threshold > 0
    /\ \E i \in DOMAIN log :
         /\ i >= Threshold
         /\ \A k \in (i - Threshold + 1)..i : log[k] = "fail"

\* Between two resets, no 'bucket' of a print is checked twice.
OneCheckPerBucket ==
  \A c, d \in 1..checks : cause[c] = cause[d] => c = d

\* A failed check that finds the counter at the threshold pauses the print, unless
\* a pass or a reset clears the counter before it looks.
FailuresActedOn ==
  \A c \in Checks :
    pc[c] = "compare" /\ failures >= Threshold /\ Threshold > 0
      ~> pc[c] = "pause" \/ failures < Threshold

\* README.md:11, "periodic webcam checks verify the fingerprint is still readable
\* [...] optional auto-pause after N consecutive failures": a print is paused after
\* checks of that print.  It need not be: a check, or the pause it decided on, can
\* outlive its print, and _reset_print_state does not reach it.
PausedPrintWasChecked ==
  [][printer = "printing" /\ printer' = "paused" =>
       \E c \in Checks : pc[c] # "none" /\ cause[c].print = print]_vars
=============================================================================
