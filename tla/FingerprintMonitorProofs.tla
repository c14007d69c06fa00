----------------------- MODULE FingerprintMonitorProofs -----------------------
(***************************************************************************)
(* Proofs about FingerprintMonitor, for any window, interval, threshold    *)
(* and any number of checks and prints.                                    *)
(*                                                                         *)
(* The counter and the window are related to the log of everything that    *)
(* was recorded: the counter is the length of a run of failures at its     *)
(* end, the window its most recent part.  Both relations are needed to     *)
(* carry each other over a step, and a pause decision is then justified by *)
(* the log as it was, which only grows.                                    *)
(***************************************************************************)
EXTENDS FingerprintMonitor, SequenceTheorems, TLAPS

\* The counter is a run of failures at the end of the log.
StreakInv ==
  /\ failures <= Len(log)
  /\ \A k \in 1..Len(log) : k > Len(log) - failures => log[k] = "fail"

\* The last reset is in the log.
EpochInv == epoch <= Len(log)

MonitorInv ==
  TypeOK /\ CounterMatchesHistory /\ HistoryIsRecent /\ StreakInv /\ EpochInv

Inv == MonitorInv /\ PauseEarned

-----------------------------------------------------------------------------
(* The rolling window.                                                      *)

\* Roll appends the new result and, when the window is full, forgets the oldest.
LEMMA RollContents ==
  ASSUME NEW h \in Seq(Results), NEW result \in Results, Len(h) <= Window
  PROVE  /\ Roll(h, result) \in Seq(Results)
         /\ Len(h) < Window =>
              /\ Len(Roll(h, result)) = Len(h) + 1
              /\ \A i \in 1..Len(h) : Roll(h, result)[i] = h[i]
         /\ Len(h) = Window =>
              /\ Len(Roll(h, result)) = Len(h)
              /\ \A i \in 1..(Len(h) - 1) : Roll(h, result)[i] = h[i + 1]
         /\ Roll(h, result)[Len(Roll(h, result))] = result
<1>1. CASE Len(h) < Window
  BY <1>1, MonitorConstants DEF Roll
<1>2. CASE Len(h) = Window
  <2>1. h # <<>>
    BY <1>2, MonitorConstants
  <2>2. /\ Tail(h) \in Seq(Results) /\ Len(Tail(h)) = Len(h) - 1
        /\ \A i \in 1..(Len(h) - 1) : Tail(h)[i] = h[i + 1]
    BY <2>1
  <2>3. Roll(h, result) = Append(Tail(h), result)
    BY <1>2, MonitorConstants DEF Roll
  <2> QED
    BY <1>2, <2>1, <2>2, <2>3
<1> QED
  BY <1>1, <1>2, MonitorConstants

\* Recording a result keeps the counter, the window and the log in step.
LEMMA RecordKeeps ==
  ASSUME MonitorInv, NEW result \in Results, Record(result)
  PROVE  /\ history' \in Seq(Results) /\ failures' \in Nat /\ epoch' \in Nat
         /\ log' \in Seq(Results \cup {"reset"})
         /\ CounterMatchesHistory' /\ HistoryIsRecent' /\ StreakInv' /\ EpochInv'
<1> USE MonitorConstants DEF Results
<1> DEFINE n == Len(history)
           m == Len(history')
<1>1. /\ history \in Seq(Results) /\ failures \in Nat /\ epoch \in Nat
      /\ log \in Seq(Results \cup {"reset"}) /\ n \in Nat /\ n <= Window
  BY DEF MonitorInv, TypeOK, CounterMatchesHistory
<1>2. /\ history' = Roll(history, result)
      /\ failures' = IF result = "pass" THEN 0 ELSE failures + 1
      /\ log' = Append(log, result) /\ epoch' = epoch
  BY DEF Record
<1>3. /\ history' \in Seq(Results)
      /\ n < Window => m = n + 1 /\ \A i \in 1..n : history'[i] = history[i]
      /\ n = Window => m = n /\ \A i \in 1..(n - 1) : history'[i] = history[i + 1]
      /\ history'[m] = result
  BY <1>1, <1>2, RollContents
<1>4. /\ log' \in Seq(Results \cup {"reset"}) /\ Len(log') = Len(log) + 1
      /\ \A i \in 1..Len(log) : log'[i] = log[i]
      /\ log'[Len(log) + 1] = result
  BY <1>1, <1>2
<1>5. m \in Nat /\ m >= 1 /\ m <= Window
  BY <1>1, <1>3
<1>6. CounterMatchesHistory'
  <2>1. CASE result = "pass"
    BY <2>1, <1>1, <1>2, <1>3, <1>5 DEF CounterMatchesHistory
  <2>2. CASE result = "fail"
    <3>1. /\ \A i \in 1..n : i > n - failures => history[i] = "fail"
          /\ failures < n => history[n - failures] = "pass"
          /\ n < Window => failures <= n
      BY <1>1 DEF MonitorInv, CounterMatchesHistory
    <3>2. failures' = failures + 1 /\ history'[m] = "fail"
      BY <2>2, <1>2, <1>3
    <3>3. ASSUME NEW i \in 1..m, i > m - failures' PROVE history'[i] = "fail"
      <4>1. CASE i = m
        BY <4>1, <3>2
      <4>2. CASE i < m /\ n < Window
        <5>1. i \in 1..n /\ i > n - failures
          BY <4>2, <3>2, <3>3, <1>1, <1>3
        <5> QED
          BY <5>1, <4>2, <3>1, <1>3
      <4>3. CASE i < m /\ n = Window
        <5>1. i \in 1..(n - 1) /\ i + 1 \in 1..n /\ i + 1 > n - failures
          BY <4>3, <3>2, <3>3, <1>1, <1>3
        <5> QED
          BY <5>1, <4>3, <3>1, <1>3
      <4> QED
        BY <4>1, <4>2, <4>3, <1>1, <1>5
    <3>4. failures' < m => history'[m - failures'] = "pass"
      BY <3>1, <3>2, <1>1, <1>3, <1>5
    <3>5. m < Window => failures' <= m
      BY <3>1, <3>2, <1>1, <1>3, <1>5
    <3> QED
      BY <3>3, <3>4, <3>5, <1>3, <1>5 DEF CounterMatchesHistory
  <2> QED
    BY <2>1, <2>2
<1>7. HistoryIsRecent'
  <2>1. /\ n = IF Len(log) - epoch < Window THEN Len(log) - epoch ELSE Window
        /\ \A i \in 1..n : history[i] = log[Len(log) - n + i]
        /\ epoch <= Len(log)
    BY DEF MonitorInv, HistoryIsRecent, EpochInv
  <2>2. m = IF Len(log') - epoch' < Window THEN Len(log') - epoch' ELSE Window
    BY <2>1, <1>1, <1>2, <1>3, <1>4, <1>5
  <2>3. history'[m] = log'[Len(log')]
    BY <1>2, <1>3, <1>4
  <2>4. ASSUME NEW i \in 1..(m - 1)
        PROVE  history'[i] = log'[Len(log') - m + i]
    <3>1. CASE n < Window
      <4>1. i \in 1..n /\ history'[i] = history[i]
        BY <3>1, <1>1, <1>3
      <4>2. n = Len(log) - epoch /\ m = n + 1 /\ Len(log) \in Nat
        BY <3>1, <2>1, <1>1, <1>3
      <4>3. Len(log') - m + i = Len(log) - n + i
        BY <4>1, <4>2, <1>1, <1>4
      <4>4. Len(log) - n + i \in 1..Len(log)
        BY <4>1, <4>2, <1>1
      <4> QED
        BY <4>1, <4>3, <4>4, <2>1, <1>4
    <3>2. CASE n = Window
      <4>1. i + 1 \in 1..n /\ history'[i] = history[i + 1]
        BY <3>2, <1>1, <1>3
      <4>2. n <= Len(log) /\ m = n /\ Len(log) \in Nat
        BY <3>2, <2>1, <1>1, <1>3
      <4>3. Len(log') - m + i = Len(log) - n + (i + 1)
        BY <4>1, <4>2, <1>1, <1>4
      <4>4. Len(log) - n + (i + 1) \in 1..Len(log)
        BY <4>1, <4>2, <1>1
      <4> QED
        BY <4>1, <4>3, <4>4, <2>1, <1>4
    <3> QED
      BY <3>1, <3>2, <1>1
  <2>5. \A i \in 1..m : history'[i] = log'[Len(log') - m + i]
    <3> SUFFICES ASSUME NEW i \in 1..m
                 PROVE  history'[i] = log'[Len(log') - m + i]
      OBVIOUS
    <3>1. CASE i = m
      BY <3>1, <2>3, <1>4, <1>5, <1>1
    <3>2. CASE i # m
      BY <3>2, <2>4, <1>5
    <3> QED
      BY <3>1, <3>2
  <2> QED
    BY <2>2, <2>5 DEF HistoryIsRecent
<1>8. StreakInv'
  BY <1>1, <1>2, <1>4 DEF MonitorInv, StreakInv
<1>9. EpochInv'
  BY <1>1, <1>2, <1>4 DEF MonitorInv, EpochInv
<1> QED
  BY <1>1, <1>2, <1>3, <1>4, <1>6, <1>7, <1>8, <1>9

\* A step that leaves the record alone, or adds to the log, keeps what justified
\* the pauses that were decided before it.
LEMMA PausesStayEarned ==
  ASSUME TypeOK, PauseEarned, NEW e, log' \in {log, Append(log, e)},
         \A c \in Checks : pc'[c] = "pause" => pc[c] = "pause"
  PROVE  PauseEarned'
<1>1. /\ Len(log') >= Len(log) /\ Len(log') \in Nat /\ DOMAIN log' = 1..Len(log')
      /\ \A i \in 1..Len(log) : log'[i] = log[i]
  <2>1. log \in Seq(Results \cup {"reset"})
    BY DEF TypeOK
  <2>2. CASE log' = log
    BY <2>1, <2>2
  <2>3. CASE log' = Append(log, e)
    <3>1. Append(log, e) \in Seq(Results \cup {"reset", e})
      BY <2>1
    <3> QED
      BY <2>1, <2>3, <3>1
  <2> QED
    BY <2>2, <2>3
<1> SUFFICES ASSUME NEW c \in Checks, pc'[c] = "pause"
             PROVE  /\ Threshold > 0
                    /\ \E i \in DOMAIN log' :
                         /\ i >= Threshold
                         /\ \A k \in (i - Threshold + 1)..i : log'[k] = "fail"
  BY DEF PauseEarned
<1>2. Threshold > 0
  BY DEF PauseEarned
<1>3. PICK i \in DOMAIN log :
        i >= Threshold /\ \A k \in (i - Threshold + 1)..i : log[k] = "fail"
  BY DEF PauseEarned
<1>4. i \in 1..Len(log) /\ Len(log) \in Nat
  BY <1>3 DEF TypeOK
<1>5. \A k \in (i - Threshold + 1)..i : k \in 1..Len(log)
  BY <1>3, <1>4, MonitorConstants
<1>6. i \in DOMAIN log'
  <2>1. Len(log') >= Len(log) /\ Len(log') \in Nat
    BY <1>1
  <2>2. i \in 1..Len(log')
    BY <2>1, <1>4
  <2>3. DOMAIN log' = 1..Len(log')
    BY <1>1
  <2> QED
    BY <2>2, <2>3
<1> QED
  BY <1>1, <1>2, <1>3, <1>5, <1>6

-----------------------------------------------------------------------------
(* One lemma per group of actions.                                          *)

LEMMA InvInit == Init => Inv
  BY MonitorConstants
     DEF Init, Inv, MonitorInv, TypeOK, CounterMatchesHistory, HistoryIsRecent,
         StreakInv, EpochInv, PauseEarned

\* Nothing OctoPrint or the user does touches the record.
LEMMA OctoPrintKeepsInv ==
  ASSUME Inv, PrintStarts \/ PrintEnds \/ UserResumes \/ ReportProgress
  PROVE  Inv'
<1>1. UNCHANGED <<plugin, checks, pc, cause>>
  BY DEF PrintStarts, PrintEnds, UserResumes, ReportProgress, threads
<1>2. TypeOK'
  <2> USE MonitorConstants DEF Inv, MonitorInv, TypeOK, plugin, threads, octo
  <2>1. CASE PrintStarts
    BY <2>1 DEF PrintStarts
  <2>2. CASE PrintEnds
    BY <2>2 DEF PrintEnds
  <2>3. CASE UserResumes
    BY <2>3 DEF UserResumes
  <2>4. CASE ReportProgress
    BY <2>4 DEF ReportProgress, Bucket, Call
  <2> QED
    BY <2>1, <2>2, <2>3, <2>4
<1> QED
  BY <1>1, <1>2
     DEF plugin, Inv, MonitorInv, CounterMatchesHistory, HistoryIsRecent,
         StreakInv, EpochInv, PauseEarned

\* A progress report starts a check or not; an event resets.
LEMMA PluginKeepsInv ==
  ASSUME Inv, PluginStep
  PROVE  Inv'
<1> USE DEF plugin, threads, octo
<1>1. CASE SkipCheck
  <2>1. TypeOK'
    BY <1>1 DEF SkipCheck, Inv, MonitorInv, TypeOK
  <2> QED
    BY <1>1, <2>1
       DEF SkipCheck, Inv, MonitorInv, CounterMatchesHistory, HistoryIsRecent,
           StreakInv, EpochInv, PauseEarned
<1>2. CASE StartCheck
  <2>1. calls \in Seq(Call) /\ calls # <<>>
    BY <1>2 DEF StartCheck, Inv, MonitorInv, TypeOK
  <2>2. Head(calls) \in Call /\ Tail(calls) \in Seq(Call)
    BY <2>1
  <2>3. checks + 1 \in Checks /\ checks + 1 \in 0..MaxChecks
    BY <1>2, MonitorConstants DEF StartCheck, Inv, MonitorInv, TypeOK, Checks
  <2>4. TypeOK'
    <3>1. Head(calls).print \in Nat /\ Head(calls).bucket \in Int
      BY <2>2 DEF Call
    <3>2. [print |-> Head(calls).print, bucket |-> Head(calls).bucket, reset |-> epoch]
            \in [print : Nat, bucket : Int, reset : Nat]
      BY <3>1 DEF Inv, MonitorInv, TypeOK
    <3>3. cause' \in [Checks -> [print : Nat, bucket : Int, reset : Nat]]
      BY <1>2, <2>3, <3>2 DEF StartCheck, Inv, MonitorInv, TypeOK
    <3>4. pc' \in [Checks -> {"none", "scan", "compare", "pause", "ended"}]
      BY <1>2, <2>3 DEF StartCheck, Inv, MonitorInv, TypeOK
    <3> QED
      BY <1>2, <2>2, <2>3, <3>1, <3>3, <3>4 DEF StartCheck, Inv, MonitorInv, TypeOK
  <2>5. PauseEarned'
    BY <1>2, PausesStayEarned DEF StartCheck, Inv, MonitorInv, TypeOK
  <2> QED
    BY <1>2, <2>4, <2>5
       DEF StartCheck, Inv, MonitorInv, CounterMatchesHistory, HistoryIsRecent,
           StreakInv, EpochInv
<1>3. CASE OnEvent
  <2> USE DEF OnEvent, Reset
  <2>1. TypeOK'
    BY <1>3 DEF Inv, MonitorInv, TypeOK
  <2>2. PauseEarned'
    BY <1>3, PausesStayEarned DEF Inv, MonitorInv
  <2>3. history' = <<>> /\ failures' = 0 /\ epoch' = Len(log') /\ Len(log') \in Nat
    BY <1>3 DEF Inv, MonitorInv, TypeOK
  <2> QED
    BY <2>1, <2>2, <2>3, MonitorConstants
       DEF Inv, MonitorInv, CounterMatchesHistory, HistoryIsRecent, StreakInv, EpochInv
<1> QED
  BY <1>1, <1>2, <1>3 DEF PluginStep

\* No step of a check thread breaks the invariant.
LEMMA ChecksKeepInv ==
  ASSUME Inv, NEW c \in Checks, CheckStep(c)
  PROVE  Inv'
<1> USE DEF plugin, threads, octo, Goto
<1>1. CASE ScanPasses(c) \/ ScanFails(c)
  <2>1. PICK result \in Results : Record(result)
    BY <1>1 DEF ScanPasses, ScanFails, Results
  <2>2. /\ UNCHANGED <<lastBucket, calls, checks, cause, octo>>
        /\ pc' \in {[pc EXCEPT ![c] = "ended"], [pc EXCEPT ![c] = "compare"]}
    BY <1>1 DEF ScanPasses, ScanFails
  <2>3. MonitorInv
    BY DEF Inv
  <2>4. /\ history' \in Seq(Results) /\ failures' \in Nat /\ epoch' \in Nat
        /\ log' \in Seq(Results \cup {"reset"})
        /\ CounterMatchesHistory' /\ HistoryIsRecent' /\ StreakInv' /\ EpochInv'
    BY <2>1, <2>3, RecordKeeps
  <2>5. TypeOK'
    BY <2>2, <2>3, <2>4 DEF MonitorInv, TypeOK
  <2>6. \A d \in Checks : pc'[d] = "pause" => pc[d] = "pause"
    BY <2>2, <2>3 DEF MonitorInv, TypeOK
  <2>7. PauseEarned'
    BY <2>1, <2>3, <2>6, PausesStayEarned DEF Inv, MonitorInv, Record
  <2> QED
    BY <2>4, <2>5, <2>7 DEF Inv, MonitorInv
<1>2. CASE BelowThreshold(c) \/ PausePrint(c)
  <2>1. UNCHANGED plugin /\ pc' = [pc EXCEPT ![c] = "ended"]
    BY <1>2 DEF BelowThreshold, PausePrint
  <2>2. TypeOK'
    BY <1>2, <2>1 DEF BelowThreshold, PausePrint, Inv, MonitorInv, TypeOK
  <2>3. PauseEarned'
    BY <2>1, PausesStayEarned DEF Inv, MonitorInv, TypeOK
  <2> QED
    BY <2>1, <2>2, <2>3
       DEF Inv, MonitorInv, CounterMatchesHistory, HistoryIsRecent, StreakInv, EpochInv
<1>3. CASE DecidePause(c)
  <2>1. UNCHANGED plugin /\ AtThreshold /\ pc' = [pc EXCEPT ![c] = "pause"]
    BY <1>3 DEF DecidePause
  <2>2. TypeOK'
    BY <1>3, <2>1 DEF DecidePause, Inv, MonitorInv, TypeOK
  <2>3. /\ Len(log) \in Nat /\ DOMAIN log = 1..Len(log) /\ failures \in Nat
        /\ failures <= Len(log) /\ Threshold > 0 /\ Threshold <= failures
        /\ Threshold \in Nat
    BY <2>1, MonitorConstants DEF AtThreshold, Inv, MonitorInv, TypeOK, StreakInv
  <2>4. \A k \in (Len(log) - Threshold + 1)..Len(log) : log[k] = "fail"
    BY <2>3 DEF Inv, MonitorInv, StreakInv
  <2>5. /\ Len(log) \in DOMAIN log /\ Len(log) >= Threshold
    BY <2>3
  <2>6. \E i \in DOMAIN log :
          i >= Threshold /\ \A k \in (i - Threshold + 1)..i : log[k] = "fail"
    BY <2>4, <2>5
  <2>7. PauseEarned'
    BY <2>1, <2>3, <2>6 DEF PauseEarned
  <2> QED
    BY <2>1, <2>2, <2>7
       DEF Inv, MonitorInv, CounterMatchesHistory, HistoryIsRecent, StreakInv, EpochInv
<1> QED
  BY <1>1, <1>2, <1>3 DEF CheckStep

LEMMA InvNext == Inv /\ [Next]_vars => Inv'
<1> SUFFICES ASSUME Inv, [Next]_vars PROVE Inv'
  OBVIOUS
<1>1. CASE PrintStarts \/ PrintEnds \/ UserResumes \/ ReportProgress
  BY <1>1, OctoPrintKeepsInv
<1>2. CASE PluginStep
  BY <1>2, PluginKeepsInv
<1>3. ASSUME NEW c \in Checks, CheckStep(c) PROVE Inv'
  BY <1>3, ChecksKeepInv
<1>4. CASE UNCHANGED vars
  BY <1>4 DEF vars, plugin, threads, octo, Inv, MonitorInv, TypeOK,
              CounterMatchesHistory, HistoryIsRecent, StreakInv, EpochInv, PauseEarned
<1> QED
  BY <1>1, <1>2, <1>3, <1>4 DEF Next

-----------------------------------------------------------------------------

\* The inductive invariant holds in every reachable state.
THEOREM Invariance == Spec => []Inv
  BY InvInit, InvNext, PTL DEF Spec

\* Every variable of the monitor keeps its type.
THEOREM TypeCorrect == Spec => []TypeOK
<1>1. Inv => TypeOK
  BY DEF Inv, MonitorInv
<1> QED
  BY <1>1, Invariance, PTL

\* The counter is the run of failures at the end of the rolling history, however
\* checks, reports and resets interleave, for every window.
THEOREM CounterMatches == Spec => []CounterMatchesHistory
<1>1. Inv => CounterMatchesHistory
  BY DEF Inv, MonitorInv
<1> QED
  BY <1>1, Invariance, PTL

\* The history is the last Window results recorded since the last reset.
THEOREM HistoryRecent == Spec => []HistoryIsRecent
<1>1. Inv => HistoryIsRecent
  BY DEF Inv, MonitorInv
<1> QED
  BY <1>1, Invariance, PTL

\* Nobody pauses without Threshold failures recorded in a row, for every threshold
\* and any number of check threads.
THEOREM PausesEarned == Spec => []PauseEarned
<1>1. Inv => PauseEarned
  BY DEF Inv
<1> QED
  BY <1>1, Invariance, PTL

-----------------------------------------------------------------------------
(* No bucket is checked twice.  Within a print buckets never go down, and   *)
(* prints come one after the other, so the calls, and the checks they       *)
(* start, are in the order of print and bucket; lastBucket then only has to *)
(* keep the newest check apart from the next.                               *)

\* a is of an earlier print than b, or of the same and of no higher a bucket.
UpTo(a, b) == a.print < b.print \/ (a.print = b.print /\ a.bucket <= b.bucket)

\* What was called or started in the print that is running is no further than its
\* progress.
Reached(a) ==
  a.print <= print /\ (a.print = print /\ printer # "idle" => a.bucket <= Bucket(progress))

OrderInv ==
  /\ Len(calls) <= 1
  /\ \A c \in 1..checks : Reached(cause[c]) /\ cause[c].reset <= epoch
  /\ calls # <<>> => Reached(Head(calls)) /\ \A c \in 1..checks : UpTo(cause[c], Head(calls))
  /\ \A c, d \in 1..checks : c < d =>
       UpTo(cause[c], cause[d]) /\ cause[c].reset <= cause[d].reset
  /\ checks > 0 /\ cause[checks].reset = epoch => lastBucket = cause[checks].bucket
  /\ OneCheckPerBucket

LEMMA BucketsRise ==
  ASSUME NEW p \in Nat, NEW q \in Nat, p <= q
  PROVE  Bucket(p) \in Int /\ Bucket(p) <= Bucket(q)
<1>1. Interval \in Nat /\ Interval > 0
  BY MonitorConstants
<1>2. p \div Interval <= q \div Interval
  BY <1>1
<1> QED
  BY <1>1, <1>2 DEF Bucket

LEMMA CausesTyped ==
  ASSUME TypeOK
  PROVE  /\ checks \in Nat
         /\ \A c \in 1..checks :
              /\ c \in Checks
              /\ cause[c].print \in Nat /\ cause[c].bucket \in Int /\ cause[c].reset \in Nat
<1>1. checks \in 0..MaxChecks /\ MaxChecks \in Nat
  BY MonitorConstants DEF TypeOK
<1>2. ASSUME NEW c \in 1..checks PROVE c \in Checks
  BY <1>1 DEF Checks
<1>3. ASSUME NEW c \in Checks
      PROVE  cause[c].print \in Nat /\ cause[c].bucket \in Int /\ cause[c].reset \in Nat
  <2>1. cause[c] \in [print : Nat, bucket : Int, reset : Nat]
    BY DEF TypeOK
  <2> QED
    BY <2>1
<1> QED
  BY <1>1, <1>2, <1>3

LEMMA CallTyped ==
  ASSUME TypeOK, calls # <<>>
  PROVE  Head(calls).print \in Nat /\ Head(calls).bucket \in Int
<1>1. calls \in Seq(Call)
  BY DEF TypeOK
<1>2. Head(calls) \in Call
  BY <1>1
<1> QED
  BY <1>2 DEF Call

LEMMA OneCallOnly ==
  ASSUME NEW S, NEW s \in Seq(S), s # <<>>, Len(s) <= 1
  PROVE  Len(s) = 1 /\ Tail(s) = <<>>
<1>1. Len(s) \in Nat \ {0}
  BY EmptySeq
<1>2. Len(s) = 1
  BY <1>1
<1>3. Tail(s) \in Seq(S) /\ Len(Tail(s)) = 0
  BY <1>2
<1> QED
  BY <1>2, <1>3, EmptySeq

LEMMA OrderInit == Init => OrderInv
  BY DEF Init, OrderInv, OneCheckPerBucket

\* A new print begins with nothing of its own; a report is the furthest so far.
LEMMA OctoPrintKeepsOrder ==
  ASSUME TypeOK, OrderInv, PrintStarts \/ PrintEnds \/ UserResumes \/ ReportProgress
  PROVE  OrderInv'
<1> USE DEF plugin, threads, octo
<1>1. \A c \in 1..checks : cause[c].print \in Nat /\ cause[c].bucket \in Int
  BY CausesTyped
<1>2. calls # <<>> => Head(calls).print \in Nat /\ Head(calls).bucket \in Int
  BY CallTyped
<1>3. print \in Nat /\ progress \in Nat
  BY DEF TypeOK
<1>4. CASE PrintStarts \/ PrintEnds \/ UserResumes
  <2>1. /\ UNCHANGED <<calls, checks, cause, lastBucket, epoch>>
        /\ \/ print' = print + 1
           \/ print' = print /\ printer' = "idle"
           \/ UNCHANGED <<print, progress>> /\ printer # "idle"
    BY <1>4 DEF PrintStarts, PrintEnds, UserResumes
  <2>2. \A c \in 1..checks : Reached(cause[c])'
    BY <1>1, <1>3, <2>1 DEF OrderInv, Reached
  <2>3. calls # <<>> => Reached(Head(calls))'
    BY <1>2, <1>3, <2>1 DEF OrderInv, Reached
  <2> QED
    BY <2>1, <2>2, <2>3 DEF OrderInv, OneCheckPerBucket, UpTo
<1>5. CASE ReportProgress
  <2>1. PICK p \in Percents :
          /\ p > progress /\ progress' = p
          /\ calls' = <<[print |-> print, bucket |-> Bucket(p)]>>
    BY <1>5 DEF ReportProgress
  <2>2. /\ printer = "printing"
        /\ UNCHANGED <<lastBucket, epoch, checks, cause, print, printer>>
    BY <1>5 DEF ReportProgress
  <2>3. p \in Nat /\ progress <= p
    BY <1>3, <2>1, MonitorConstants
  <2>4. Bucket(progress) \in Int /\ Bucket(p) \in Int /\ Bucket(progress) <= Bucket(p)
    BY <1>3, <2>3, BucketsRise
  <2>5. Len(calls') = 1 /\ Head(calls') = [print |-> print, bucket |-> Bucket(p)]
    BY <2>1
  <2>6. ASSUME NEW c \in 1..checks
        PROVE  Reached(cause[c])' /\ UpTo(cause[c], Head(calls'))
    <3>1. cause[c].print <= print /\ (cause[c].print = print => cause[c].bucket <= Bucket(progress))
      BY <2>2 DEF OrderInv, Reached
    <3>2. printer' = "printing" /\ cause' = cause /\ print' = print /\ progress' = p
      BY <2>1, <2>2
    <3>3. cause[c].print \in Nat /\ cause[c].bucket \in Int
      BY <1>1
    <3>4. cause[c].print = print => cause[c].bucket <= Bucket(p)
      BY <2>4, <3>1, <3>3
    <3>5. Bucket(progress)' = Bucket(p)
      BY <3>2 DEF Bucket
    <3>6. Reached(cause[c])'
      BY <3>1, <3>2, <3>4, <3>5 DEF Reached
    <3>7. UpTo(cause[c], [print |-> print, bucket |-> Bucket(p)])
      BY <1>3, <3>1, <3>3, <3>4 DEF UpTo
    <3> QED
      BY <2>5, <3>2, <3>6, <3>7 DEF UpTo
  <2>7. Reached(Head(calls))'
    BY <1>3, <2>1, <2>2, <2>4, <2>5 DEF Reached
  <2> QED
    BY <2>2, <2>5, <2>6, <2>7 DEF OrderInv, OneCheckPerBucket, UpTo
<1> QED
  BY <1>4, <1>5

\* A check is started for a bucket that lastBucket keeps apart from the newest one's.
LEMMA StartKeepsOrder ==
  ASSUME TypeOK, OrderInv, StartCheck
  PROVE  OrderInv'
<1> USE DEF StartCheck, octo
<1> DEFINE call == Head(calls)
           new  == checks + 1
<1>1. calls # <<>> /\ Len(calls) = 1 /\ Tail(calls) = <<>>
  <2>1. calls \in Seq(Call) /\ calls # <<>> /\ Len(calls) <= 1
    BY DEF TypeOK, OrderInv
  <2> QED
    BY <2>1, OneCallOnly
<1>2. /\ checks \in Nat /\ new \in Checks /\ epoch \in Nat
      /\ \A c \in 1..checks :
           /\ c \in Checks /\ cause[c].print \in Nat /\ cause[c].bucket \in Int
           /\ cause[c].reset \in Nat
      /\ call.print \in Nat /\ call.bucket \in Int
  <2>1. checks \in 0..MaxChecks /\ checks < MaxChecks /\ MaxChecks \in Nat /\ epoch \in Nat
    BY MonitorConstants DEF TypeOK
  <2>2. checks \in Nat /\ new \in Checks
    BY <2>1 DEF Checks
  <2> QED
    BY <1>1, <2>1, <2>2, CausesTyped, CallTyped
<1>3. /\ calls' = <<>> /\ checks' = new /\ lastBucket' = call.bucket
      /\ cause'[new] = [print |-> call.print, bucket |-> call.bucket, reset |-> epoch]
      /\ \A c \in 1..checks : cause'[c] = cause[c]
      /\ UNCHANGED <<print, printer, progress, epoch>>
  BY <1>1, <1>2 DEF TypeOK
<1>4. /\ Reached(call)
      /\ \A c \in 1..checks : Reached(cause[c]) /\ UpTo(cause[c], call) /\ cause[c].reset <= epoch
      /\ \A c, d \in 1..checks : c < d =>
           UpTo(cause[c], cause[d]) /\ cause[c].reset <= cause[d].reset
      /\ checks > 0 /\ cause[checks].reset = epoch => lastBucket = cause[checks].bucket
      /\ OneCheckPerBucket
  BY <1>1 DEF OrderInv
<1>5. call.bucket # lastBucket
  BY DEF SameBucket
<1>6. ASSUME NEW c \in 1..checks PROVE cause[c] # cause'[new]
  <2> SUFFICES ASSUME cause[c].print = call.print, cause[c].bucket = call.bucket,
                      cause[c].reset = epoch
               PROVE  FALSE
    BY <1>3
  <2>1. checks \in 1..checks /\ checks > 0
    BY <1>2
  <2>2. UpTo(cause[c], cause[checks]) /\ cause[c].reset <= cause[checks].reset
    <3>1. CASE c = checks
      BY <3>1, <1>2, <2>1 DEF UpTo
    <3>2. CASE c # checks
      BY <3>2, <1>2, <1>4, <2>1
    <3> QED
      BY <3>1, <3>2
  <2>3. UpTo(cause[checks], call) /\ cause[checks].reset <= epoch
    BY <1>4, <2>1
  <2>4. cause[checks].bucket = call.bucket /\ cause[checks].reset = epoch
    BY <1>2, <2>1, <2>2, <2>3 DEF UpTo
  <2> QED
    BY <1>4, <1>5, <2>1, <2>4
<1>7. \A c \in 1..new : c = new \/ c \in 1..checks
  BY <1>2
<1>8. \A c \in 1..new : Reached(cause[c])' /\ cause'[c].reset <= epoch'
  BY <1>2, <1>3, <1>4, <1>7 DEF Reached
<1>9. \A c, d \in 1..new : c < d =>
        UpTo(cause'[c], cause'[d]) /\ cause'[c].reset <= cause'[d].reset
  <2> SUFFICES ASSUME NEW c \in 1..new, NEW d \in 1..new, c < d
               PROVE  UpTo(cause'[c], cause'[d]) /\ cause'[c].reset <= cause'[d].reset
    OBVIOUS
  <2>1. c \in 1..checks
    BY <1>2
  <2>2. CASE d = new
    BY <1>3, <1>4, <2>1, <2>2 DEF UpTo
  <2>3. CASE d # new
    BY <1>3, <1>4, <1>7, <2>1, <2>3
  <2> QED
    BY <2>2, <2>3
<1>10. OneCheckPerBucket'
  <2> SUFFICES ASSUME NEW c \in 1..new, NEW d \in 1..new, cause'[c] = cause'[d]
               PROVE  c = d
    BY <1>3 DEF OneCheckPerBucket
  <2>1. CASE c # new /\ d # new
    BY <1>3, <1>4, <1>7, <2>1 DEF OneCheckPerBucket
  <2>2. CASE c = new /\ d # new
    BY <1>3, <1>6, <1>7, <2>2
  <2>3. CASE c # new /\ d = new
    BY <1>3, <1>6, <1>7, <2>3
  <2> QED
    BY <2>1, <2>2, <2>3
<1> QED
  BY <1>2, <1>3, <1>8, <1>9, <1>10 DEF OrderInv

LEMMA OrderNext == Inv /\ OrderInv /\ [Next]_vars => OrderInv'
<1> SUFFICES ASSUME Inv, OrderInv, [Next]_vars PROVE OrderInv'
  OBVIOUS
<1>1. TypeOK /\ EpochInv
  BY DEF Inv, MonitorInv
<1>2. CASE PrintStarts \/ PrintEnds \/ UserResumes \/ ReportProgress
  BY <1>1, <1>2, OctoPrintKeepsOrder
<1>3. CASE StartCheck
  BY <1>1, <1>3, StartKeepsOrder
<1>4. CASE SkipCheck
  <2>1. calls' = <<>>
    BY <1>1, <1>4 DEF SkipCheck, TypeOK, OrderInv
  <2>2. UNCHANGED <<lastBucket, epoch, checks, cause, print, printer, progress>>
    BY <1>4 DEF SkipCheck, plugin, octo
  <2> QED
    BY <2>1, <2>2 DEF OrderInv, Reached, OneCheckPerBucket
<1>5. CASE OnEvent
  <2>1. /\ UNCHANGED <<calls, checks, cause, print, printer, progress>>
        /\ epoch' = Len(log) + 1 /\ epoch \in Nat /\ Len(log) \in Nat /\ epoch <= Len(log)
    BY <1>1, <1>5 DEF OnEvent, Reset, threads, EpochInv, TypeOK
  <2>2. \A c \in 1..checks : cause[c].reset \in Nat /\ cause[c].reset <= epoch
    BY <1>1, CausesTyped DEF OrderInv
  <2>3. \A c \in 1..checks : cause[c].reset < epoch'
    BY <2>1, <2>2
  <2>4. checks > 0 => checks \in 1..checks
    BY <1>1 DEF TypeOK
  <2> QED
    BY <2>1, <2>2, <2>3, <2>4 DEF OrderInv, Reached, OneCheckPerBucket
<1>6. ASSUME NEW c \in Checks, CheckStep(c) PROVE OrderInv'
  <2>1. /\ UNCHANGED <<calls, checks, cause, lastBucket, epoch, print, progress>>
        /\ \/ printer' = printer
           \/ (printer = "printing" /\ printer' = "paused")
    BY <1>6 DEF CheckStep, ScanPasses, ScanFails, BelowThreshold, DecidePause, PausePrint,
                Record, plugin, octo
  <2> QED
    BY <2>1 DEF OrderInv, Reached, OneCheckPerBucket
<1>7. CASE UNCHANGED vars
  BY <1>7 DEF vars, plugin, threads, octo, OrderInv, Reached, OneCheckPerBucket
<1> QED
  BY <1>2, <1>3, <1>4, <1>5, <1>6, <1>7 DEF Next, PluginStep

\* Between two resets no bucket of a print is checked twice, however late reports,
\* events and checks are, for every interval.
THEOREM BucketsCheckedOnce == Spec => []OneCheckPerBucket
<1>1. OrderInv => OneCheckPerBucket
  BY DEF OrderInv
<1>2. Spec => []OrderInv
  BY OrderInit, OrderNext, Invariance, PTL DEF Spec
<1> QED
  BY <1>1, <1>2, PTL
=============================================================================
