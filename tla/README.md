# InfillCode in TLA+

InfillCode weaves a fingerprint into a 3D print: the gaps between the infill
lines of each layer spell `(file_id, layer_idx)`, so that a webcam can tell which
layer of which file is on the bed. A web tool (FastAPI) encodes uploaded G-code;
an OctoPrint plugin encodes uploads itself, checks the fingerprint during a print,
and identifies the last layer after one. This directory holds TLA+ modules of the
parts whose correctness is hard to test, the TLC configurations that check them,
and TLAPS proofs about them.

Every definition is translated from the source; `PROJECT.json` maps each to its
file and lines, lists hazards of the code with the properties that guard against
them and what these leave out, and names for each property a plausible bug of the code (a *mutant*, kept
beside the definition it stands for) that makes TLC report it violated.

## 1. Inventory

| Component | State | Operations | Hard behaviour | Where |
|---|---|---|---|---|
| Job store (`web/job_store.py`) | rows of `jobs.db`, artifact files, cached `Job` objects | create, get, update, cleanup_old_jobs | crashes between files and row; cache against row; clean-up in two transactions | `JobService` |
| Encoding worker (`web/worker.py`) | queue, executor, shutdown flag, the job being run | submit, loop, _run_job, start, shutdown | shares the cached object with handlers; shutdown against queue; exceptions inside `finally` | `JobService` |
| HTTP routes (`web/routes/`) | none of their own | encode, status, two downloads | state tested first, bytes read later | `JobService` |
| Web process (`web/main.py`) | process phase | start-up with clean-up, lifespan, exit | crash, restart, restart in the same process | `JobService` |
| Encode pipeline (`core/pipeline.py`) | an open transaction | run_pipeline | concurrent writers, id collisions, failures between inserts, work after the commit | `EncodePipeline` |
| Fingerprint database (`core/database.py`) | tables files, layers | inserts, totals, lookups | UNIQUE and foreign keys that refuse rows | `EncodePipeline`, `Codec` |
| Plugin: uploads (`octoprint_plugin/.../__init__.py`) | a thread per upload | _auto_process_aw_gcode | threads race for one database | `EncodePipeline` |
| Plugin: mid-print monitoring (same file) | last bucket, history, failure counter | on_print_progress, check threads, auto-pause, resets | threads that finish late and out of order | `FingerprintMonitor` |
| Codec (`core/encoder.py`, `core/decoder.py`) | none | encode_layer, full_decode | two variants, one check byte, wrap-around of the index | `Codec` |
| Plugin: post-print identification and resume (same file, `core/resume.py`) | none | _run_vision_pipeline, _build_resume_file | layer indexing of its own, modes to restore, an unknown nozzle position | `Resume` |
| G-code modifier (`core/gcode_modifier.py`) | none | modify_layer | clamping, too few lines for the pattern, the travel before a line | `InfillModifier` |
| Parser and infill detector | parser position, modes | parse, detect | three layer conventions; rows out of order | `Resume` (layer boundaries), `InfillModifier` (lines and gaps) |
| Web client (`web/static/app.js`) | one timer for all polls | upload, poll, reset | overlapping fetches, late answers, a stop between "done" and its row | `WebClient` |
| Plugin sidebar (`static/infillcode.js`) | a view | message handlers | values of one message read at different moments | not modelled |
| Vision (`vision.py`) | none | extract_spacings | pixel arrays | external: its answer is nondeterministic |
| Compatibility shim, packaging, templates | none | | | not modelled |

How they interact. A route handler creates a job in the store and puts the *same*
`Job` object on the queue; the worker thread mutates that object while handlers
read it, and calls `run_pipeline` on a private in-memory database. The plugin's
upload threads call the same `run_pipeline` on one database file shared by all of
them. `run_pipeline` asks the codec for each layer's spacing and hands it to the
modifier after its commit. The plugin's check threads (one per progress bucket)
and its post-print thread take a snapshot through vision, decode it with the codec
and look the layer up in that database file; OctoPrint's event and progress
callbacks reset and start them. The web page polls the job routes from an interval that
waits for no answer.

What makes each component correct is stated by the properties in section 3.

## 2. Modules

### `JobLifecycle`: what the job store promises
One variable, `status`: pending → running → done | failed; only finished jobs are
removed. Abstract on purpose: no cache, file, thread or process.

### `JobService`: the web tool
Three actors interleave: the event loop (one handler at a time, the `await`-free
part of each handler split where it reads shared state), the worker thread, and
whoever stops the process.

| Variables | Code |
|---|---|
| `row`, `files`, `old` | `jobs.state`, `<id>.gcode`/`<id>.sql`, `created_at` before the cut-off |
| `mem` | `JobStore._jobs`: state, and which results the object carries |
| `queue`, `wpc`, `current` | `_job_queue`, position in `_worker_thread`/`_run_job`, the job taken |
| `phase` | the process: down, cleaning, serving, draining, joining, stopped; `ExecutorShutdown` is the flag |
| `handler` | the request the event loop is in the middle of |

An update is three steps (gcode file, sql file, row) and may raise or be cut by a
crash between any two; it holds `_lock` throughout (`LockFree`). Clean-up unlinks
file by file, then deletes the rows. The row survives, `mem` and `queue` do not. A crash is the process's; a power loss,
which may also lose files that `write_bytes` (`job_store.py:169`) did not sync, is not modelled.
Bytes are abstracted to which of the two artifacts exist.

### `EncodePipeline`: registering files
Encoder threads run `run_pipeline`: `BeginImmediate` takes SQLite's write lock and a
working copy of the tables, `Register` probes for an id and inserts the file row,
`InsertLayer` adds a row per layer under the constraints of the schema, `Commit`
publishes, `Rollback` drops; `Modify` and `WriteOutput` come after the commit. A
thread that waits too long for the lock gives up; any thread may fail or die with
OctoPrint. Texts are model values with a home id (`file_id_from_content`) and the
layer indices the parser yields for them; each layer row carries, as history, the
text it was written for. Whether a layer is encoded or skipped is left out: either
way it gets one row.

### `FingerprintMonitor`: mid-print checks
Each critical section of `_state_lock` is one action: `StartCheck`/`SkipCheck`, `Reset`
(within `OnEvent`), `Record` (within `ScanPasses`/`ScanFails`), `AtThreshold`'s test;
`PausePrint` runs outside it. OctoPrint is external: prints start, end, pause and
resume; it queues events and reports progress from another thread, so a report, an
event or a check can arrive when its print is over. `log`, `epoch` and `cause` are
history variables: everything recorded, the last reset, and what started a check.

### `Codec`: fingerprints
Bit vectors of width `8 * H` (H = 4 in the code): `BuildPayload`, `AntiCorrelate`,
`PayloadToSpacings`, and `FullDecode` with its windows and both variants. `RSCodec(1)` of
`reedsolo` is external: with one check symbol over GF(256) its generator is `x - 1`, so
the symbol is the XOR of the data bytes; one symbol detects an error and corrects
none. Gaps are symbols; a gap outside the pattern is "plain" and reads as a 1, as
1.0 × nominal does. The state machine encodes layers, shows one to the camera with
unmodulated gaps on either side, misreads gaps, decodes, and looks the row up.

### `Resume`: taking up a failed print
A slicer (external) writes a file line by line: start lines, layers with the comments of one
of four conventions (`;LAYER:n`, `;Z:z`, both, none), on the way to a layer perhaps a detour in absolute or relative
coordinates, the layer's Z with its feed rate after or before it (`ZMoves`: the parser sees the former only,
`resume.py` both), hops within a layer, extruder resets. `Encode` runs `ParseGcode` over it and stores a row per layer; `Resume` takes the
row that was looked up after the failure and runs `BuildResumeGcode` on the same text:
`FindLayerStartLine` with its three strategies, `ZOfLayer`, `PreambleState`, `BuildInitSequence`. The printer's
firmware (external) is a fold over lines that keeps height, modes, extruder position and what was
printed where, so that a resumption is judged by what it prints and not by its text. It begins the resume file as the failed
print left it, after any of the file's lines (`Stopped`). A
line is a command and a number; temperatures, fans, tools, speeds, X and Y are left out. The
modifier keeps lines one for one, so the encoded file has the boundaries of the original.

The resume file can be resumed from in its turn (`ResumeAgain`): `PrintFailed` names the file that was
printed, and `_locate_gcode_file` prefers that name.

### `InfillModifier`: spelling a payload
A slicer (external) writes one layer of horizontal lines row by row (`WriteRow`): upwards or downwards, a spacing
or two from the row before or on its height, each line reached by a travel, a travel between a
retraction and its undoing, a travel and a bare `G1 F`, or an extruded joint. `DetectInfill` is `detect_infill`: `group` and `nominal` are
the `InfillGroup` it returns (`SortedLines`, `Nominal`). `SkipLayer` is `too_few_lines`, here or in `run_pipeline`. `EncodeLayer` is what
`run_pipeline` does with that group: `SpacingSequence` (`payload_to_spacings`) and `ModifyLayer`, whose fold over the
lines clamps, patches the line and the travel it finds before it. `ReplaceCoord` is `_replace_coord`: a command that has no Y gets one at its
end, without its line end (`ends`), and is then one command with the next, of whose two Y the printer takes the last (`MovesNozzle`). Python's sort, being stable, is stated by rank: the k-th line has k - 1
before it (`Before`); the median by counting (`Least`). The printed result is
judged by what a camera would see of it (`Spacings(output)`), not by its text. Lengths are integers (a line's spacing is 40, so that
three quarters, five quarters and the 5% margin are whole); `PayloadBits` stands for the 32. `Codec` says which bits are
written; this module says whether the plastic does.

### `WebClient`: the page over the service
EXTENDS `JobService` and composes it with one page. `view`, `shown` and `links` are what the page shows, `timer` is
`pollTimer` and `live` the intervals that run, whether `timer` knows them or not; `posts` and `polls` are the requests in flight. Uploads
and polls may be lost, and polls overtake each other. Of the service it takes the actions themselves: `Encode` is `Create`, `AcceptUpload` is
`Submit`, `AnswerPoll` is `Status`. The service stops, exits and starts again under it, but neither crashes nor has
failing updates (`jobs` is about those). `crossed` is history: the last upload began with another still under way.

`*Proofs` hold the theorems of section 4; `DataLemmas` holds what they need to know of naturals, sequences and folds, and nothing
about the program. `MC*` modules only give constants their values.

## 3. Runs

| Run | Instance | Shows |
|---|---|---|
| `jobs` | 2 jobs, 2 crashes, 1 failing update, 1 graceful stop | `DoneRowHasArtifacts`, `ArtifactHasRow`, `DownloadHasBody`, `CacheMatchesRow`, `StopCutsNoJob`, `QueuedOnce`; rows refine `JobLifecycle` (`DurableLifecycle`), and so does what clients are told up to the first crash or failing update (`ObservedLifecycle`); `AcceptedJobEnds`; `ShutdownReturns` |
| `jobs_stuck` | 1 crash | violated: `EveryJobEnds` |
| `web` | 2 uploads, 2 polls in flight, 1 graceful stop | `LinkAnswers`, `PageOfLastUpload`, `PageResolves` |
| `pipeline` | 2 threads, 5 texts, 3 ids, 4 runs, 1 crash | `RegisteredFilesComplete`, `FingerprintsUnique`, `ProbeChain`, `OutputsDecodable`, `RegistrationsStable`, `LockReleased` |
| `pipeline_reencode` | 2 runs | violated: `ReencodeAccepted` |
| `monitor` | window 2, threshold 2, 3 checks, 2 prints, 1 event pending | `CounterMatchesHistory`, `HistoryIsRecent`, `PauseEarned`, `OneCheckPerBucket`, `FailuresActedOn` |
| `monitor_latepause` | the same | violated: `PausedPrintWasChecked` |
| `codec` | 4-bit bytes, 3 files × 12 layers, 2 rows, 1 misread gap | `FingerprintsDistinct`, `CleanReadFound`, `MisreadNeverMisleads`, `AdjacentLayersFar` |
| `modifier` | 8 payload bits, up to 13 rows, 1 odd row | `SpellsPayload`, `OthersUnmoved` |
| `modifier_room` | 8 payload bits, up to 13 rows, no odd row | violated: `EncodedLayerReadable` |
| `resume` | files of up to 3 layers and 3 extra lines, detours, hops or feed-first moves, resumed after any layer, from wherever the print stopped | `NextLayerResumed`, `NeverLoweredIntoPrint`, `RestPrintedAsBefore` |
| `resume_again` | up to 3 layers, no extra lines | violated: `SecondResumeAsFirst` |

Each passing run also checks its module's `TypeOK` (`ClientTypeOK` for `web`, which says besides that no interval runs that
`pollTimer` has lost).

### Bounds, and why they are enough
* **jobs.** Two jobs are what ordering in the queue, a job behind a failing one, and a
  clean-up of one job while another is fresh need. Two crashes allow one in an update
  and one in the clean-up that follows. One fault and one stop in either order.
* **web.** Two polls in flight are what overtaking needs, two uploads what a late answer of
  an earlier one needs, one stop puts a restart between "done" and the link. The safety properties also
  hold with three uploads (11 million states, left out for its time), which are what it takes for an
  upload's late answer to reach a later one's page; the proofs cover any number of each.
* **pipeline.** Three ids and four registering texts fill the table and meet one more
  text than it holds; three texts share the last id, so the probe wraps and moves
  twice; one text repeats a layer index, one has no layers. Two threads are enough
  for every conflict of one write lock: a third could only wait.
* **monitor.** Window, threshold and the number of results overlap: with three
  checks the window rolls, the threshold is reached before, at and after it is full,
  and a check of the first print can outlive two resets. Percents 10 and 15 fall into
  one bucket. At most one event is undelivered at a time, and `on_print_progress` is one
  call at a time, in order. The proofs lift every one of these bounds for the safety
  properties they cover.
* **codec.** Two-bit half bytes keep the layout (fields of one and a half bytes that
  straddle the middle one, which carries and check depend on); the layers have carry
  chains that stop within a byte, at its end and beyond it, one index is past the field's
  width and wraps, and some files and layers are each other's under the mask (or under the
  wrong mask), so that only the parity test keeps them apart. 17 unmodulated gaps (`Margins`) are one more than a payload has bits,
  so that a false SYNC falls inside the pattern, beside it, and a payload's length away from the pattern's own; file 21's layer 21
  is what unmodulated gaps alone read as (1365 and 1365 in the code). The proof lifts the bound.
* **modifier.** Eight bits keep the pattern longer than the look-back of five lines and give it a first,
  a middle and a last gap of either kind; payloads with every number of ones at either end vary how much room
  a pattern takes and where the wide gaps are. Layers of 11 lines (`MinLines`) fill the pattern exactly,
  12 and 13 leave lines beyond it. One row that differs from the style in lead or spacing meets every neighbour. The
  proofs lift every one of these bounds.
* **resume.** Three layers give a first one, one between two others and a last one; a hop is
  higher than the next layer, so one hop already hides a layer from whoever counts rising
  heights. Three extra lines allow a mode set, changed and set back, or a mode with a hop on
  either side of a layer boundary. The extras also go into detours and into moves with their feed rate first. The look-ahead of 8 lines (20 in the code)
  reaches beyond a layer's first moves into its hops. The proofs lift every one of these bounds.

`CHECK_DEADLOCK FALSE` is given to `EncodePipeline`, `FingerprintMonitor`, `InfillModifier`, `Resume` and `WebClient`: when the
bound on uploads, or on prints and checks, is used up, when the layer is encoded, the print resumed, or the last upload's job
shown, the system stops. The job
service and the codec never stop and are checked for deadlock.

### Fairness
* `JobService`: weak fairness of handlers, worker and process steps (boot, clean-up,
  shutdown). Threads of one process are scheduled; the pipeline has no unbounded wait;
  `docker-compose.yml` has `restart: unless-stopped`. No fairness for crashes, faults,
  requests or stops.
* `EncodePipeline`: weak fairness per thread. A thread that holds the lock is never
  blocked; one that waits either gets it or gives up at sqlite3's busy timeout, so nothing
  more is assumed of the lock.
* `FingerprintMonitor`: weak fairness per check thread; the snapshot request has a timeout,
  so a scan ends. None for OctoPrint or the user.
* `WebClient`: the service's fairness, weak fairness of its answering polls (its event loop runs)
  and of the page's event loop (`PageLoop`: the interval fires, answers are handled). None for the user, for lost
  requests or for the upload's handler, so an interval that is never started is not claimed to end.
* `Codec`, `InfillModifier`, `Resume`: none; they have safety properties only.

### What the violations show
* `EveryJobEnds` (`web/worker.py:25`): the queue is in memory and start-up re-queues nothing.
  A job pending or running when the process ends keeps that state for ever, and its client
  polls for ever, although `job_store.py:4-6` promises persistence across restarts.
* `ReencodeAccepted` (`core/pipeline.py:139`): encoding the same text again swallows the file row's
  `IntegrityError` ("Same file re-encoded; just return existing") and then fails on the layer rows.
  In the persistent database of the plugin this refuses a second upload of a file, also when
  the first run failed after its commit and wrote no output.
* `PausedPrintWasChecked` (`__init__.py:259`): checks of one print outlive its reset, and can
  count towards, and pause, the next print before any check of its own.
* `SecondResumeAsFirst` (`__init__.py:574`): when a resumed print fails too, the event's path is the resume file, and that
  is what the next resumption is built from. In a file with layer numbers its preamble is taken to end at
  the first Z move, which is the initial sequence's lift: modes are lost, the lift's `G91` is replayed, and the rest is printed at
  other heights. `docs/octoprint.md:74` says the plugin "locates the original GCode file".
* `EncodedLayerReadable` (`core/gcode_modifier.py:103`): a payload with w ones takes 28 + w/2 line spacings, and 35 lines,
  the least a layer must have, span 34. With more ones the closing SYNC runs into the next unmoved line or
  is cut off by the clamp; the layer is stored as encoded all the same and reads as something else, although the
  module "rewrites infill line coordinates so that the inter-line spacing sequence encodes the InfillCode payload". `docs/how-it-works.md`'s remark
  on layers of 70 or more lines, in which the pattern is written twice, has no counterpart in the code.

The preconditions of `Resume`'s properties are cases in which the code does go wrong; but for the first, no document says
otherwise. `ModesCarried` (of `NeverLoweredIntoPrint` and `RestPrintedAsBefore`): the preamble's commands are
replayed in the order in which each first occurred (a dict keeps it) and the extruder mode restored after the prime is the first of
`M82` and `M83`, so that a preamble with `G90`, `G91`, `G90` is resumed in relative positioning, though `resume.py:112-113` promises the
final setting; also modes set after the first Z move of a file without
comments, where the preamble is taken to end. `ZMovesAgree` (of all three): without comments, `resume.py` counts a relative
hop by its own number, a first move to Z0 and a Z after a feed rate, the parser does not. `HeightTold` (of
`NeverLoweredIntoPrint`): a relative detour before a layer's Z tells `_z_of_layer` its distance, and the nozzle is lowered to that, be it into
the print; the layer's own Z raises it again before it prints. `ExtruderAgrees` (of `RestPrintedAsBefore`): `G92 E0` is right only
for relative extrusion or a reset at the layer; otherwise the first move pushes out all the filament used so
far. `RowOf(lastGood) < Len(rows)`: after the last layer the search falls through to Z moves and may find a hop,
so a complete print is resumed instead of refused. Also met: heating replayed from `M104`/`M140` only (`resume.py:162`), a
park position of 0 taken for unset (`__init__.py:508`), and `docs/octoprint.md`, which has the resume file registered with the
file manager where the code only writes it.

The preconditions of `InfillModifier`'s properties are of the same kind, `OwnLines` against the module's own words. `HasRoom`: the finding above. `OwnTravels`: a line
reached by an extruded joint has no travel to move, and the search may find another line's. `SeparateRows`: two
lines on one height, a row cut by a hole, get different targets. `OwnLines` (of `SpellsPayload`): a bare `G1 F` between a travel and its line is taken for the
travel, and as it has no Y, `_replace_coord` appends one after an `rstrip` that also takes the line end
(`gcode_modifier.py:46`). In the file that is written it runs on into the line (`G1 F1800 Y10.0000G1 X…`), the travel stays where it was, and the
line is printed aslant, whereas the module "preserves all other GCode verbatim" (`gcode_modifier.py:17`). A comment at the end of the patched
command would swallow the line altogether; comments are left out. `OthersUnmoved` holds for such layers too. The travel is moved to where the line was to be, not to
where the clamp left it: the test `'y0' in dir()` (`gcode_modifier.py:154`) is always false, as no variable has that name.

`MisreadNeverMisleads` needs `~PlainWindowFirst`: a false SYNC one payload to the left of the pattern's own encloses unmodulated
gaps only, which read as ones and pass RS and parity as file 1365, layer 1365; `decode_spacings` tries windows from the left and answers that. To the right of the
pattern such a window comes last and does no harm.

`PageOfLastUpload` needs `~crossed`. A late answer about an old job clears the new job's timer and shows the old links under the
new name (`app.js:81-100`). If it reports an error while the new upload's answer is outstanding, the user may go on to a third file,
and the second's late answer then starts its interval under the third's name. No document says otherwise.

`shutdown_worker` raises the flag that ends the worker's loop before it "wait[s] for queue to empty" (`worker.py:124`, `:131`), so with jobs
queued it waits out its timeout for nothing; `ShutdownReturns` holds because there is a timeout.

Divergences met on the way that no run is about: `docs/web-tool.md:160` and `docs/api/web.md:39` say jobs are
in memory only, whereas `job_store.py` persists them; `INFILLCODE_DATA_DIR` (`docker-compose.yml`) is read
nowhere, so `docs/deployment.md`'s "persist across restarts" depends on the default directory; `encoder.py:29`'s
"corrects up to 8-bit burst error" is detection only; the documents' "exactly 16 bits differ" between
neighbours is at least 16 (18 for layers 0 and 1).

## 4. Proofs

TLAPS proves these for every value of the constants that satisfies the modules' `ASSUME`s
(bounds are naturals, the null values lie outside the sets they extend, widths are positive).

**`JobServiceProofs`**: `TypeCorrect`, `DoneRowsHaveArtifacts`, `ArtifactsHaveRows`, `DownloadsHaveBodies`, `CacheMatchesRows`,
`StopsCutNoJob`, `JobsQueuedOnce`, and the refinements `RowsImplementLifecycle` (of the rows: every step maps to a step of
`JobLifecycle` or a stutter) and `AnswersImplementLifecycle` (of what clients are told, up to the first crash or failed update). None of the properties is inductive. The invariant `Inv` adds where the worker is in
`_run_job` and what object and row then say (`WorkerInv`), that a job is with at most one of request,
queue and worker (`QueueInv`), that an object that says done carries its results (`DataInv`), and what each stage
of the update has put on disk (`FilesInv`). A done row without its files is allowed only while
a clean-up that was interrupted is pending, which start-up finishes before it serves.

**`FingerprintMonitorProofs`**: `TypeCorrect`, `CounterMatches`, `HistoryRecent`, `PausesEarned`. The counter and the window
are both related to `log`: the counter is a run of failures at its end (`StreakInv`), the window its most recent part
(`HistoryIsRecent`). Each relation carries the other over a `Record`; a pause decision is then a fact about a prefix of
`log`, which only grows (`PausesStayEarned`). `BucketsCheckedOnce` has an invariant of its own (`OrderInv`): within a print
buckets never go down (`BucketsRise`) and prints follow each other, so calls and checks are in the order of print and bucket,
and `lastBucket` only has to tell the newest check from the next one.

**`EncodePipelineProofs`**: `TypeCorrect`, `RegistrationsComplete`, `FingerprintsStayUnique`, `ProbeChainsHold`, `OutputsStayDecodable`,
`RegistrationsStayStable`. The collision loop stops at the first candidate that is free or the text's own (`MovesStops`, from the
least-number principle `LeastNatural`, which comes from the well-foundedness of set inclusion), so as long as an id is free it ends at such
a candidate (`ProbeFinds`), and `ProbeChain` is what leads a later run to the same one (`ProbeFindsAgain`). The invariant
describes the open transaction by the committed tables, which nobody else changes while the lock is held (`TransactionInv`), and
by the thread's place in `run_pipeline` (`ThreadsInv`): a commit adds one file with all its layers, or nothing.

**`WebClientProofs`**: `ServiceUnderPage` (the composition: `ClientSpec => Spec` of the service, so that everything
`JobServiceProofs` shows holds behind the page), `ClientTypeCorrect`, `LinksAnswered`, `PageStaysOfLastUpload`. A job once said to be done
stays so (`DoneStays`): the worker is with another job, and when the process exits the row says it too, by the service's
invariant. `OwnInv` says that unless crossed an upload's POST, its interval with its polls, and its links follow each other
and all belong to the upload that is shown.

**`CodecProofs`**: `RoundTrip` (exactly the variant that was written passes the decoder's tests and gives back file and
layer), `SingleFlipDetected` (no single flipped bit passes in either variant), `FingerprintsStayDistinct` (the safety property
of the run). Everything turns on three lemmas about the mask: `MaskInvisibleToRS` (the mask is an RS word, so RS cannot
tell the variants apart), `MaskKeepsParity` (the mask leaves the lowest bit of the layer index alone) and
`MaskTwice`. The invariant `RowsInv` says every row is what `EncodedLayer` makes of some file and layer.

Of the whole scan: `CodecTypeCorrect`, `CleanReadsFound`, `MisreadsNeverMislead`. `PatternGaps` says where
the SYNCs and the bits of a pattern stand among the unmodulated gaps; `WindowOfPicture` that one wrong gap leaves full_decode
no window before the pattern's own, but for one of unmodulated gaps only (`PlainWindowFirst`), that the pattern's window then holds the written word or that
word with one bit flipped, and that a later window comes with the pattern's own unharmed. `DecodeOfPicture` follows from
`SingleFlipDetected` and `RoundTrip`: the answer is the layer shown or none. The invariant `ScanInv` carries it through the scan: what was measured is a picture of the layer
shown, what was decoded was decoded from it, and the rows found match it.

`AdjacentLayersStayFar` counts bits without an induction over the carry. Consecutive layers differ in parity, so one of their patterns is under the mask,
which flips every other bit; the payloads differ in the low bits of the index that the carry runs through and in the check bits that follow from them
(`CarryDifference`). Of a pair of neighbouring bits, one under the mask and one not, one is left different unless the payloads differ in exactly one of the two.
`DifferenceOfPairs` gives every pair a difference of its own: only a carry that stops in the second byte leaves a pair of the check with none, and
then the pair where the carry stops has two.

**`ResumeProofs`**: `ResumeTypeCorrect`, `SpecNextLayerResumed`, `SpecNeverLoweredIntoPrint`, `SpecRestPrintedAsBefore`, for any number of
layers, lifts, detours and hops, and a look-ahead of four lines or more (`ResumeConstants`; a comment, a reset and a `G91` may come before a layer's first Z, and the
code looks 20 lines ahead). The preconditions are the properties' own (section 3). The operators are folds over a text. A fold cannot be proved about by induction on an operator, so `DataLemmas` shows that it
has a *trace*, the sequence of its intermediate values (`FoldTrace`), with induction in the form of sets of numbers (`IntervalInduction`);
`RunSteps` and `ParseSteps` say with it what the firmware (`At`) and the parser (`ParsedAt`) are after each line. None of the properties is inductive, as they
are about a text that the slicer has long finished. The invariant `IInv` describes the text instead: which lines a style writes (`LinesOk`), what comes before
what (`ModesFirst`, `PreambleOk`, `LayersOk`), that where a layer begins a height is told at most three lines later, and if that
is a comment or an absolute move nothing is printed next above it (`Tells`), that an absolute Z move follows before anything is printed (`Settles`), and and how comments number layers (`Numbered`; `Doubled` is why a file with both comments is refused).
A text only grows, and what is true of a line stays true, but for `ZMovesAgree`, a condition on the whole text, so `BeginsOk` has it as its condition.

* `RowsRanked`: the parser's row n begins at the line that has n *marks* before it, a mark being whatever `resume.py` counts in that style. For files
  without comments this needs `PlainTracks`, that the parser's height is the highest Z move so far. `LayersFound` and `SpecNextLayerResumed` follow.
* `FirstPrinted`: what is printed next after the line where a layer begins is no higher than the height it tells. `RestBegins`
  says what any state of the firmware becomes by the initial sequence (`InitRestores`): absolute, in the original's extruder mode, the extruder at 0, and at the
  height that was told. With `RestingType` this is `SpecNeverLoweredIntoPrint`.
* `PreamblePicks`: the state extracted from the preamble is the list of each mode's first occurrence, in their order. From it `PositionReplayed` and
  `ExtruderReplayed` show that replaying carries the modes over, under `ModesCarried`.
* `RestAlike`: whatever state the firmware was restored to, it prints the lines that follow as the original did, though it begins at another height and with the
  extruder at another position. The heights meet at the layer's Z move; the positions agree or a reset comes before the first extrusion (`ExtruderAgrees`).

**`InfillModifierProofs`**: `ModifierTypeCorrect`, `SpecOthersUnmoved`, `SpecSpellsPayload`, for any number of payload bits, set of payloads, rows and
odd rows (`ModifierConstants` only says they are numbers and the payloads sets of bits); the line spacing is the instance's 40. None of the properties is
inductive: they are about what a single step computes of a text that many steps wrote. The invariant `IInv` describes that text (`Written`): every line
stands at a multiple of the spacing and has the move that reaches it right before it or with one command between, and when the rows go down there is height left for
the rows to come. It also says that group, spacing and output are what the code computes of it (`Detected`, `Modified`). The rest is about those computations.

* `SortedInOrder`, `LeastFound`: the sort and the median exist and are what they should be. `GroupShape`, `NominalWide`: the group is the text's
  lines by height, each once, and the spacing at least one of the slicer's, since distinct heights are a spacing or more apart.
* `TargetsSum`, `ModifyTrace`: the targets are the running sums of the sequence, and the fold has a trace whose steps are the turns of the loop (`TurnEffect`).
  `ModifyKeeps` (the commands come back in their order, only one without a Y may lose its line end, and what no turn reaches stays) and `ModifyPlaces` (what one turn alone reaches is as that turn left it) follow.
* `OwnTravelFound`, `OwnZone`, `EncodingApart`: without joints, the travel (or bare feed rate) that the search finds is in the line's own row, and two lines' rows do not meet, in whichever order the
  rows are printed. So `OtherLine` and `MovedLine` say what each line's text becomes; `OthersStay` is `OthersUnmoved`.
* `NewHeightsIncrease`: under `HasRoom` and `SeparateRows` the new heights increase from line to line, within the box, so nothing is clamped
  (`PrintedAtNewHeights`). An increasing list is its set in order (`IncreasingNth`): the gaps seen are the sequence that was asked for (`PrintedGaps`), which the decoder's thresholds
  read as SYNC, payload, SYNC from the first line on (`PayloadSpelled`).

**Only model-checked**: all liveness (`AcceptedJobEnds`, `ShutdownReturns`, `LockReleased`, `FailuresActedOn`, `PageResolves`), since
fairness and ENABLED are beyond the prover. Every safety property of the passing runs is proved.

## 5. Not modelled

* Vision, regular expressions and float geometry: pixel arrays, pattern syntax and rounding are out of TLC's reach. What they yield is
  an input (a scan that passes or fails; commands; integer lengths).
* Upload validation and the JSON bodies of the routes; markup, packaging and the import shim: no state.
* The plugin's messages and its sidebar. The counter, the score and the dots of one message are read in three critical sections, so
  a message may show three moments; nothing acts on it, and the next message replaces it.
* Temperatures, fans, tools, parking and speeds of a resumption; the parser's classification of moves and sums of filament; the
  decoder's estimate of the nominal spacing.
* Crashes under an open page (they would make `LinkAnswers` false, as `jobs` shows a job can be running again after one), and more than one page.

## 6. Plan

What is left, in order of importance:

1. The monitor's messages and the sidebar's view of them, in `FingerprintMonitor`: what a message may mix, and that the last one after
   the last check is consistent.
