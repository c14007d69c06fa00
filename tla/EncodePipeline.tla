--------------------------- MODULE EncodePipeline ---------------------------
(***************************************************************************)
(* Encoding files into the persistent fingerprint database: run_pipeline   *)
(* (core/pipeline.py) with the tables of core/database.py, run by the      *)
(* OctoPrint plugin's auto-process threads (one per uploaded .aw.gcode),   *)
(* which race for SQLite's write lock, give up when they wait too long,    *)
(* fail half-way, and die with the process.                                *)
(*                                                                         *)
(* A G-code text is one of Contents; its sha256 is its identity, Home its  *)
(* first candidate file id, and LayerSeq the layer indices the parser      *)
(* yields, in order (";LAYER:N" beside ";Z:" comments can repeat one).     *)
(***************************************************************************)
EXTENDS Integers, Sequences, FiniteSetsExt

CONSTANTS
  Contents,     \* distinct G-code texts
  NoContent,    \* the file_id is not in the files table
  Encoders,     \* auto-process threads
  NoOne,        \* nobody holds the write lock
  NumIds,       \* file ids; 2^12 in the code (FILE_ID_MASK + 1)
  Home,         \* Contents -> file_id_from_content
  LayerSeq,     \* Contents -> the layer_idx of each parsed layer
  MaxRuns,      \* bound on uploads
  MaxCrashes    \* bound on process crashes

Ids == 0..(NumIds - 1)

ASSUME PipelineConstants ==
  /\ NoContent \notin Contents
  /\ NoOne \notin Encoders
  /\ NumIds \in Nat \ {0}
  /\ Home \in [Contents -> Ids]
  /\ LayerSeq \in [Contents -> Seq(Nat)]
  /\ MaxRuns \in Nat
  /\ MaxCrashes \in Nat

VARIABLES
  (* Committed. *)
  files,        \* per file id: the content it stands for, and total_layers
  layers,       \* rows: id, idx, and (history) the content they were written for
  (* The open transaction. *)
  writer,       \* who holds the write lock (BEGIN IMMEDIATE)
  txFiles, txLayers,
  (* The auto-process threads. *)
  pc, text, fileId, next,
  outputs,      \* written .gcode files: content and the id woven into it
  runs, crashes

db     == <<files, layers>>
tx     == <<txFiles, txLayers>>
locals == <<pc, text, fileId, next>>
vars   == <<db, writer, tx, locals, outputs, runs, crashes>>

FileRow  == [of : Contents \cup {NoContent}, total : Nat]
LayerRow == [id : Ids, idx : Nat, of : Contents]

TypeOK ==
  /\ files \in [Ids -> FileRow] /\ txFiles \in [Ids -> FileRow]
  /\ layers \subseteq LayerRow /\ txLayers \subseteq LayerRow
  /\ writer \in Encoders \cup {NoOne}
  /\ pc \in [Encoders -> {"idle", "begin", "register", "layers", "modify", "write"}]
  /\ text \in [Encoders -> Contents \cup {NoContent}]
  /\ fileId \in [Encoders -> Ids]
  /\ next \in [Encoders -> Nat]
  /\ outputs \subseteq [of : Contents, id : Ids]
  /\ runs \in 0..MaxRuns /\ crashes \in 0..MaxCrashes

NoRow == [of |-> NoContent, total |-> 0]

Init ==
  /\ files = [i \in Ids |-> NoRow] /\ layers = {}
  /\ writer = NoOne
  /\ txFiles = [i \in Ids |-> NoRow] /\ txLayers = {}
  /\ pc = [p \in Encoders |-> "idle"]
  /\ text = [p \in Encoders |-> NoContent]
  /\ fileId = [p \in Encoders |-> 0]
  /\ next = [p \in Encoders |-> 1]
  /\ outputs = {}
  /\ runs = 0 /\ crashes = 0

Goto(p, from, to) == pc[p] = from /\ pc' = [pc EXCEPT ![p] = to]

\* The lock is released and the transaction's working copy is gone.
EndTransaction ==
  /\ writer' = NoOne
  /\ txFiles' = [i \in Ids |-> NoRow] /\ txLayers' = {}

\* The thread ends, and its locals with it.
Finish(p) ==
  /\ pc' = [pc EXCEPT ![p] = "idle"]
  /\ text' = [text EXCEPT ![p] = NoContent]
  /\ fileId' = [fileId EXCEPT ![p] = 0]
  /\ next' = [next EXCEPT ![p] = 1]

-----------------------------------------------------------------------------
(* Choosing the id.                                                         *)

\* The collision loop stops at the k-th id from home when it is free or holds
\* the same sha256; after FILE_ID_MASK moves it stops without looking.
Candidate(c, k) == (Home[c] + k) % NumIds

\* Mutant: the id is moved on before it is looked at.
MovesFromOne(table, c) ==
  LET stops == {k \in 1..(NumIds - 2) : table[Candidate(c, k)].of \in {NoContent, c}}
  IN  IF stops = {} THEN NumIds - 1 ELSE Min(stops)

Moves(table, c) ==
  LET stops == {k \in 0..(NumIds - 2) : table[Candidate(c, k)].of \in {NoContent, c}}
  IN  IF stops = {} THEN NumIds - 1 ELSE Min(stops)

\* Mutant: no collision loop.
ProbeHome(table, c) == Home[c]

Probe(table, c) == Candidate(c, Moves(table, c))

Registered(table, c) == \E i \in Ids : table[i].of = c

\* insert_file; the IntegrityError of a taken file_id or of a known sha256 is
\* swallowed.
InsertFile(table, i, c) ==
  IF table[i].of # NoContent \/ Registered(table, c) THEN table
  ELSE [table EXCEPT ![i] = [of |-> c, total |-> Len(LayerSeq[c])]]

-----------------------------------------------------------------------------
(* One auto-process thread.                                                 *)

\* EventManager's upload event starts a thread.
Upload(p, c) ==
  /\ runs < MaxRuns
  /\ Goto(p, "idle", "begin")
  /\ text' = [text EXCEPT ![p] = c]
  /\ runs' = runs + 1
  /\ UNCHANGED <<db, writer, tx, fileId, next, outputs, crashes>>

BeginImmediate(p) ==
  /\ writer = NoOne
  /\ Goto(p, "begin", "register")
  /\ writer' = p
  /\ txFiles' = files /\ txLayers' = layers
  /\ UNCHANGED <<db, text, fileId, next, outputs, runs, crashes>>

\* sqlite3's busy timeout: "database is locked".
GiveUp(p) ==
  /\ writer \notin {NoOne, p}
  /\ pc[p] = "begin"
  /\ Finish(p)
  /\ UNCHANGED <<db, writer, tx, outputs, runs, crashes>>

\* Mutant: the id from the content is kept for the layers, not the probed one.
RegisterHomeId(p) ==
  /\ Goto(p, "register", "layers")
  /\ fileId' = [fileId EXCEPT ![p] = Home[text[p]]]
  /\ txFiles' = InsertFile(txFiles, Probe(txFiles, text[p]), text[p])
  /\ UNCHANGED <<db, writer, txLayers, text, next, outputs, runs, crashes>>

\* Collision loop, parse, detect, insert_file.
Register(p) ==
  LET i == Probe(txFiles, text[p]) IN
  /\ Goto(p, "register", "layers")
  /\ fileId' = [fileId EXCEPT ![p] = i]
  /\ txFiles' = InsertFile(txFiles, i, text[p])
  /\ UNCHANGED <<db, writer, txLayers, text, next, outputs, runs, crashes>>

LayersLeft(p) == next[p] <= Len(LayerSeq[text[p]])

\* The row the next insert_layer adds.
NextLayer(p) == [id |-> fileId[p], idx |-> LayerSeq[text[p]][next[p]], of |-> text[p]]

\* Mutant: the schema without UNIQUE(file_id, layer_idx).
AcceptsDuplicates(row) == txFiles[row.id].of # NoContent

\* UNIQUE(file_id, layer_idx) and REFERENCES files(file_id).
Accepts(row) ==
  /\ txFiles[row.id].of # NoContent
  /\ \A r \in txLayers : <<r.id, r.idx>> # <<row.id, row.idx>>

\* Mutant: every row is committed as it is inserted.
InsertLayerAutocommit(p) ==
  /\ pc[p] = "layers" /\ LayersLeft(p)
  /\ Accepts(NextLayer(p))
  /\ txLayers' = txLayers \cup {NextLayer(p)}
  /\ layers' = txLayers'
  /\ next' = [next EXCEPT ![p] = @ + 1]
  /\ UNCHANGED <<files, writer, txFiles, pc, text, fileId, outputs, runs, crashes>>

InsertLayer(p) ==
  /\ pc[p] = "layers" /\ LayersLeft(p)
  /\ Accepts(NextLayer(p))
  /\ txLayers' = txLayers \cup {NextLayer(p)}
  /\ next' = [next EXCEPT ![p] = @ + 1]
  /\ UNCHANGED <<db, writer, txFiles, pc, text, fileId, outputs, runs, crashes>>

\* Mutant: the last index instead of the number of layers.
CommitLastIndex(p) ==
  /\ Goto(p, "layers", "modify")
  /\ ~LayersLeft(p)
  /\ files' = [txFiles EXCEPT ![fileId[p]] =
                 [of |-> @.of, total |-> Len(LayerSeq[text[p]]) - 1]]
  /\ layers' = txLayers
  /\ EndTransaction
  /\ UNCHANGED <<text, fileId, next, outputs, runs, crashes>>

\* update_file_totals, then commit.
Commit(p) ==
  /\ Goto(p, "layers", "modify")
  /\ ~LayersLeft(p)
  /\ files' = [txFiles EXCEPT ![fileId[p]] =
                 [of |-> @.of, total |-> Len(LayerSeq[text[p]])]]
  /\ layers' = txLayers
  /\ EndTransaction
  /\ UNCHANGED <<text, fileId, next, outputs, runs, crashes>>

\* Mutant: the exception is raised without a rollback.
RaiseOnly(p) ==
  /\ Finish(p)
  /\ UNCHANGED <<db, writer, tx, outputs, runs, crashes>>

\* except: rollback, raise; the plugin reports auto_process_error.
Rollback(p) ==
  /\ EndTransaction
  /\ Finish(p)
  /\ UNCHANGED <<db, outputs, runs, crashes>>

\* The parser or the detector raises.
ParseRaises(p) == pc[p] = "register" /\ Rollback(p)

\* The database refuses the next layer.
LayerRefused(p) ==
  /\ pc[p] = "layers" /\ LayersLeft(p)
  /\ ~Accepts(NextLayer(p))
  /\ Rollback(p)

\* apply_modifications, outside the transaction.
Modify(p) ==
  /\ Goto(p, "modify", "write")
  /\ UNCHANGED <<db, writer, tx, text, fileId, next, outputs, runs, crashes>>

\* The .gcode beside the .aw.gcode.
WriteOutput(p) ==
  /\ pc[p] = "write"
  /\ outputs' = outputs \cup {[of |-> text[p], id |-> fileId[p]]}
  /\ Finish(p)
  /\ UNCHANGED <<db, writer, tx, runs, crashes>>

\* apply_modifications or write_text raises: no output, the commit stays.
OutputFails(p) ==
  /\ pc[p] \in {"modify", "write"}
  /\ Finish(p)
  /\ UNCHANGED <<db, writer, tx, outputs, runs, crashes>>

EncoderStep(p) ==
  \/ BeginImmediate(p) \/ GiveUp(p) \/ Register(p) \/ ParseRaises(p)
  \/ InsertLayer(p) \/ LayerRefused(p) \/ Commit(p)
  \/ Modify(p) \/ WriteOutput(p) \/ OutputFails(p)

\* OctoPrint dies; the daemon threads with it, and SQLite drops the transaction.
Crash ==
  /\ crashes < MaxCrashes
  /\ \E p \in Encoders : pc[p] # "idle"
  /\ crashes' = crashes + 1
  /\ EndTransaction
  /\ pc' = [p \in Encoders |-> "idle"]
  /\ text' = [p \in Encoders |-> NoContent]
  /\ fileId' = [p \in Encoders |-> 0]
  /\ next' = [p \in Encoders |-> 1]
  /\ UNCHANGED <<db, outputs, runs>>

Next ==
  \/ \E p \in Encoders, c \in Contents : Upload(p, c)
  \/ \E p \in Encoders : EncoderStep(p)
  \/ Crash

Fairness == \A p \in Encoders : WF_vars(EncoderStep(p))

Spec == Init /\ [][Next]_vars
FairSpec == Spec /\ Fairness

-----------------------------------------------------------------------------
(* Properties.                                                              *)

FreeId(table) == \E i \in Ids : table[i].of = NoContent

LayersAt(i) == {r \in layers : r.id = i}

\* The transaction is all or nothing: while ids are free, a registered file has
\* a row for each of its layers, none of another file's, and its own total,
\* whoever failed, gave up or crashed in between (pipeline.py:60).
RegisteredFilesComplete ==
  FreeId(files) =>
    \A i \in Ids :
      /\ files[i].of # NoContent => files[i].total = Len(LayerSeq[files[i].of])
      /\ LayersAt(i) =
           IF files[i].of = NoContent THEN {}
           ELSE {[id |-> i, idx |-> LayerSeq[files[i].of][n], of |-> files[i].of] :
                   n \in DOMAIN LayerSeq[files[i].of]}

\* A content is registered under at most one id, and a (file_id, layer_idx) pair
\* names at most one layer: a decoded fingerprint has one meaning.
FingerprintsUnique ==
  /\ \A i, k \in Ids : files[i].of = files[k].of /\ files[i].of # NoContent => i = k
  /\ \A r, s \in layers : <<r.id, r.idx>> = <<s.id, s.idx>> => r = s

\* Every id between a file's home and the id it was given is taken, which is what
\* lets a later run find it again instead of registering it twice.
ProbeChain ==
  \A i \in Ids : files[i].of # NoContent =>
    \A k \in 0..(NumIds - 1) :
      (\A m \in 0..k : Candidate(files[i].of, m) # i)
        => files[Candidate(files[i].of, k)].of # NoContent

\* A run that writes G-code has woven in an id that is registered for exactly
\* that content, as long as ids were free.
OutputsDecodable ==
  FreeId(files) => \A o \in outputs : files[o.id].of = o.of

\* What is registered stays: no later run, of the same text or of another that
\* collides with it, changes its row or its layers.
RegistrationsStable ==
  [][FreeId(files') =>
       \A i \in Ids : files[i].of # NoContent =>
         files'[i] = files[i] /\ LayersAt(i)' = LayersAt(i)]_vars

\* Nobody keeps the write lock: every transaction ends in a commit or a rollback.
LockReleased == \A p \in Encoders : writer = p ~> writer # p

\* pipeline.py:85, "Same file re-encoded; just return existing", and
\* tests/test_integration.py:164, test_same_gcode_twice_returns_same_file_id:
\* running the pipeline again on a registered file does not fail.  It does: the
\* layer inserts meet the rows of the first run.
ReencodeAccepted ==
  \A p \in Encoders :
    pc[p] = "layers" /\ LayersLeft(p) /\ Registered(files, text[p])
      => Accepts(NextLayer(p))
=============================================================================
