------------------------- MODULE EncodePipelineProofs -------------------------
(***************************************************************************)
(* Proofs about EncodePipeline, for any texts, threads, number of ids,     *)
(* homes and layers.                                                       *)
(*                                                                         *)
(* The collision loop stops at the first candidate that is free or holds   *)
(* the same text, and ProbeChain is exactly what makes a registered text   *)
(* be found there again.  What the open transaction holds is described by  *)
(* the committed tables, which nobody else changes while the lock is held; *)
(* so a commit adds one file with all its layers, or nothing at all.       *)
(***************************************************************************)
EXTENDS EncodePipeline, FiniteSetTheorems, TLAPS

-----------------------------------------------------------------------------
(* Naturals.                                                                *)

\* The least-number principle, from the well-foundedness of set inclusion.
LEMMA LeastNatural ==
  ASSUME NEW S \in SUBSET Nat, S # {}
  PROVE  \E m \in S : \A n \in S : m <= n
<1> DEFINE T == {0..n : n \in S}
           O == StrictSubsetOrdering(Nat)
<1>1. T \subseteq FiniteSubsetsOf(Nat)
  <2> SUFFICES ASSUME NEW n \in S PROVE 0..n \in FiniteSubsetsOf(Nat)
    OBVIOUS
  <2> QED
    BY FS_Interval DEF FiniteSubsetsOf
<1>2. T # {}
  OBVIOUS
<1>3. IsWellFoundedOn(O, FiniteSubsetsOf(Nat))
  BY FS_StrictSubsetOrderingWellFounded
<1>4. PICK s \in T : \A t \in T : ~(<<t, s>> \in O)
  <2> HIDE DEF T, O
  <2> QED
    BY <1>1, <1>2, <1>3, WFMin
<1>5. PICK m \in S : s = 0..m
  OBVIOUS
<1>6. ASSUME NEW n \in S, n < m PROVE FALSE
  <2>1. 0..n \in SUBSET Nat /\ 0..m \in SUBSET Nat /\ 0..n \subseteq 0..m
    BY <1>6
  <2>2. m \in 0..m /\ m \notin 0..n
    BY <1>6
  <2>3. <<0..n, 0..m>> \in O
    BY <2>1, <2>2 DEF StrictSubsetOrdering
  <2> QED
    BY <1>4, <1>5, <2>3
<1> QED
  BY <1>6

LEMMA MinIsLeast ==
  ASSUME NEW S \in SUBSET Nat, S # {}
  PROVE  Min(S) \in S /\ \A n \in S : Min(S) <= n
  BY LeastNatural DEF Min

-----------------------------------------------------------------------------
(* The collision loop.                                                      *)

\* A candidate is an id, and every id is a candidate.
LEMMA CandidatesAreIds ==
  ASSUME NEW c \in Contents
  PROVE  /\ \A k \in Nat : Candidate(c, k) \in Ids
         /\ \A i \in Ids : \E k \in 0..(NumIds - 1) : Candidate(c, k) = i
<1>1. NumIds \in Nat \ {0} /\ Home[c] \in 0..(NumIds - 1)
  BY PipelineConstants DEF Ids
<1>2. ASSUME NEW k \in Nat PROVE Candidate(c, k) \in Ids
  BY <1>1 DEF Candidate, Ids
<1>3. ASSUME NEW i \in Ids
      PROVE  \E k \in 0..(NumIds - 1) : Candidate(c, k) = i
  <2>1. i \in 0..(NumIds - 1)
    BY DEF Ids
  <2>2. CASE i >= Home[c]
    <3>1. i - Home[c] \in 0..(NumIds - 1) /\ Home[c] + (i - Home[c]) = i
      BY <1>1, <2>1, <2>2
    <3>2. i % NumIds = i
      BY <1>1, <2>1
    <3> QED
      BY <3>1, <3>2 DEF Candidate
  <2>3. CASE i < Home[c]
    <3>1. i - Home[c] + NumIds \in 0..(NumIds - 1)
          /\ Home[c] + (i - Home[c] + NumIds) = i + NumIds
      BY <1>1, <2>1, <2>3
    <3>2. (i + NumIds) % NumIds = i
      BY <1>1, <2>1
    <3> QED
      BY <3>1, <3>2 DEF Candidate
  <2> QED
    BY <1>1, <2>1, <2>2, <2>3
<1> QED
  BY <1>2, <1>3

\* Where the loop stops: at the first candidate that is free or holds the text, or
\* at the last candidate.
LEMMA MovesStops ==
  ASSUME NEW table \in [Ids -> FileRow], NEW c \in Contents
  PROVE  /\ Moves(table, c) \in 0..(NumIds - 1)
         /\ \A k \in 0..(NumIds - 1) :
              k < Moves(table, c) => table[Candidate(c, k)].of \notin {NoContent, c}
         /\ Moves(table, c) # NumIds - 1 =>
              table[Probe(table, c)].of \in {NoContent, c}
<1> DEFINE stops == {k \in 0..(NumIds - 2) : table[Candidate(c, k)].of \in {NoContent, c}}
<1>1. Moves(table, c) = IF stops = {} THEN NumIds - 1 ELSE Min(stops)
  BY DEF Moves
<1>2. NumIds \in Nat \ {0} /\ stops \in SUBSET Nat
  BY PipelineConstants
<1>3. CASE stops = {}
  BY <1>1, <1>2, <1>3
<1>4. CASE stops # {}
  <2>1. Min(stops) \in stops /\ \A n \in stops : Min(stops) <= n
    <3> HIDE DEF stops
    <3> QED
      BY <1>2, <1>4, MinIsLeast
  <2>2. Moves(table, c) = Min(stops)
    BY <1>1, <1>4
  <2>3. /\ Min(stops) \in 0..(NumIds - 2)
        /\ table[Candidate(c, Min(stops))].of \in {NoContent, c}
    BY <2>1
  <2>4. ASSUME NEW k \in 0..(NumIds - 1), k < Min(stops)
        PROVE  table[Candidate(c, k)].of \notin {NoContent, c}
    <3>1. k \in 0..(NumIds - 2) /\ k \notin stops
      <4> HIDE DEF stops
      <4> QED
        BY <1>2, <2>1, <2>3, <2>4
    <3> QED
      BY <3>1
  <2> QED
    BY <1>2, <2>2, <2>3, <2>4 DEF Probe
<1> QED
  BY <1>3, <1>4

LEMMA ProbeIsId ==
  ASSUME NEW table \in [Ids -> FileRow], NEW c \in Contents
  PROVE  Probe(table, c) \in Ids
  BY MovesStops, CandidatesAreIds DEF Probe

\* As long as an id is free, the loop ends at a free id or at the text's own.
LEMMA ProbeFinds ==
  ASSUME NEW table \in [Ids -> FileRow], NEW c \in Contents, FreeId(table)
  PROVE  table[Probe(table, c)].of \in {NoContent, c}
<1>1. PICK i \in Ids : table[i].of = NoContent
  BY DEF FreeId
<1>2. PICK k \in 0..(NumIds - 1) : Candidate(c, k) = i
  BY CandidatesAreIds
<1>3. ~(k < Moves(table, c))
  BY <1>1, <1>2, MovesStops
<1>4. Moves(table, c) \in 0..(NumIds - 1) /\ NumIds \in Nat
  BY MovesStops, PipelineConstants
<1>5. CASE Moves(table, c) = NumIds - 1
  BY <1>1, <1>2, <1>3, <1>4, <1>5 DEF Probe
<1> QED
  BY <1>5, MovesStops

\* The tables, committed or not.
Unique(table) ==
  \A i, k \in Ids : table[i].of = table[k].of /\ table[i].of # NoContent => i = k

Chain(table) ==
  \A i \in Ids : table[i].of # NoContent =>
    \A k \in 0..(NumIds - 1) :
      (\A m \in 0..k : Candidate(table[i].of, m) # i)
        => table[Candidate(table[i].of, k)].of # NoContent

\* A registered text is found again.
LEMMA ProbeFindsAgain ==
  ASSUME NEW table \in [Ids -> FileRow], NEW c \in Contents,
         FreeId(table), Chain(table), Registered(table, c)
  PROVE  table[Probe(table, c)].of = c
<1>1. PICK i \in Ids : table[i].of = c
  BY DEF Registered
<1>2. c # NoContent
  BY PipelineConstants
<1> DEFINE n == Moves(table, c)
<1>3. /\ n \in 0..(NumIds - 1)
      /\ \A k \in 0..(NumIds - 1) :
           k < n => table[Candidate(c, k)].of \notin {NoContent, c}
  BY MovesStops
<1>4. table[Candidate(c, n)].of \in {NoContent, c}
  BY ProbeFinds DEF Probe
<1>5. SUFFICES ASSUME table[Candidate(c, n)].of = NoContent PROVE FALSE
  BY <1>4 DEF Probe
<1>6. ~ \A m \in 0..n : Candidate(c, m) # i
  BY <1>1, <1>2, <1>3, <1>5 DEF Chain
<1>7. PICK m \in 0..n : Candidate(c, m) = i
  BY <1>6
<1>8. m \in 0..(NumIds - 1) /\ NumIds \in Nat
  BY <1>3, PipelineConstants
<1>9. ~(m < n)
  BY <1>1, <1>3, <1>7, <1>8
<1>10. m = n
  BY <1>3, <1>7, <1>9
<1> QED
  BY <1>1, <1>2, <1>5, <1>7, <1>10

\* What insert_file does to the table it is given the probed id for.
LEMMA InsertFileKeeps ==
  ASSUME NEW table \in [Ids -> FileRow], NEW c \in Contents,
         Unique(table), Chain(table)
  PROVE  LET i == Probe(table, c)
             new == InsertFile(table, i, c)
         IN  /\ new \in [Ids -> FileRow] /\ Unique(new) /\ Chain(new)
             /\ \A k \in Ids : table[k].of # NoContent \/ k # i => new[k] = table[k]
             /\ FreeId(table) => new[i].of = c
             /\ FreeId(table) /\ table[i].of = NoContent =>
                  new[i].total = Len(LayerSeq[c])
<1> DEFINE i == Probe(table, c)
           new == InsertFile(table, i, c)
<1>1. i \in Ids /\ c # NoContent /\ Len(LayerSeq[c]) \in Nat
  <2>1. i \in Ids
    BY ProbeIsId
  <2>2. c # NoContent
    BY PipelineConstants
  <2>3. LayerSeq[c] \in Seq(Nat)
    BY PipelineConstants
  <2> QED
    BY <2>1, <2>2, <2>3
<1>2. CASE table[i].of # NoContent \/ Registered(table, c)
  <2>1. new = table
    BY <1>2 DEF InsertFile
  <2>2. FreeId(table) => table[i].of = c
    <3>1. CASE Registered(table, c)
      BY <3>1, ProbeFindsAgain
    <3>2. CASE table[i].of # NoContent
      BY <3>2, ProbeFinds
    <3> QED
      BY <1>2, <3>1, <3>2
  <2> QED
    BY <1>1, <2>1, <2>2
<1>3. CASE table[i].of = NoContent /\ ~Registered(table, c)
  <2>1. new = [table EXCEPT ![i] = [of |-> c, total |-> Len(LayerSeq[c])]]
    BY <1>3 DEF InsertFile
  <2>2. new \in [Ids -> FileRow]
    BY <1>1, <2>1 DEF FileRow
  <2>3. /\ new[i].of = c /\ new[i].total = Len(LayerSeq[c])
        /\ \A k \in Ids : k # i => new[k] = table[k]
    BY <1>1, <2>1
  <2>4. Unique(new)
    BY <1>1, <1>3, <2>3 DEF Unique, Registered
  <2>5. Chain(new)
    <3> SUFFICES ASSUME NEW j \in Ids, new[j].of # NoContent,
                        NEW k \in 0..(NumIds - 1),
                        \A m \in 0..k : Candidate(new[j].of, m) # j
                 PROVE  new[Candidate(new[j].of, k)].of # NoContent
      BY DEF Chain
    <3>1. new[j].of \in Contents
      BY <2>2 DEF FileRow
    <3>2. Candidate(new[j].of, k) \in Ids
      BY <3>1, CandidatesAreIds
    <3>3. CASE j = i
      <4>1. new[j].of = c
        BY <3>3, <2>3
      <4>2. Moves(table, c) \in 0..(NumIds - 1) /\ Candidate(c, Moves(table, c)) = i
        BY MovesStops DEF Probe
      <4>3. Moves(table, c) \notin 0..k
        BY <3>3, <4>1, <4>2
      <4>4. k < Moves(table, c)
        BY <4>2, <4>3
      <4>5. table[Candidate(c, k)].of # NoContent
        BY <4>4, MovesStops
      <4> QED
        BY <1>3, <2>3, <3>2, <4>1, <4>5
    <3>4. CASE j # i
      <4>1. new[j] = table[j]
        BY <3>4, <2>3
      <4>2. table[Candidate(table[j].of, k)].of # NoContent
        BY <4>1 DEF Chain
      <4> QED
        BY <1>1, <2>3, <3>2, <4>1, <4>2
    <3> QED
      BY <3>3, <3>4
  <2> QED
    BY <1>3, <2>2, <2>3, <2>4, <2>5
<1> QED
  BY <1>2, <1>3

-----------------------------------------------------------------------------
(* The inductive invariant.                                                 *)

\* UNIQUE(file_id, layer_idx)
RowsUnique(rows) ==
  \A r, s \in rows : <<r.id, r.idx>> = <<s.id, s.idx>> => r = s

\* What a thread has, where it is in run_pipeline, and that the lock is held from
\* BEGIN to the end of the transaction, by the one thread that is inside.
ThreadsInv ==
  \A p \in Encoders :
    /\ pc[p] # "idle" => text[p] \in Contents
    /\ next[p] # 0
    /\ pc[p] \in {"idle", "begin", "register"} => next[p] = 1
    /\ pc[p] = "layers" => next[p] <= Len(LayerSeq[text[p]]) + 1
    /\ pc[p] \in {"register", "layers"} <=> writer = p

\* The rows a thread has inserted so far.
RowsOf(p) ==
  {[id |-> fileId[p], idx |-> LayerSeq[text[p]][n], of |-> text[p]] : n \in 1..(next[p] - 1)}

\* The working copy is the committed tables and what the writer has added to them.
\* A text that was registered before gets no further than its first layer.
TransactionInv ==
  \A p \in Encoders :
    /\ pc[p] = "register" => txFiles = files /\ txLayers = layers
    /\ pc[p] = "layers" =>
         /\ fileId[p] = Probe(files, text[p])
         /\ txFiles = InsertFile(files, fileId[p], text[p])
         /\ txLayers = layers \cup RowsOf(p)
         /\ RowsUnique(txLayers)
         /\ FreeId(files) /\ files[fileId[p]].of = text[p] => next[p] = 1

\* A thread that has committed has the id its text is registered under.
CommittedInv ==
  \A p \in Encoders :
    pc[p] \in {"modify", "write"} /\ FreeId(files) => files[fileId[p]].of = text[p]

TablesInv == Unique(files) /\ Chain(files) /\ RowsUnique(layers) /\ RegisteredFilesComplete

Inv ==
  /\ TypeOK /\ ThreadsInv /\ TransactionInv
  /\ CommittedInv /\ OutputsDecodable /\ TablesInv

\* The layer a thread inserts next is a row.
LEMMA NextLayerIsRow ==
  ASSUME Inv, NEW p \in Encoders, pc[p] = "layers", LayersLeft(p)
  PROVE  /\ NextLayer(p) \in LayerRow
         /\ next[p] \in DOMAIN LayerSeq[text[p]]
<1>1. text[p] \in Contents /\ next[p] \in Nat /\ next[p] # 0 /\ fileId[p] \in Ids
  BY DEF Inv, TypeOK, ThreadsInv
<1>2. LayerSeq[text[p]] \in Seq(Nat)
  BY <1>1, PipelineConstants
<1>3. next[p] \in 1..Len(LayerSeq[text[p]])
  BY <1>1, <1>2 DEF LayersLeft
<1>4. LayerSeq[text[p]][next[p]] \in Nat
  BY <1>2, <1>3
<1> QED
  BY <1>1, <1>2, <1>3, <1>4 DEF NextLayer, LayerRow

LEMMA InvInit == Init => Inv
<1> SUFFICES ASSUME Init PROVE Inv
  OBVIOUS
<1> USE PipelineConstants DEF Init
<1>1. 0 \in Ids /\ NoRow \in FileRow
  BY DEF Ids, NoRow, FileRow
<1>2. TypeOK
  BY <1>1 DEF TypeOK
<1>3. ThreadsInv /\ TransactionInv /\ CommittedInv /\ OutputsDecodable
  BY DEF ThreadsInv, TransactionInv, CommittedInv, OutputsDecodable
<1>4. \A i \in Ids : files[i].of = NoContent
  BY DEF NoRow
<1>5. TablesInv
  BY <1>4 DEF TablesInv, Unique, Chain, RowsUnique, RegisteredFilesComplete, LayersAt
<1> QED
  BY <1>2, <1>3, <1>5 DEF Inv

\* Whoever leaves the tables alone keeps what is said of them.
LEMMA TablesUntouched ==
  ASSUME Inv, UNCHANGED <<files, layers>>
  PROVE  TablesInv' /\ (outputs' = outputs => OutputsDecodable')
<1>1. Unique(files)' /\ Chain(files)' /\ RowsUnique(layers)'
  BY DEF Inv, TablesInv, Unique, Chain, RowsUnique
<1>2. RegisteredFilesComplete'
  BY DEF Inv, TablesInv, RegisteredFilesComplete, FreeId, LayersAt
<1>3. outputs' = outputs => OutputsDecodable'
  BY DEF Inv, OutputsDecodable, FreeId
<1> QED
  BY <1>1, <1>2, <1>3 DEF TablesInv

\* Steps outside the transaction touch neither the tables nor the lock.
LEMMA OutsideKeepsInv ==
  ASSUME Inv, NEW p \in Encoders,
         \/ \E c \in Contents : Upload(p, c)
         \/ GiveUp(p) \/ Modify(p) \/ WriteOutput(p) \/ OutputFails(p)
  PROVE  Inv'
<1> USE DEF db, tx, Goto, Finish
<1>1. UNCHANGED <<files, layers, writer, txFiles, txLayers>>
  BY DEF Upload, GiveUp, Modify, WriteOutput, OutputFails
<1>2. 0 \in Ids
  BY PipelineConstants DEF Ids
<1>3. TypeOK'
  <2>1. ASSUME NEW c \in Contents, Upload(p, c) PROVE TypeOK'
    BY <1>1, <2>1, PipelineConstants DEF Upload, Inv, TypeOK
  <2>2. CASE GiveUp(p)
    BY <1>1, <1>2, <2>2 DEF GiveUp, Inv, TypeOK
  <2>3. CASE Modify(p)
    BY <1>1, <2>3 DEF Modify, Inv, TypeOK
  <2>4. CASE WriteOutput(p)
    <3>1. [of |-> text[p], id |-> fileId[p]] \in [of : Contents, id : Ids]
      BY <2>4 DEF WriteOutput, Inv, TypeOK, ThreadsInv
    <3> QED
      BY <1>1, <1>2, <2>4, <3>1 DEF WriteOutput, Inv, TypeOK
  <2>5. CASE OutputFails(p)
    BY <1>1, <1>2, <2>5 DEF OutputFails, Inv, TypeOK
  <2> QED
    BY <2>1, <2>2, <2>3, <2>4, <2>5
<1>4. /\ pc[p] \notin {"register", "layers"} /\ pc'[p] \notin {"register", "layers"}
      /\ pc'[p] \in {"modify", "write"} =>
           /\ pc[p] \in {"modify", "write"}
           /\ text'[p] = text[p] /\ fileId'[p] = fileId[p]
      /\ pc'[p] # "idle" => text'[p] \in Contents
      /\ next'[p] # 0 /\ (pc'[p] \in {"idle", "begin"} => next'[p] = 1)
      /\ \A q \in Encoders \ {p} :
           /\ pc'[q] = pc[q] /\ text'[q] = text[q]
           /\ fileId'[q] = fileId[q] /\ next'[q] = next[q]
  BY DEF Upload, GiveUp, Modify, WriteOutput, OutputFails, Inv, TypeOK, ThreadsInv
<1>5. ThreadsInv'
  BY <1>1, <1>4 DEF Inv, ThreadsInv
<1>6. TransactionInv'
  <2> SUFFICES ASSUME NEW q \in Encoders, pc'[q] \in {"register", "layers"}
               PROVE  /\ pc'[q] = pc[q] /\ text'[q] = text[q]
                      /\ fileId'[q] = fileId[q] /\ next'[q] = next[q]
    BY <1>1 DEF Inv, TransactionInv, RowsOf, FreeId
  <2> QED
    BY <1>4
<1>7. CommittedInv'
  BY <1>1, <1>4 DEF Inv, CommittedInv, FreeId
<1>8. OutputsDecodable'
  <2>1. CASE outputs' = outputs
    BY <1>1, <2>1 DEF Inv, OutputsDecodable, FreeId
  <2>2. CASE WriteOutput(p)
    BY <1>1, <2>2 DEF WriteOutput, Inv, OutputsDecodable, CommittedInv, FreeId
  <2> QED
    BY <2>1, <2>2 DEF Upload, GiveUp, Modify, OutputFails
<1>9. TablesInv'
  BY <1>1, TablesUntouched
<1> QED
  BY <1>3, <1>5, <1>6, <1>7, <1>8, <1>9 DEF Inv

\* The transaction begins with a copy of what is committed.
LEMMA BeginKeepsInv ==
  ASSUME Inv, NEW p \in Encoders, BeginImmediate(p)
  PROVE  Inv'
<1> USE DEF BeginImmediate, db, Goto
<1>1. TypeOK'
  BY DEF Inv, TypeOK
<1>2. /\ pc[p] = "begin" /\ pc'[p] = "register" /\ writer = NoOne /\ writer' = p
      /\ \A q \in Encoders \ {p} : pc'[q] = pc[q]
      /\ UNCHANGED <<files, layers, text, fileId, next, outputs>>
  BY DEF Inv, TypeOK
<1>3. \A q \in Encoders : pc[q] \notin {"register", "layers"}
  BY PipelineConstants DEF Inv, ThreadsInv
<1>4. ThreadsInv'
  BY <1>2, <1>3 DEF Inv, ThreadsInv
<1>5. TransactionInv'
  BY <1>2, <1>3 DEF TransactionInv
<1>6. CommittedInv'
  BY <1>2 DEF Inv, CommittedInv, FreeId
<1>7. OutputsDecodable' /\ TablesInv'
  BY <1>2, TablesUntouched
<1> QED
  BY <1>1, <1>4, <1>5, <1>6, <1>7 DEF Inv

\* The probed id and the file's row.
LEMMA RegisterKeepsInv ==
  ASSUME Inv, NEW p \in Encoders, Register(p)
  PROVE  Inv'
<1> USE DEF Register, db, Goto
<1>1. /\ pc[p] = "register" /\ text[p] \in Contents /\ next[p] = 1
      /\ files \in [Ids -> FileRow] /\ txFiles = files /\ txLayers = layers
      /\ Unique(files) /\ Chain(files) /\ RowsUnique(layers)
  BY DEF Inv, TypeOK, ThreadsInv, TransactionInv, TablesInv
<1>2. /\ Probe(files, text[p]) \in Ids
      /\ InsertFile(files, Probe(files, text[p]), text[p]) \in [Ids -> FileRow]
  BY <1>1, ProbeIsId, InsertFileKeeps
<1>3. /\ pc'[p] = "layers" /\ fileId'[p] = Probe(files, text[p])
      /\ txFiles' = InsertFile(files, fileId'[p], text[p])
      /\ \A q \in Encoders \ {p} : pc'[q] = pc[q] /\ fileId'[q] = fileId[q]
      /\ UNCHANGED <<files, layers, writer, txLayers, text, next, outputs>>
  BY <1>1 DEF Inv, TypeOK
<1>4. TypeOK'
  BY <1>1, <1>2 DEF Inv, TypeOK
<1>5. writer = p /\ \A q \in Encoders \ {p} : pc[q] \notin {"register", "layers"}
  BY <1>1 DEF Inv, ThreadsInv
<1>6. ThreadsInv'
  <2>1. LayerSeq[text[p]] \in Seq(Nat)
    BY <1>1, PipelineConstants
  <2>2. next'[p] <= Len(LayerSeq[text'[p]]) + 1
    BY <1>1, <1>3, <2>1
  <2> QED
    BY <1>3, <1>5, <2>2, <1>1 DEF Inv, ThreadsInv
<1>7. TransactionInv'
  <2>1. RowsOf(p)' = {}
    BY <1>1, <1>3 DEF RowsOf
  <2> QED
    BY <1>1, <1>3, <1>5, <2>1 DEF TransactionInv
<1>8. CommittedInv'
  BY <1>3 DEF Inv, CommittedInv, FreeId
<1>9. OutputsDecodable' /\ TablesInv'
  BY <1>3, TablesUntouched
<1> QED
  BY <1>4, <1>6, <1>7, <1>8, <1>9 DEF Inv

\* A layer's row.
LEMMA InsertLayerKeepsInv ==
  ASSUME Inv, NEW p \in Encoders, InsertLayer(p)
  PROVE  Inv'
<1> USE DEF InsertLayer, db
<1>1. /\ pc[p] = "layers" /\ text[p] \in Contents /\ next[p] \in Nat
      /\ fileId[p] \in Ids
      /\ NextLayer(p) \in LayerRow /\ next[p] \in 1..Len(LayerSeq[text[p]])
      /\ LayerSeq[text[p]] \in Seq(Nat)
  <2>1. LayerSeq[text[p]] \in Seq(Nat)
    BY PipelineConstants DEF Inv, ThreadsInv
  <2> QED
    BY <2>1, NextLayerIsRow DEF Inv, TypeOK, ThreadsInv
<1>2. /\ txLayers' = txLayers \cup {NextLayer(p)} /\ next'[p] = next[p] + 1
      /\ \A q \in Encoders \ {p} : next'[q] = next[q]
      /\ UNCHANGED <<files, layers, writer, txFiles, pc, text, fileId, outputs>>
  BY DEF Inv, TypeOK
<1>3. TypeOK'
  BY <1>1 DEF Inv, TypeOK
<1>4. writer = p /\ \A q \in Encoders \ {p} : pc[q] \notin {"register", "layers"}
  BY <1>1 DEF Inv, ThreadsInv
<1>5. ThreadsInv'
  <2>1. next'[p] # 0 /\ next'[p] <= Len(LayerSeq[text'[p]]) + 1
    BY <1>1, <1>2
  <2> QED
    BY <1>1, <1>2, <2>1 DEF Inv, ThreadsInv
<1>6. TransactionInv'
  <2>1. /\ fileId[p] = Probe(files, text[p])
        /\ txFiles = InsertFile(files, fileId[p], text[p])
        /\ txLayers = layers \cup RowsOf(p)
        /\ RowsUnique(txLayers)
        /\ FreeId(files) /\ files[fileId[p]].of = text[p] => next[p] = 1
    BY <1>1 DEF Inv, TransactionInv
  <2>2. txLayers' = layers' \cup RowsOf(p)'
    <3>1. RowsOf(p)' = RowsOf(p) \cup {NextLayer(p)}
      <4>1. 1..(next'[p] - 1) = 1..(next[p] - 1) \cup {next[p]}
        BY <1>1, <1>2
      <4> QED
        BY <1>2, <4>1 DEF RowsOf, NextLayer
    <3> QED
      BY <1>2, <2>1, <3>1
  <2>3. RowsUnique(txLayers')
    <3>1. \A r \in txLayers : <<r.id, r.idx>> # <<NextLayer(p).id, NextLayer(p).idx>>
      BY DEF Accepts
    <3> QED
      BY <1>2, <2>1, <3>1 DEF RowsUnique
  <2>4. ~(FreeId(files) /\ files[fileId[p]].of = text[p])
    <3> SUFFICES ASSUME FreeId(files), files[fileId[p]].of = text[p] PROVE FALSE
      OBVIOUS
    <3>1. files[fileId[p]].of # NoContent
      BY <1>1, PipelineConstants
    <3>2. RegisteredFilesComplete /\ fileId[p] \in Ids
      BY <1>1 DEF Inv, TablesInv
    <3> DEFINE i == fileId[p]
    <3>3. LayersAt(i) =
            {[id |-> i, idx |-> LayerSeq[files[i].of][n], of |-> files[i].of] :
               n \in DOMAIN LayerSeq[files[i].of]}
      <4> HIDE DEF i
      <4> QED
        BY <3>1, <3>2 DEF RegisteredFilesComplete, i
    <3>4. NextLayer(p) \in LayersAt(i)
      BY <1>1, <3>3 DEF NextLayer
    <3>5. NextLayer(p) \in txLayers
      BY <2>1, <3>4 DEF LayersAt
    <3> QED
      BY <3>5 DEF Accepts
  <2> QED
    BY <1>1, <1>2, <1>4, <2>1, <2>2, <2>3, <2>4 DEF TransactionInv, FreeId
<1>7. CommittedInv'
  BY <1>2 DEF Inv, CommittedInv, FreeId
<1>8. OutputsDecodable' /\ TablesInv'
  BY <1>2, TablesUntouched
<1> QED
  BY <1>3, <1>5, <1>6, <1>7, <1>8 DEF Inv

\* A transaction that is given up leaves the committed tables as they are.
LEMMA RollbackKeepsInv ==
  ASSUME Inv, NEW p \in Encoders, ParseRaises(p) \/ LayerRefused(p)
  PROVE  Inv'
<1> USE DEF ParseRaises, LayerRefused, Rollback, EndTransaction, Finish, db
<1>1. 0 \in Ids /\ NoRow \in FileRow
  BY PipelineConstants DEF Ids, NoRow, FileRow
<1>2. TypeOK'
  BY <1>1 DEF Inv, TypeOK
<1>3. /\ pc'[p] = "idle" /\ next'[p] = 1 /\ writer' = NoOne
      /\ \A q \in Encoders \ {p} :
           /\ pc'[q] = pc[q] /\ text'[q] = text[q]
           /\ fileId'[q] = fileId[q] /\ next'[q] = next[q]
      /\ UNCHANGED <<files, layers, outputs>>
  BY DEF Inv, TypeOK
<1>4. \A q \in Encoders \ {p} : pc[q] \notin {"register", "layers"}
  BY DEF Inv, ThreadsInv
<1>5. ThreadsInv'
  BY <1>3, <1>4, PipelineConstants DEF Inv, ThreadsInv
<1>6. TransactionInv'
  BY <1>3, <1>4 DEF TransactionInv
<1>7. CommittedInv'
  BY <1>3 DEF Inv, CommittedInv, FreeId
<1>8. OutputsDecodable' /\ TablesInv'
  BY <1>3, TablesUntouched
<1> QED
  BY <1>2, <1>5, <1>6, <1>7, <1>8 DEF Inv

LEMMA CrashKeepsInv ==
  ASSUME Inv, Crash
  PROVE  Inv'
<1> USE DEF Crash, EndTransaction, db
<1>1. 0 \in Ids /\ NoRow \in FileRow
  BY PipelineConstants DEF Ids, NoRow, FileRow
<1>2. TypeOK'
  BY <1>1, PipelineConstants DEF Inv, TypeOK
<1>3. ThreadsInv' /\ TransactionInv' /\ CommittedInv'
  BY PipelineConstants DEF ThreadsInv, TransactionInv, CommittedInv
<1>4. OutputsDecodable' /\ TablesInv'
  BY TablesUntouched
<1> QED
  BY <1>2, <1>3, <1>4 DEF Inv

\* What a commit adds: the file, when it was not registered, and all its layers.
LEMMA CommitAdds ==
  ASSUME Inv, NEW p \in Encoders, Commit(p)
  PROVE  /\ fileId[p] \in Ids /\ text[p] \in Contents
         /\ files' \in [Ids -> FileRow]
         /\ \A i \in Ids : files'[i].of = txFiles[i].of
         /\ \A i \in Ids \ {fileId[p]} : files'[i] = files[i]
         /\ \A i \in Ids : files[i].of # NoContent => files'[i].of = files[i].of
         /\ FreeId(files') => FreeId(files)
         /\ files'[fileId[p]].total = Len(LayerSeq[text[p]])
         /\ layers' = layers \cup
              {[id |-> fileId[p], idx |-> LayerSeq[text[p]][n], of |-> text[p]] :
                 n \in DOMAIN LayerSeq[text[p]]}
         /\ Unique(files') /\ Chain(files') /\ RowsUnique(layers')
         /\ FreeId(files) => files'[fileId[p]].of = text[p]
         /\ FreeId(files) /\ files[fileId[p]].of = text[p] => Len(LayerSeq[text[p]]) = 0
<1> USE DEF Commit, Goto
<1> DEFINE i == fileId[p]
           c == text[p]
<1>1. /\ pc[p] = "layers" /\ c \in Contents /\ i \in Ids
      /\ files \in [Ids -> FileRow] /\ txFiles \in [Ids -> FileRow]
      /\ Unique(files) /\ Chain(files)
      /\ next[p] \in Nat /\ next[p] # 0
      /\ LayerSeq[c] \in Seq(Nat)
  <2>1. c \in Contents
    BY DEF Inv, ThreadsInv
  <2> QED
    BY <2>1, PipelineConstants DEF Inv, TypeOK, ThreadsInv, TablesInv
<1>2. /\ i = Probe(files, c) /\ txFiles = InsertFile(files, i, c)
      /\ txLayers = layers \cup RowsOf(p)
      /\ RowsUnique(txLayers)
      /\ FreeId(files) /\ files[i].of = c => next[p] = 1
  BY <1>1 DEF Inv, TransactionInv
<1>3. /\ Unique(txFiles) /\ Chain(txFiles)
      /\ \A k \in Ids : files[k].of # NoContent \/ k # i => txFiles[k] = files[k]
      /\ FreeId(files) => txFiles[i].of = c
  BY <1>1, <1>2, InsertFileKeeps
<1>4. /\ files' = [txFiles EXCEPT ![i] = [of |-> txFiles[i].of, total |-> Len(LayerSeq[c])]]
      /\ layers' = txLayers
  OBVIOUS
<1>5. /\ files' \in [Ids -> FileRow]
      /\ \A k \in Ids : files'[k].of = txFiles[k].of
      /\ \A k \in Ids \ {i} : files'[k] = txFiles[k]
      /\ files'[i].total = Len(LayerSeq[c])
  <2>1. [of |-> txFiles[i].of, total |-> Len(LayerSeq[c])] \in FileRow
    <3>1. txFiles[i].of \in Contents \cup {NoContent}
      BY <1>1 DEF FileRow
    <3> QED
      BY <1>1, <3>1 DEF FileRow
  <2> QED
    BY <1>1, <1>4, <2>1
<1>6. next[p] = Len(LayerSeq[c]) + 1
  <2>1. ~(next[p] <= Len(LayerSeq[c]))
    BY DEF LayersLeft
  <2>2. next[p] <= Len(LayerSeq[c]) + 1
    BY <1>1 DEF Inv, ThreadsInv
  <2> QED
    BY <1>1, <2>1, <2>2
<1>7. RowsOf(p) = {[id |-> i, idx |-> LayerSeq[c][n], of |-> c] : n \in DOMAIN LayerSeq[c]}
  <2>1. 1..(next[p] - 1) = DOMAIN LayerSeq[c]
    BY <1>1, <1>6
  <2> QED
    BY <2>1 DEF RowsOf
<1>8. Unique(files') /\ Chain(files')
  <2> HIDE DEF i, c
  <2>1. Unique(files')
    BY <1>3, <1>5 DEF Unique
  <2>2. Chain(files')
    <3> SUFFICES ASSUME NEW j \in Ids, files'[j].of # NoContent,
                        NEW k \in 0..(NumIds - 1),
                        \A m \in 0..k : Candidate(files'[j].of, m) # j
                 PROVE  files'[Candidate(files'[j].of, k)].of # NoContent
      BY DEF Chain
    <3>1. files'[j].of = txFiles[j].of /\ files'[j].of \in Contents
      BY <1>5 DEF FileRow
    <3>2. Candidate(files'[j].of, k) \in Ids
      BY <3>1, CandidatesAreIds
    <3>3. txFiles[Candidate(files'[j].of, k)].of # NoContent
      BY <1>3, <3>1 DEF Chain
    <3> QED
      BY <1>5, <3>2, <3>3
  <2> QED
    BY <2>1, <2>2
<1>9. \A k \in Ids : files[k].of # NoContent => files'[k].of = files[k].of
  BY <1>3, <1>5
<1>10. FreeId(files') => FreeId(files)
  BY <1>9 DEF FreeId
<1>11. FreeId(files) /\ files[i].of = c => Len(LayerSeq[c]) = 0
  BY <1>1, <1>2, <1>6
<1> QED
  BY <1>1, <1>2, <1>3, <1>4, <1>5, <1>7, <1>8, <1>9, <1>10, <1>11

\* After a commit a free id is still left only if there was one before, and then
\* whoever was registered keeps row and layers.
LEMMA CommitKeepsRegistered ==
  ASSUME Inv, NEW p \in Encoders, Commit(p), FreeId(files'),
         NEW i \in Ids, files[i].of # NoContent
  PROVE  files'[i] = files[i] /\ LayersAt(i)' = LayersAt(i)
<1>1. CASE i # fileId[p]
  BY <1>1, CommitAdds DEF LayersAt
<1>2. CASE i = fileId[p]
  <2>1. /\ files'[i].of = files[i].of /\ files'[i].of = text[p]
        /\ Len(LayerSeq[text[p]]) = 0 /\ files'[i].total = 0
        /\ files' \in [Ids -> FileRow] /\ text[p] \in Contents /\ FreeId(files)
    BY <1>2, CommitAdds
  <2>2. files[i].total = 0
    BY <2>1 DEF Inv, TablesInv, RegisteredFilesComplete
  <2>3. files'[i] = files[i]
    <3>1. files[i] \in FileRow /\ files'[i] \in FileRow
      BY <2>1 DEF Inv, TypeOK
    <3>2. \A r, s \in FileRow : r.of = s.of /\ r.total = s.total => r = s
      BY DEF FileRow
    <3> QED
      BY <2>1, <2>2, <3>1, <3>2
  <2>4. DOMAIN LayerSeq[text[p]] = {}
    <3>1. LayerSeq[text[p]] \in Seq(Nat)
      BY <2>1, PipelineConstants
    <3> QED
      BY <2>1, <3>1
  <2>5. layers' = layers
    BY <2>4, CommitAdds
  <2> QED
    BY <2>3, <2>5 DEF LayersAt
<1> QED
  BY <1>1, <1>2

\* The commit makes the transaction's file and layers the tables'.
LEMMA CommitKeepsInv ==
  ASSUME Inv, NEW p \in Encoders, Commit(p)
  PROVE  Inv'
<1> USE DEF Commit, Goto, EndTransaction
<1> DEFINE i == fileId[p]
           c == text[p]
           rows == {[id |-> i, idx |-> LayerSeq[c][n], of |-> c] : n \in DOMAIN LayerSeq[c]}
<1> HIDE DEF Commit
<1>1. /\ i \in Ids /\ c \in Contents /\ c # NoContent
      /\ files' \in [Ids -> FileRow]
      /\ \A k \in Ids \ {i} : files'[k] = files[k]
      /\ \A k \in Ids : files[k].of # NoContent => files'[k].of = files[k].of
      /\ FreeId(files') => FreeId(files)
      /\ files'[i].total = Len(LayerSeq[c])
      /\ layers' = layers \cup rows
      /\ FreeId(files) => files'[i].of = c
  <2>1. c \in Contents /\ c # NoContent
    BY CommitAdds, PipelineConstants
  <2> QED
    BY <2>1, CommitAdds
<1> USE DEF Commit
<1>2. TypeOK'
  <2>1. 0 \in Ids /\ NoRow \in FileRow
    BY PipelineConstants DEF Ids, NoRow, FileRow
  <2>2. pc' \in [Encoders -> {"idle", "begin", "register", "layers", "modify", "write"}]
    BY DEF Inv, TypeOK
  <2>3. txFiles' \in [Ids -> FileRow]
    BY <2>1
  <2> QED
    BY <1>1, <2>2, <2>3 DEF Inv, TypeOK
<1>3. /\ pc[p] = "layers" /\ pc'[p] = "modify" /\ writer' = NoOne
      /\ \A q \in Encoders \ {p} : pc'[q] = pc[q]
      /\ UNCHANGED <<text, fileId, next, outputs>>
  BY DEF Inv, TypeOK
<1>4. \A q \in Encoders \ {p} : pc[q] \notin {"register", "layers"}
  BY <1>3 DEF Inv, ThreadsInv
<1>5. ThreadsInv'
  BY <1>3, <1>4, PipelineConstants DEF Inv, ThreadsInv
<1>6. TransactionInv'
  BY <1>3, <1>4 DEF TransactionInv
<1>7. CommittedInv'
  <2> SUFFICES ASSUME NEW q \in Encoders, pc'[q] \in {"modify", "write"}, FreeId(files')
               PROVE  files'[fileId[q]].of = text[q]
    BY <1>3 DEF CommittedInv
  <2>1. CASE q = p
    BY <1>1, <2>1
  <2>2. CASE q # p
    <3>1. files[fileId[q]].of = text[q]
      BY <1>1, <1>3, <2>2 DEF Inv, CommittedInv
    <3>2. text[q] \in Contents /\ text[q] # NoContent /\ fileId[q] \in Ids
      BY <1>3, <2>2, PipelineConstants DEF Inv, ThreadsInv, TypeOK
    <3> QED
      BY <1>1, <3>1, <3>2
  <2> QED
    BY <2>1, <2>2
<1>8. OutputsDecodable'
  <2> SUFFICES ASSUME FreeId(files'), NEW o \in outputs PROVE files'[o.id].of = o.of
    BY <1>3 DEF OutputsDecodable
  <2>1. files[o.id].of = o.of
    BY <1>1 DEF Inv, OutputsDecodable
  <2>2. o.id \in Ids /\ o.of # NoContent
    BY PipelineConstants DEF Inv, TypeOK
  <2> QED
    BY <1>1, <2>1, <2>2
<1>9. RegisteredFilesComplete'
  <2> SUFFICES ASSUME FreeId(files'), NEW k \in Ids
               PROVE  /\ files'[k].of # NoContent =>
                           files'[k].total = Len(LayerSeq[files'[k].of])
                      /\ LayersAt(k)' =
                           IF files'[k].of = NoContent THEN {}
                           ELSE {[id |-> k, idx |-> LayerSeq[files'[k].of][n],
                                  of |-> files'[k].of] :
                                   n \in DOMAIN LayerSeq[files'[k].of]}
    BY DEF RegisteredFilesComplete
  <2>1. /\ files[k].of # NoContent => files[k].total = Len(LayerSeq[files[k].of])
        /\ LayersAt(k) =
             IF files[k].of = NoContent THEN {}
             ELSE {[id |-> k, idx |-> LayerSeq[files[k].of][n], of |-> files[k].of] :
                     n \in DOMAIN LayerSeq[files[k].of]}
    BY <1>1 DEF Inv, TablesInv, RegisteredFilesComplete
  <2>2. CASE files[k].of # NoContent
    BY <2>1, <2>2, CommitKeepsRegistered
  <2>3. CASE files[k].of = NoContent /\ k # i
    <3>1. LayersAt(k)' = LayersAt(k)
      BY <1>1, <2>3 DEF LayersAt
    <3> QED
      BY <1>1, <2>1, <2>3, <3>1
  <2>4. CASE files[k].of = NoContent /\ k = i
    <3>1. LayersAt(k) = {}
      BY <2>1, <2>4
    <3>2. \A r \in rows : r.id = k
      BY <2>4
    <3>3. LayersAt(k)' = rows
      BY <1>1, <3>1, <3>2 DEF LayersAt
    <3>4. files'[k].of = c /\ files'[k].total = Len(LayerSeq[c])
      BY <1>1, <2>4
    <3> QED
      BY <1>1, <2>4, <3>3, <3>4
  <2> QED
    BY <2>2, <2>3, <2>4
<1>10. TablesInv'
  BY <1>9, CommitAdds DEF TablesInv, Unique, Chain, RowsUnique
<1> QED
  BY <1>2, <1>5, <1>6, <1>7, <1>8, <1>10 DEF Inv

-----------------------------------------------------------------------------

LEMMA InvNext == Inv /\ [Next]_vars => Inv'
<1> SUFFICES ASSUME Inv, [Next]_vars PROVE Inv'
  OBVIOUS
<1>1. ASSUME NEW p \in Encoders, NEW c \in Contents, Upload(p, c) PROVE Inv'
  BY <1>1, OutsideKeepsInv
<1>2. ASSUME NEW p \in Encoders, EncoderStep(p) PROVE Inv'
  BY <1>2, OutsideKeepsInv, BeginKeepsInv, RegisterKeepsInv, InsertLayerKeepsInv,
     RollbackKeepsInv, CommitKeepsInv DEF EncoderStep
<1>3. CASE Crash
  BY <1>3, CrashKeepsInv
<1>4. CASE UNCHANGED vars
  <2>1. /\ UNCHANGED <<files, layers, writer, txFiles, txLayers, pc, text, fileId, next,
                       outputs, runs, crashes>>
    BY <1>4 DEF vars, db, tx, locals
  <2>2. TypeOK' /\ ThreadsInv' /\ CommittedInv' /\ OutputsDecodable' /\ TablesInv'
    BY <2>1, TablesUntouched DEF Inv, TypeOK, ThreadsInv, CommittedInv, FreeId
  <2>3. TransactionInv'
    BY <2>1 DEF Inv, TransactionInv, RowsOf, FreeId
  <2> QED
    BY <2>2, <2>3 DEF Inv
<1> QED
  BY <1>1, <1>2, <1>3, <1>4 DEF Next

\* The inductive invariant holds in every reachable state.
THEOREM Invariance == Spec => []Inv
  BY InvInit, InvNext, PTL DEF Spec

\* Every variable of the pipeline keeps its type.
THEOREM TypeCorrect == Spec => []TypeOK
<1>1. Inv => TypeOK
  BY DEF Inv
<1> QED
  BY <1>1, Invariance, PTL

\* Registration is all or nothing, whoever fails, gives up or dies in between, for
\* any texts and any number of threads, as long as ids are free.
THEOREM RegistrationsComplete == Spec => []RegisteredFilesComplete
<1>1. Inv => RegisteredFilesComplete
  BY DEF Inv, TablesInv
<1> QED
  BY <1>1, Invariance, PTL

\* A text has one id and a fingerprint one layer.
THEOREM FingerprintsStayUnique == Spec => []FingerprintsUnique
<1>1. Inv => FingerprintsUnique
  BY DEF Inv, TablesInv, Unique, RowsUnique, FingerprintsUnique
<1> QED
  BY <1>1, Invariance, PTL

\* The collision loop leaves no gap between a text's home and its id.
THEOREM ProbeChainsHold == Spec => []ProbeChain
<1>1. Inv => ProbeChain
  BY DEF Inv, TablesInv, Chain, ProbeChain
<1> QED
  BY <1>1, Invariance, PTL

\* The id woven into written G-code is registered for its text.
THEOREM OutputsStayDecodable == Spec => []OutputsDecodable
<1>1. Inv => OutputsDecodable
  BY DEF Inv
<1> QED
  BY <1>1, Invariance, PTL

\* No step changes what is registered.
THEOREM RegistrationsStayStable == Spec => RegistrationsStable
<1> DEFINE Stable == FreeId(files') =>
             \A i \in Ids : files[i].of # NoContent =>
               files'[i] = files[i] /\ LayersAt(i)' = LayersAt(i)
<1>1. Inv /\ [Next]_vars => [Stable]_vars
  <2> SUFFICES ASSUME Inv, Next PROVE Stable
    OBVIOUS
  <2>1. CASE UNCHANGED <<files, layers>>
    BY <2>1 DEF LayersAt
  <2>2. ASSUME NEW p \in Encoders, Commit(p) PROVE Stable
    BY <2>2, CommitKeepsRegistered
  <2> QED
    BY <2>1, <2>2
       DEF Next, EncoderStep, Crash, Upload, BeginImmediate, GiveUp, Register, ParseRaises,
           InsertLayer, LayerRefused, Rollback, Modify, WriteOutput, OutputFails, db
<1>2. RegistrationsStable <=> [][Stable]_vars
  BY DEF RegistrationsStable
<1> QED
  BY <1>1, <1>2, Invariance, PTL DEF Spec
=============================================================================
