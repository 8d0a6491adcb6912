-------------------------- MODULE CopyReview_proofs --------------------------
(***************************************************************************)
(* Proofs about the artifact store and the copy review in it: a row has    *)
(* its file, a file is never replaced, and a review is committed whole,    *)
(* for any number of writers, paths and reviewed texts.                    *)
(***************************************************************************)
EXTENDS CopyReview, TLAPS

AllRows == rows \cup UNION {pending[w] : w \in Writers}

\* What links is whole; from the link to the row, the file at the path of a
\* writer is its own and nobody has a row of it.
Linked(w) == pc[w] \in {"unlink_temp", "record", "discard"}

WriterInv(w) ==
    /\ pc[w] \in {"write", "link", "unlink_temp", "record", "discard", "asset"} => path[w] \in Paths
    /\ pc[w] = "link" => temp[w] = "whole"
    /\ Linked(w) =>
          /\ file[path[w]] = [by |-> w, whole |-> TRUE]
          /\ ~Taken(path[w], AllRows)

WholeFiles == \A p \in Paths : file[p] # Nothing => file[p].whole

FilesInv ==
    /\ TypeOK
    /\ \A w \in Writers : WriterInv(w)
    /\ RowHasFile

----------------------------------------------------------------------------

LEMMA OwnBytes ==
  \A x, w : [by |-> x, whole |-> TRUE] = [by |-> w, whole |-> TRUE] => x = w
<1> SUFFICES ASSUME NEW x, NEW w, [by |-> x, whole |-> TRUE] = [by |-> w, whole |-> TRUE]
             PROVE  x = w
  OBVIOUS
<1>1. [by |-> x, whole |-> TRUE].by = [by |-> w, whole |-> TRUE].by
  OBVIOUS
<1> QED
  BY <1>1

LEMMA InitFilesInv == Init => FilesInv
<1> SUFFICES ASSUME Init
             PROVE  FilesInv
  OBVIOUS
<1>1. TypeOK
  BY NoneAssumption DEF Init, TypeOK, Nothing, Labels
<1>2. \A w \in Writers : WriterInv(w)
  BY DEF Init, WriterInv, Linked
<1>3. RowHasFile
  BY DEF Init, RowHasFile
<1> QED
  BY <1>1, <1>2, <1>3 DEF FilesInv

\* A step of w that leaves the files and the rows alone.
LEMMA FilesUntouched ==
  ASSUME FilesInv, NEW w \in Writers, UNCHANGED <<file, rows, pending>>, TypeOK',
         WriterInv(w)',
         \A x \in Writers \ {w} : pc'[x] = pc[x] /\ temp'[x] = temp[x] /\ path'[x] = path[x]
  PROVE  FilesInv'
<1>1. \A x \in Writers : WriterInv(x)'
  <2> SUFFICES ASSUME NEW x \in Writers, x # w
               PROVE  WriterInv(x)'
    OBVIOUS
  <2>1. AllRows' = AllRows
    BY DEF AllRows
  <2> QED
    BY <2>1 DEF FilesInv, WriterInv, Linked, Taken
<1>2. RowHasFile'
  <2>1. AllRows' = AllRows
    BY DEF AllRows
  <2> QED
    BY <2>1 DEF FilesInv, RowHasFile, AllRows
<1> QED
  BY <1>1, <1>2 DEF FilesInv

\* A step of w that only takes rows away.
LEMMA RowsTakenBack ==
  ASSUME FilesInv, NEW w \in Writers, UNCHANGED <<temp, file, path>>,
         AllRows' \subseteq AllRows, TypeOK',
         pc'[w] \notin {"write", "link", "unlink_temp", "record", "discard", "asset"},
         \A x \in Writers \ {w} : pc'[x] = pc[x]
  PROVE  FilesInv'
<1>1. \A x \in Writers : WriterInv(x)'
  BY DEF FilesInv, WriterInv, Linked, Taken
<1>2. RowHasFile'
  BY DEF FilesInv, RowHasFile, AllRows
<1> QED
  BY <1>1, <1>2 DEF FilesInv

LEMMA NextFilesInv == FilesInv /\ [Next]_vars => FilesInv'
<1> SUFFICES ASSUME FilesInv, [Next]_vars
             PROVE  FilesInv'
  OBVIOUS
<1> USE DEF Goto, Labels
<1>1. ASSUME NEW w \in Writers, Link(w)
      PROVE  FilesInv'
  <2> DEFINE p == path[w]
  <2>1. p \in Paths /\ temp[w] = "whole" /\ file[p] = Nothing /\ pc[w] = "link"
    BY <1>1 DEF FilesInv, WriterInv, Link, CanLink
  <2>2. /\ file' = [file EXCEPT ![p] = [by |-> w, whole |-> TRUE]]
        /\ pc' = [pc EXCEPT ![w] = "unlink_temp"]
        /\ UNCHANGED <<temp, rows, assets, recorded, pending, lock, path>>
    BY <1>1, <2>1 DEF Link
  <2>3. ~Taken(p, AllRows)
    <3> SUFFICES ASSUME NEW r \in AllRows, r.path = p
                 PROVE  FALSE
      BY DEF Taken
    <3>1. file[p] = [by |-> r.sha256, whole |-> TRUE]
      BY DEF FilesInv, RowHasFile, AllRows
    <3> QED
      BY <2>1, <3>1 DEF Nothing
  <2>4. TypeOK'
    BY <2>1, <2>2 DEF FilesInv, TypeOK
  <2>5. AllRows' = AllRows
    BY <2>2 DEF AllRows
  <2>6. ASSUME NEW x \in Writers
        PROVE  WriterInv(x)'
    <3>1. CASE x = w
      BY <2>1, <2>2, <2>3, <2>5, <3>1 DEF FilesInv, TypeOK, WriterInv, Linked, Taken
    <3>2. CASE x # w
      <4>1. ASSUME Linked(x)
            PROVE  path[x] \in Paths /\ path[x] # p
        <5>1. path[x] \in Paths /\ file[path[x]] = [by |-> x, whole |-> TRUE]
          BY <4>1 DEF FilesInv, WriterInv, Linked
        <5> QED
          BY <5>1, <2>1 DEF Nothing
      <4> QED
        BY <2>2, <2>5, <3>2, <4>1 DEF FilesInv, TypeOK, WriterInv, Linked, Taken
    <3> QED
      BY <3>1, <3>2
  <2>7. RowHasFile'
    <3> SUFFICES ASSUME NEW r \in AllRows
                 PROVE  file'[r.path] = [by |-> r.sha256, whole |-> TRUE]
      BY <2>5 DEF RowHasFile, AllRows
    <3>1. file[r.path] = [by |-> r.sha256, whole |-> TRUE] /\ r.path # p
      BY <2>3 DEF FilesInv, RowHasFile, AllRows, Taken
    <3>2. r.path \in Paths
      BY DEF FilesInv, TypeOK, AllRows, Rows
    <3> QED
      BY <2>2, <3>1, <3>2 DEF FilesInv, TypeOK
  <2> QED
    BY <2>4, <2>6, <2>7 DEF FilesInv
<1>2. ASSUME NEW w \in Writers, Record(w)
      PROVE  FilesInv'
  <2>1. pc[w] = "record" /\ path[w] \in Paths /\ file[path[w]] = [by |-> w, whole |-> TRUE]
    BY <1>2 DEF Record, FilesInv, WriterInv, Linked
  <2>2. Row(w) \in Rows /\ Row(w).path = path[w] /\ Row(w).sha256 = w
    BY <2>1 DEF Row, Rows
  <2>3. /\ UNCHANGED <<temp, file, path>>
        /\ \A x \in Writers \ {w} : pc'[x] = pc[x]
        /\ pc'[w] \in {"open", "asset"}
    BY <1>2 DEF Record, FilesInv, TypeOK
  <2>4. TypeOK' /\ AllRows' = AllRows \cup {Row(w)}
    <3>1. CASE w \in InTx
      BY <1>2, <2>2, <3>1 DEF Record, FilesInv, TypeOK, AllRows
    <3>2. CASE w \notin InTx
      BY <1>2, <2>2, <3>2 DEF Record, FilesInv, TypeOK, AllRows
    <3> QED
      BY <3>1, <3>2
  <2>5. ASSUME NEW x \in Writers
        PROVE  WriterInv(x)'
    <3>1. CASE x = w
      BY <2>1, <2>3, <3>1 DEF WriterInv, Linked
    <3>2. CASE x # w
      <4>1. ASSUME Linked(x)
            PROVE  path[x] # path[w]
        BY <2>1, <3>2, <4>1, OwnBytes DEF FilesInv, WriterInv
      <4> QED
        BY <2>2, <2>3, <2>4, <3>2, <4>1 DEF FilesInv, WriterInv, Linked, Taken
    <3> QED
      BY <3>1, <3>2
  <2>6. RowHasFile'
    BY <2>1, <2>2, <2>3, <2>4 DEF FilesInv, RowHasFile, AllRows
  <2> QED
    BY <2>4, <2>5, <2>6 DEF FilesInv
<1>3. ASSUME NEW w \in Writers, Discard(w)
      PROVE  FilesInv'
  <2>1. path[w] \in Paths /\ file[path[w]] = [by |-> w, whole |-> TRUE] /\ ~Taken(path[w], AllRows)
    BY <1>3 DEF Discard, FilesInv, WriterInv, Linked
  <2>2. /\ file' = [file EXCEPT ![path[w]] = Nothing]
        /\ pc' = [pc EXCEPT ![w] = "raised"]
        /\ UNCHANGED <<temp, rows, assets, recorded, pending, lock, path>>
    BY <1>3 DEF Discard
  <2>3. TypeOK' /\ AllRows' = AllRows
    <3>1. Nothing \in [by: Writers \cup {NoWriter}, whole: BOOLEAN]
      BY DEF Nothing
    <3>2. TypeOK'
      BY <2>2, <3>1 DEF FilesInv, TypeOK
    <3>3. AllRows' = AllRows
      BY <2>2 DEF AllRows
    <3> QED
      BY <3>2, <3>3
  <2>4. ASSUME NEW x \in Writers
        PROVE  WriterInv(x)'
    <3>1. CASE x = w
      BY <2>2, <3>1 DEF FilesInv, TypeOK, WriterInv, Linked
    <3>2. CASE x # w
      <4>1. ASSUME Linked(x)
            PROVE  path[x] \in Paths /\ path[x] # path[w]
        <5>1. path[x] \in Paths /\ file[path[x]] = [by |-> x, whole |-> TRUE]
          BY <4>1 DEF FilesInv, WriterInv, Linked
        <5> QED
          BY <5>1, <2>1, <3>2, OwnBytes
      <4> QED
        BY <2>2, <2>3, <3>2, <4>1 DEF FilesInv, TypeOK, WriterInv, Linked, Taken
    <3> QED
      BY <3>1, <3>2
  <2>5. RowHasFile'
    <3> SUFFICES ASSUME NEW r \in AllRows
                 PROVE  file'[r.path] = [by |-> r.sha256, whole |-> TRUE]
      BY <2>3 DEF RowHasFile, AllRows
    <3>1. file[r.path] = [by |-> r.sha256, whole |-> TRUE] /\ r.path # path[w]
      BY <2>1 DEF FilesInv, RowHasFile, AllRows, Taken
    <3>2. r.path \in Paths
      BY DEF FilesInv, TypeOK, AllRows, Rows
    <3> QED
      BY <2>2, <3>1, <3>2 DEF FilesInv, TypeOK
  <2> QED
    BY <2>3, <2>4, <2>5 DEF FilesInv
<1>4. ASSUME NEW w \in Writers, CommitTransaction(w) \/ RollbackTransaction(w) \/ Crash(w)
      PROVE  FilesInv'
  <2>1. /\ UNCHANGED <<temp, file, path>>
        /\ pc'[w] \in {"done", "rolled_back", "crashed"}
        /\ \A x \in Writers \ {w} : pc'[x] = pc[x]
    BY <1>4 DEF CommitTransaction, RollbackTransaction, Crash, FilesInv, TypeOK
  <2>2. TypeOK' /\ AllRows' \subseteq AllRows
    BY <1>4 DEF CommitTransaction, RollbackTransaction, Crash, FilesInv, TypeOK, AllRows
  <2> QED
    BY <2>1, <2>2, RowsTakenBack
<1>5. ASSUME NEW w \in Writers, NEW p \in Paths, CreateTemp(w, p)
      PROVE  FilesInv'
  <2>1. TypeOK' /\ WriterInv(w)'
    BY <1>5 DEF CreateTemp, FilesInv, TypeOK, WriterInv, Linked
  <2>2. /\ UNCHANGED <<file, rows, pending>>
        /\ \A x \in Writers \ {w} : pc'[x] = pc[x] /\ temp'[x] = temp[x] /\ path'[x] = path[x]
    BY <1>5 DEF CreateTemp, FilesInv, TypeOK
  <2> QED
    BY <2>1, <2>2, FilesUntouched
<1>6. ASSUME NEW w \in Writers, WriteTemp(w) \/ UnlinkTemp(w) \/ SyncFails(w) \/ DiscardFails(w) \/ RecordFails(w)
      PROVE  FilesInv'
  <2>1. TypeOK'
    BY <1>6 DEF WriteTemp, UnlinkTemp, SyncFails, DiscardFails, RecordFails, FilesInv, TypeOK
  <2>2. AllRows' = AllRows
    BY <1>6 DEF WriteTemp, UnlinkTemp, SyncFails, DiscardFails, RecordFails, AllRows
  <2>3. WriterInv(w)'
    BY <1>6, <2>2 DEF WriteTemp, UnlinkTemp, SyncFails, DiscardFails, RecordFails, FilesInv, TypeOK,
                      WriterInv, Linked, Taken
  <2>4. /\ UNCHANGED <<file, rows, pending>>
        /\ \A x \in Writers \ {w} : pc'[x] = pc[x] /\ temp'[x] = temp[x] /\ path'[x] = path[x]
    BY <1>6 DEF WriteTemp, UnlinkTemp, SyncFails, DiscardFails, RecordFails, FilesInv, TypeOK
  <2> QED
    BY <2>1, <2>3, <2>4, FilesUntouched
<1>7. ASSUME NEW w \in Writers,
             BeginTransaction(w) \/ WriteFails(w) \/ LinkFails(w) \/ Import(w)
      PROVE  FilesInv'
  <2> USE DEF FilesInv, TypeOK
  <2>1. /\ UNCHANGED <<file, rows, pending, path>>
        /\ pc'[w] \notin {"write", "link", "unlink_temp", "record", "discard", "asset"}
        /\ \A x \in Writers \ {w} : pc'[x] = pc[x] /\ temp'[x] = temp[x]
        /\ pc' \in [Writers -> Labels] /\ temp' \in [Writers -> {"absent", "partial", "whole"}]
        /\ lock' \in Writers \cup {NoWriter}
    BY <1>7 DEF BeginTransaction, WriteFails, LinkFails, Import, ImportTask, ImportRun,
                ImportCreated, ImportedEvent, Commits, CreateAsset, CreateAssetFails, Raise
  <2>2. assets' \subseteq Rows
    <3>1. CASE CreateAsset(w)
      <4>1. Row(w) \in Rows
        BY <3>1 DEF CreateAsset, WriterInv, Row, Rows
      <4> QED
        BY <3>1, <4>1 DEF CreateAsset
    <3>2. CASE ~CreateAsset(w)
      BY <1>7, <3>2 DEF BeginTransaction, WriteFails, LinkFails, Import, ImportTask, ImportRun,
                        ImportCreated, ImportedEvent, Commits, CreateAssetFails, Raise
    <3> QED
      BY <3>1, <3>2
  <2>3. recorded' \in [Writers -> SUBSET {"task", "run", "run.created", "image.imported"}]
    <3>1. CASE \E label, next : \E row \in {"task", "run", "run.created", "image.imported"} :
                  Commits(w, label, row, next)
      BY <3>1 DEF Commits
    <3>2. CASE UNCHANGED recorded
      BY <3>2
    <3> QED
      BY <1>7, <3>1, <3>2 DEF BeginTransaction, WriteFails, LinkFails, Import, ImportTask,
            ImportRun, ImportCreated, ImportedEvent, CreateAsset, CreateAssetFails, Raise
  <2>4. TypeOK'
    BY <2>1, <2>2, <2>3
  <2>5. WriterInv(w)'
    BY <2>1 DEF WriterInv, Linked
  <2> QED
    BY <2>1, <2>4, <2>5, FilesUntouched
<1>8. CASE UNCHANGED vars
  BY <1>8 DEF vars, FilesInv, TypeOK, WriterInv, Linked, Taken, AllRows, RowHasFile
<1> QED
  BY <1>1, <1>2, <1>3, <1>4, <1>5, <1>6, <1>7, <1>8 DEF Next, Write, WriteBytes

\* TypeOK, for every set of writers and paths.
THEOREM ArtifactTypes == Spec => []TypeOK
<1>1. FilesInv => TypeOK
  BY DEF FilesInv
<1> QED
  BY <1>1, InitFilesInv, NextFilesInv, PTL DEF Spec

\* A row of the artifacts table, committed or about to be, always has its file,
\* whole and with the bytes of its digest.
THEOREM RowsHaveFiles == Spec => []RowHasFile
<1>1. FilesInv => RowHasFile
  BY DEF FilesInv
<1> QED
  BY <1>1, InitFilesInv, NextFilesInv, PTL DEF Spec

\* What is linked is whole, and stays what it is until it is removed.
THEOREM FilesStay == Spec => FilesImmutable
<1> DEFINE Stays == \A p \in Paths :
              /\ file'[p] # Nothing => file'[p].whole
              /\ file[p] # Nothing => file'[p] \in {file[p], Nothing}
<1>1. ASSUME FilesInv, [Next]_vars, WholeFiles
      PROVE  Stays
  <2>1. CASE UNCHANGED file
    BY <1>1, <2>1 DEF WholeFiles
  <2>2. ASSUME NEW w \in Writers, Link(w)
        PROVE  Stays
    <3>1. /\ file[path[w]] = Nothing
          /\ file' = [file EXCEPT ![path[w]] = [by |-> w, whole |-> TRUE]]
      BY <1>1, <2>2 DEF FilesInv, WriterInv, Link, CanLink
    <3> QED
      BY <1>1, <3>1 DEF WholeFiles, FilesInv, TypeOK
  <2>3. ASSUME NEW w \in Writers, Discard(w)
        PROVE  Stays
    <3>1. file' = [file EXCEPT ![path[w]] = Nothing]
      BY <2>3 DEF Discard
    <3> QED
      BY <1>1, <3>1 DEF WholeFiles, FilesInv, TypeOK
  <2> QED
    BY <1>1, <2>1, <2>2, <2>3 DEF Next, Write, WriteBytes, vars, BeginTransaction, CreateTemp,
         WriteTemp, WriteFails, LinkFails, UnlinkTemp, SyncFails, DiscardFails, Record, RecordFails,
         CommitTransaction, RollbackTransaction, Crash, Import, ImportTask, ImportRun,
         ImportCreated, ImportedEvent, Commits, CreateAsset, CreateAssetFails, Raise
<1>2. Init => WholeFiles
  BY DEF Init, WholeFiles
<1>3. WholeFiles /\ Stays => WholeFiles'
  BY DEF WholeFiles
<1>4. FilesInv /\ WholeFiles /\ [Next]_vars => [Stays]_vars
  BY <1>1
<1>5. FilesInv /\ WholeFiles /\ [Next]_vars => WholeFiles'
  BY <1>1, <1>3
<1>6. Spec => [][Stays]_vars
  BY <1>2, <1>4, <1>5, InitFilesInv, NextFilesInv, PTL DEF Spec
<1> QED
  BY <1>6 DEF FilesImmutable

----------------------------------------------------------------------------
(* The evidence of an import *)

Trail == {"task", "run", "run.created"}

\* How far the records of w have come when w is where it is.
EvidenceInv(w) ==
    /\ pc[w] = "asset" => Row(w) \in rows
    /\ pc[w] = "imported" => Row(w) \in assets
    /\ pc[w] \in {"import_run", "import_created", "imported"} => w \in Importers
    /\ pc[w] = "import_run" => "task" \in recorded[w]
    /\ pc[w] = "import_created" => {"task", "run"} \subseteq recorded[w]
    /\ w \in Importers
       /\ pc[w] \in {"open", "write", "link", "unlink_temp", "record", "discard", "asset",
                     "imported"}
          => Trail \subseteq recorded[w]
    /\ "image.imported" \in recorded[w] =>
          pc[w] = "done" /\ Trail \subseteq recorded[w] /\ Row(w) \in assets

ImportInv == FilesInv /\ assets \subseteq rows /\ \A w \in Writers : EvidenceInv(w)

LEMMA InitImportInv == Init => ImportInv
  BY InitFilesInv DEF Init, ImportInv, EvidenceInv

\* Rows and assets are never taken away, and what a writer has recorded is its
\* own.
LEMMA OnlyMore ==
  ASSUME FilesInv, NEW w \in Writers, Write(w)
  PROVE  /\ rows \subseteq rows' /\ assets \subseteq assets'
         /\ \A x \in Writers \ {w} :
               pc'[x] = pc[x] /\ path'[x] = path[x] /\ recorded'[x] = recorded[x]
<1> USE DEF FilesInv, TypeOK, Goto
<1>1. CASE BeginTransaction(w) \/ CommitTransaction(w) \/ RollbackTransaction(w) \/ Crash(w)
  BY <1>1 DEF BeginTransaction, CommitTransaction, RollbackTransaction, Crash
<1>2. CASE \E p \in Paths : CreateTemp(w, p)
  BY <1>2 DEF CreateTemp
<1>3. CASE WriteBytes(w)
  BY <1>3 DEF WriteBytes, WriteTemp, WriteFails, Link, LinkFails, UnlinkTemp, SyncFails, DiscardFails, Record,
              RecordFails, Discard
<1>4. CASE Import(w)
  BY <1>4 DEF Import, ImportTask, ImportRun, ImportCreated, ImportedEvent, Commits, CreateAsset,
              CreateAssetFails, Raise
<1> QED
  BY <1>1, <1>2, <1>3, <1>4 DEF Write

\* A statement of the import that commits, or raises.
LEMMA CommitsImportInv ==
  ASSUME ImportInv, NEW w \in Writers,
         ImportTask(w) \/ ImportRun(w) \/ ImportCreated(w) \/ ImportedEvent(w)
  PROVE  EvidenceInv(w)' /\ UNCHANGED <<rows, assets>>
<1> USE DEF ImportInv, FilesInv, TypeOK, Goto, EvidenceInv
<1>1. UNCHANGED <<rows, assets, path>> /\ Row(w)' = Row(w)
  BY DEF ImportTask, ImportRun, ImportCreated, ImportedEvent, Commits, Row
<1>2. CASE pc' = [pc EXCEPT ![w] = "raised"] /\ UNCHANGED recorded
  BY <1>1, <1>2 DEF ImportTask, ImportRun, ImportCreated, ImportedEvent, Commits
<1>3. CASE ImportTask(w) /\ lock = NoWriter
  <2>1. /\ w \in Importers /\ pc[w] = "idle" /\ pc' = [pc EXCEPT ![w] = "import_run"]
        /\ recorded' = [recorded EXCEPT ![w] = @ \cup {"task"}]
    BY <1>3 DEF ImportTask, Commits
  <2> QED
    BY <1>1, <2>1
<1>4. CASE ImportRun(w) /\ lock = NoWriter
  <2>1. /\ pc[w] = "import_run" /\ pc' = [pc EXCEPT ![w] = "import_created"]
        /\ recorded' = [recorded EXCEPT ![w] = @ \cup {"run"}]
    BY <1>4 DEF ImportRun, Commits
  <2> QED
    BY <1>1, <2>1
<1>5. CASE ImportCreated(w) /\ lock = NoWriter
  <2>1. /\ pc[w] = "import_created" /\ pc' = [pc EXCEPT ![w] = "open"]
        /\ recorded' = [recorded EXCEPT ![w] = @ \cup {"run.created"}]
    BY <1>5 DEF ImportCreated, Commits
  <2> QED
    BY <1>1, <2>1 DEF Trail
<1>6. CASE ImportedEvent(w) /\ lock = NoWriter
  <2>1. /\ pc[w] = "imported" /\ pc' = [pc EXCEPT ![w] = "done"]
        /\ recorded' = [recorded EXCEPT ![w] = @ \cup {"image.imported"}]
    BY <1>6 DEF ImportedEvent, Commits
  <2> QED
    BY <1>1, <2>1
<1> QED
  BY <1>1, <1>2, <1>3, <1>4, <1>5, <1>6 DEF ImportTask, ImportRun, ImportCreated, ImportedEvent,
     Commits

LEMMA NextImportInv == ImportInv /\ [Next]_vars => ImportInv'
<1> SUFFICES ASSUME ImportInv, [Next]_vars
             PROVE  ImportInv'
  OBVIOUS
<1>1. FilesInv'
  BY NextFilesInv DEF ImportInv
<1>2. CASE UNCHANGED vars
  BY <1>1, <1>2 DEF vars, ImportInv, EvidenceInv, Row
<1>3. ASSUME NEW w \in Writers, Write(w)
      PROVE  ImportInv'
  <2>1. /\ rows \subseteq rows' /\ assets \subseteq assets'
        /\ \A x \in Writers \ {w} :
              pc'[x] = pc[x] /\ path'[x] = path[x] /\ recorded'[x] = recorded[x]
    BY <1>3, OnlyMore DEF ImportInv
  <2>2. \A x \in Writers \ {w} : EvidenceInv(x)'
    BY <2>1 DEF ImportInv, EvidenceInv, Row
  <2>3. EvidenceInv(w)' /\ assets' \subseteq rows'
    <3> USE DEF ImportInv, FilesInv, TypeOK, Goto, EvidenceInv
    <3>1. CASE BeginTransaction(w) \/ CommitTransaction(w) \/ RollbackTransaction(w) \/ Crash(w)
      <4>1. /\ UNCHANGED <<path, recorded, assets>> /\ Row(w)' = Row(w) /\ rows \subseteq rows'
            /\ pc' \in {[pc EXCEPT ![w] = l] : l \in {"open", "done", "rolled_back", "crashed"}}
            /\ pc[w] # "done"
        BY <3>1 DEF BeginTransaction, CommitTransaction, RollbackTransaction, Crash, Row
      <4>2. pc'[w] = "open" => w \notin Importers
        BY <3>1, <4>1, WritersAssumption DEF BeginTransaction, CommitTransaction,
           RollbackTransaction, Crash
      <4> QED
        BY <4>1, <4>2
    <3>2. ASSUME NEW p \in Paths, CreateTemp(w, p)
          PROVE  EvidenceInv(w)' /\ assets' \subseteq rows'
      <4>1. /\ UNCHANGED <<rows, recorded, assets>> /\ pc' = [pc EXCEPT ![w] = "write"]
            /\ pc[w] # "done" /\ (w \in Importers => pc[w] = "open")
        BY <3>2 DEF CreateTemp
      <4> QED
        BY <4>1
    <3>3. CASE Record(w)
      <4>1. /\ UNCHANGED <<path, recorded, assets>> /\ Row(w)' = Row(w) /\ rows \subseteq rows'
            /\ pc[w] = "record"
        BY <3>3 DEF Record, Row
      <4>2. CASE w \in InTx
        <5>1. pc' = [pc EXCEPT ![w] = "open"]
          BY <3>3, <4>2 DEF Record
        <5> QED
          BY <4>1, <5>1
      <4>3. CASE w \notin InTx
        <5>1. pc' = [pc EXCEPT ![w] = "asset"] /\ rows' = rows \cup {Row(w)}
          BY <3>3, <4>3 DEF Record
        <5> QED
          BY <4>1, <5>1
      <4> QED
        BY <4>2, <4>3
    <3>4. CASE WriteBytes(w) /\ ~Record(w)
      <4>1. /\ UNCHANGED <<path, recorded, assets, rows>> /\ Row(w)' = Row(w)
            /\ pc[w] \in {"write", "link", "unlink_temp", "record", "discard"}
            /\ pc' \in {[pc EXCEPT ![w] = l] : l \in {"link", "raised", "unlink_temp", "record",
                                                      "stray", "discard"}}
        BY <3>4 DEF WriteBytes, WriteTemp, WriteFails, Link, LinkFails, UnlinkTemp, SyncFails, DiscardFails,
           RecordFails, Discard, Row
      <4> QED
        BY <4>1
    <3>5. CASE CreateAsset(w)
      <4>1. /\ UNCHANGED <<path, recorded, rows>> /\ Row(w)' = Row(w) /\ pc[w] = "asset"
            /\ assets' = assets \cup {Row(w)}
            /\ pc' = [pc EXCEPT ![w] = IF w \in Importers THEN "imported" ELSE "done"]
        BY <3>5 DEF CreateAsset, Row
      <4> QED
        BY <4>1
    <3>6. CASE CreateAssetFails(w) \/ Raise(w)
      <4>1. /\ UNCHANGED <<path, recorded, rows, assets>> /\ Row(w)' = Row(w)
            /\ pc[w] \in {"asset", "raised"}
            /\ pc' \in {[pc EXCEPT ![w] = l] : l \in {"raised", "done"}}
        BY <3>6 DEF CreateAssetFails, Raise, Row
      <4> QED
        BY <4>1
    <3>7. CASE ImportTask(w) \/ ImportRun(w) \/ ImportCreated(w) \/ ImportedEvent(w)
      BY <3>7, CommitsImportInv
    <3> HIDE DEF ImportInv, FilesInv, TypeOK, Goto, EvidenceInv
    <3> QED
      BY <1>3, <3>1, <3>2, <3>3, <3>4, <3>5, <3>6, <3>7 DEF Write, Import
  <2> QED
    BY <1>1, <2>2, <2>3 DEF ImportInv
<1> QED
  BY <1>2, <1>3 DEF Next

\* The evidence of an import never runs ahead of it, whatever fails or dies
\* between its commits (image_import.py).
THEOREM ImportsEvident == Spec => []ImportEvidence
<1>1. ImportInv => ImportEvidence
  BY DEF ImportInv, EvidenceInv, ImportEvidence, Trail
<1> QED
  BY <1>1, InitImportInv, NextImportInv, PTL DEF Spec

----------------------------------------------------------------------------
(* Files without a row *)

\* Where a writer may be that has left a file without a row.
Excused(w) ==
    pc[w] \in {"rolled_back", "crashed", "stray"} \/ (w \in InTx /\ pc[w] = "raised")

\* Where a writer is only after, or before, its file, and outside a transaction.
Importing == {"import_run", "import_created", "asset", "imported"}

\* A file has its row, committed or about to be, or its writer is still at it
\* or has an excuse.
StrayInv ==
    /\ \A p \in Paths : file[p] # Nothing =>
          /\ file[p].by \in Writers
          /\ \/ Taken(p, rows \cup pending[file[p].by])
             \/ Linked(file[p].by) /\ path[file[p].by] = p
             \/ Excused(file[p].by)
    /\ \A w \in Writers : /\ pending[w] # {} => w \in InTx /\ pc[w] # "done"
                          /\ pc[w] \in Importing => w \notin InTx

StraysInv == FilesInv /\ StrayInv

LEMMA InitStraysInv == Init => StraysInv
  BY InitFilesInv DEF Init, StraysInv, StrayInv, Importing

\* A step of w that keeps the rows, and w at its file, if it has no row of it.
LEMMA KeepsStrayInv ==
  ASSUME StraysInv, NEW w \in Writers, UNCHANGED file,
         \A x \in Writers \ {w} : /\ pc'[x] = pc[x] /\ path'[x] = path[x]
                                  /\ pending'[x] = pending[x],
         rows \subseteq rows', pending'[w] # {} => w \in InTx /\ pc'[w] # "done",
         pc'[w] \in Importing => w \notin InTx,
         \/ Excused(w)'
         \/ /\ rows \cup pending[w] \subseteq rows' \cup pending'[w]
            /\ ~Excused(w)
            /\ \/ ~Linked(w)
               \/ Linked(w)' /\ path'[w] = path[w]
               \/ Taken(path[w], rows' \cup pending'[w])
  PROVE  StrayInv'
<1>1. ASSUME NEW p \in Paths, file[p] # Nothing, NEW x \in Writers, x = file[p].by
      PROVE  \/ Taken(p, rows \cup pending[x])'
             \/ (Linked(x) /\ path[x] = p)'
             \/ Excused(x)'
  <2>1. CASE x # w
    BY <1>1, <2>1 DEF StraysInv, StrayInv, Taken, Linked, Excused
  <2>2. CASE x = w
    BY <1>1, <2>2 DEF StraysInv, StrayInv, Taken
  <2> QED
    BY <2>1, <2>2
<1>2. \A x \in Writers : /\ pending'[x] # {} => x \in InTx /\ pc'[x] # "done"
                         /\ pc'[x] \in Importing => x \notin InTx
  BY DEF StraysInv, StrayInv
<1> QED
  BY <1>1, <1>2 DEF StraysInv, StrayInv

LEMMA NextStraysInv == StraysInv /\ [Next]_vars => StraysInv'
<1> SUFFICES ASSUME StraysInv, [Next]_vars
             PROVE  StrayInv'
  BY NextFilesInv DEF StraysInv
<1>1. CASE UNCHANGED vars
  BY <1>1 DEF vars, StraysInv, StrayInv, Taken, Linked, Excused
<1>2. ASSUME NEW w \in Writers, Link(w)
      PROVE  StrayInv'
  <2>1. /\ path[w] \in Paths /\ file[path[w]] = Nothing /\ pc[w] = "link"
        /\ file' = [file EXCEPT ![path[w]] = [by |-> w, whole |-> TRUE]]
        /\ pc' = [pc EXCEPT ![w] = "unlink_temp"] /\ UNCHANGED <<rows, pending, path>>
    BY <1>2 DEF StraysInv, FilesInv, WriterInv, Link, CanLink, Goto
  <2>2. /\ pc'[w] = "unlink_temp" /\ \A x \in Writers \ {w} : pc'[x] = pc[x]
        /\ file'[path[w]] = [by |-> w, whole |-> TRUE]
        /\ \A p \in Paths \ {path[w]} : file'[p] = file[p]
    BY <2>1 DEF StraysInv, FilesInv, TypeOK
  <2>3. ASSUME NEW p \in Paths, file'[p] # Nothing
        PROVE  /\ file'[p].by \in Writers
               /\ \/ Taken(p, rows \cup pending[file[p].by])'
                  \/ (Linked(file[p].by) /\ path[file[p].by] = p)'
                  \/ Excused(file[p].by)'
    <3>1. CASE p = path[w]
      <4>1. file'[p].by = w
        BY <2>2, <3>1
      <4> QED
        BY <2>1, <2>2, <3>1, <4>1 DEF Linked
    <3>2. CASE p # path[w]
      BY <2>1, <2>2, <2>3, <3>2 DEF StraysInv, StrayInv, Taken, Linked, Excused
    <3> QED
      BY <3>1, <3>2
  <2> QED
    BY <2>1, <2>2, <2>3 DEF StraysInv, StrayInv, Importing
<1>3. ASSUME NEW w \in Writers, Discard(w)
      PROVE  StrayInv'
  <2>1. /\ path[w] \in Paths /\ pc[w] = "discard" /\ pc' = [pc EXCEPT ![w] = "raised"]
        /\ file' = [file EXCEPT ![path[w]] = Nothing] /\ UNCHANGED <<rows, pending, path>>
    BY <1>3 DEF StraysInv, FilesInv, WriterInv, Discard, Goto
  <2>2. /\ pc'[w] = "raised" /\ \A x \in Writers \ {w} : pc'[x] = pc[x]
        /\ file'[path[w]] = Nothing
        /\ \A p \in Paths \ {path[w]} : file'[p] = file[p]
    BY <2>1 DEF StraysInv, FilesInv, TypeOK
  <2>3. ASSUME NEW p \in Paths, file'[p] # Nothing
        PROVE  /\ file'[p].by \in Writers
               /\ \/ Taken(p, rows \cup pending[file[p].by])'
                  \/ (Linked(file[p].by) /\ path[file[p].by] = p)'
                  \/ Excused(file[p].by)'
    <3>1. p # path[w] /\ file'[p] = file[p]
      BY <2>2, <2>3
    <3> QED
      BY <2>1, <2>2, <2>3, <3>1 DEF StraysInv, StrayInv, Taken, Linked, Excused
  <2> QED
    BY <2>1, <2>2, <2>3 DEF StraysInv, StrayInv, Importing
<1>4. ASSUME NEW w \in Writers, Write(w), ~Link(w), ~Discard(w)
      PROVE  StrayInv'
  <2> USE DEF Goto
  <2>1. /\ UNCHANGED file /\ rows \subseteq rows'
        /\ \A x \in Writers \ {w} : /\ pc'[x] = pc[x] /\ path'[x] = path[x]
                                    /\ pending'[x] = pending[x]
    <3> USE DEF StraysInv, FilesInv, TypeOK
    <3>1. CASE BeginTransaction(w) \/ CommitTransaction(w) \/ RollbackTransaction(w) \/ Crash(w)
      BY <3>1 DEF BeginTransaction, CommitTransaction, RollbackTransaction, Crash
    <3>2. CASE \E p \in Paths : CreateTemp(w, p)
      BY <3>2 DEF CreateTemp
    <3>3. CASE WriteBytes(w)
      BY <1>4, <3>3 DEF WriteBytes, WriteTemp, WriteFails, LinkFails, UnlinkTemp, SyncFails, DiscardFails,
         Record, RecordFails
    <3>4. CASE Import(w)
      BY <3>4 DEF Import, ImportTask, ImportRun, ImportCreated, ImportedEvent, Commits,
         CreateAsset, CreateAssetFails, Raise
    <3> QED
      BY <1>4, <3>1, <3>2, <3>3, <3>4 DEF Write
  <2>2. pending[w] # {} => w \in InTx /\ pc[w] # "done"
    BY DEF StraysInv, StrayInv
  <2> DEFINE Keeps ==
        /\ pending'[w] # {} => w \in InTx /\ pc'[w] # "done"
        /\ pc'[w] \in Importing => w \notin InTx
        /\ \/ Excused(w)'
           \/ /\ rows \cup pending[w] \subseteq rows' \cup pending'[w]
              /\ ~Excused(w)
              /\ \/ ~Linked(w)
                 \/ Linked(w)' /\ path'[w] = path[w]
                 \/ Taken(path[w], rows' \cup pending'[w])
  <2> SUFFICES Keeps
    BY <2>1, KeepsStrayInv
  <2>3. CASE BeginTransaction(w) \/ (\E p \in Paths : CreateTemp(w, p))
             \/ WriteTemp(w) \/ WriteFails(w) \/ LinkFails(w)
    <3>1. /\ UNCHANGED <<rows, pending>> /\ pc[w] \in {"idle", "open", "write", "link"}
          /\ pc'[w] \in {"open", "write", "link", "raised"}
      BY <2>3 DEF BeginTransaction, CreateTemp, WriteTemp, WriteFails, LinkFails, StraysInv,
         FilesInv, TypeOK
    <3> QED
      BY <2>2, <3>1 DEF Linked, Excused, Importing
  <2>4. CASE CommitTransaction(w) \/ RollbackTransaction(w) \/ Crash(w)
    <3>1. pending'[w] = {}
      BY <2>4 DEF CommitTransaction, RollbackTransaction, Crash, StraysInv, FilesInv, TypeOK
    <3>2. CASE CommitTransaction(w)
      <4>1. rows' = rows \cup pending[w] /\ pc[w] = "open"
        BY <3>2 DEF CommitTransaction
      <4>2. pc'[w] = "done"
        BY <3>2 DEF CommitTransaction, StraysInv, FilesInv, TypeOK
      <4> QED
        BY <3>1, <4>1, <4>2 DEF Linked, Excused, Importing
    <3>3. CASE RollbackTransaction(w) \/ Crash(w)
      <4>1. pc'[w] \in {"rolled_back", "crashed"}
        BY <3>3 DEF RollbackTransaction, Crash, StraysInv, FilesInv, TypeOK
      <4> QED
        BY <3>1, <4>1 DEF Excused, Importing
    <3> QED
      BY <2>4, <3>2, <3>3
  <2>5. CASE UnlinkTemp(w) \/ RecordFails(w)
    <3>1. /\ UNCHANGED <<rows, pending, path>> /\ pc[w] \in {"unlink_temp", "record"}
          /\ pc'[w] \in {"record", "discard"}
      BY <2>5 DEF UnlinkTemp, RecordFails, StraysInv, FilesInv, TypeOK
    <3> QED
      BY <2>2, <3>1 DEF Linked, Excused, Importing
  <2>6. CASE SyncFails(w) \/ DiscardFails(w)
    <3>1. UNCHANGED pending /\ Excused(w)' /\ pc'[w] \in {"raised", "stray"}
      BY <2>6 DEF SyncFails, DiscardFails, Excused, StraysInv, FilesInv, TypeOK
    <3> QED
      BY <2>2, <3>1 DEF Importing
  <2>7. CASE Record(w)
    <3>1. pc[w] = "record" /\ Row(w).path = path[w]
      BY <2>7 DEF Record, Row
    <3>2. /\ Row(w) \in rows' \cup pending'[w]
          /\ rows \cup pending[w] \subseteq rows' \cup pending'[w]
          /\ pending'[w] # {} => w \in InTx /\ pc'[w] # "done"
          /\ pc'[w] \in Importing => w \notin InTx
      <4>1. CASE w \in InTx
        BY <2>7, <4>1 DEF Record, StraysInv, FilesInv, TypeOK, Importing
      <4>2. CASE w \notin InTx
        BY <2>2, <2>7, <4>2 DEF Record, StraysInv, FilesInv, TypeOK
      <4> QED
        BY <4>1, <4>2
    <3>3. Taken(path[w], rows' \cup pending'[w])
      BY <3>1, <3>2 DEF Taken
    <3>4. ~Excused(w)
      BY <3>1 DEF Excused
    <3> HIDE DEF Goto
    <3> QED
      BY <3>2, <3>3, <3>4
  <2>8. CASE Import(w)
    <3>1. /\ UNCHANGED <<rows, pending>>
          /\ pc[w] \in {"idle", "import_run", "import_created", "asset", "imported", "raised"}
      BY <2>8 DEF Import, ImportTask, ImportRun, ImportCreated, ImportedEvent, Commits,
         CreateAsset, CreateAssetFails, Raise
    <3>2. w \notin InTx
      BY <2>8, WritersAssumption DEF Import, ImportTask, ImportRun, ImportCreated,
         ImportedEvent, Commits, CreateAsset, CreateAssetFails, Raise, StraysInv, StrayInv,
         Importing
    <3> QED
      BY <2>2, <3>1, <3>2 DEF Linked, Excused
  <2> QED
    BY <1>4, <2>3, <2>4, <2>5, <2>6, <2>7, <2>8 DEF Write, WriteBytes
<1> QED
  BY <1>1, <1>2, <1>3, <1>4 DEF Next

\* A file whose writer has returned or raised has its row, unless a rollback, a
\* crash or a failing file system came between (write_bytes in artifacts.py).
THEOREM StraysExcused == Spec => []StrayOnlyAfterRollback
<1>1. StraysInv => StrayOnlyAfterRollback
  BY DEF StraysInv, StrayInv, StrayOnlyAfterRollback, Linked, Excused
<1> QED
  BY <1>1, InitStraysInv, NextStraysInv, PTL DEF Spec

----------------------------------------------------------------------------
(* The review *)

\* A review step is a step of the artifact store, or leaves it alone.
LEMMA ReviewStepWrites == [ReviewNext]_reviewVars => [Next]_vars
  BY ReviewersAssumption, WritersAssumption
  DEF ReviewNext, reviewVars, ReviewBegin, ReviewStart, ReviewEvidence, ReviewFinish,
      ReviewCommit, ReviewRollback, Next, Write

\* The copy review, with its records and gates, implements the artifact store:
\* what holds of every writer holds of the writers that are reviews.
THEOREM ReviewImplementsArtifacts == ReviewSpec => Spec
<1>1. ReviewInit => Init
  BY DEF ReviewInit
<1> QED
  BY <1>1, ReviewStepWrites, PTL DEF ReviewSpec, Spec

\* No approval for an obvious claim, and a claim without authority is routed.
Honest(p) ==
    /\ "approval" \in p.rows => "obvious" \notin p.input.text
    /\ "healthcare" \in p.input.text /\ "approved-clinical-claims" \notin p.input.canon =>
          /\ p.result.gates.healthcare_authority = "needs_human_review"
          /\ p.result.recommendation = "route"

\* All of a review's records, with an approval exactly when it awaits one.
Complete(p) ==
    /\ Started \cup {"result", "gates.completed"} \subseteq p.rows
    /\ p.result.status = "awaiting_approval" <=> {"approval", "approval.requested"} \subseteq p.rows
    /\ p.result.status = "fail" <=> "result.completed" \in p.rows
    /\ Honest(p)

Writing == {"write", "link", "unlink_temp", "record", "discard"}

\* What review w has inserted at each stage.  Its evidence is written between
\* two of them, so that its row is in the transaction before it can commit.
ReviewerInv(w) ==
    /\ pc[w] # "done" => review[w] = NoPacket
    /\ pc[w] \in Writing => stage[w] = "finish"
    /\ pc[w] = "open" /\ stage[w] \in {"finish", "commit"} => Row(w) \in pending[w]
    /\ pc[w] \in Writing \cup {"open"} /\ stage[w] \in {"evidence", "finish"} =>
          packet[w].rows = Started
    /\ pc[w] = "open" /\ stage[w] = "commit" => Complete(packet[w])
    /\ review[w] # NoPacket => Row(w) \in rows /\ Complete(review[w])

ReviewTypes ==
    /\ stage \in [Reviewers -> {"start", "evidence", "finish", "commit"}]
    /\ packet \in [Reviewers -> Packets]
    /\ review \in [Reviewers -> Packets]

ReviewInv ==
    /\ FilesInv
    /\ ReviewTypes
    /\ \A w \in Reviewers : ReviewerInv(w)

LEMMA EmptyPacket == NoPacket \in Packets /\ NoPacket.rows = {}
<1>1. NoInput \in Inputs
  BY DEF NoInput, Inputs
<1>2. NoResult \in [status: {"none", "fail", "awaiting_approval"},
                    gates: {Gates(i) : i \in Inputs},
                    recommendation: {"none", "route", "revised"}]
  BY <1>1 DEF NoResult
<1> QED
  BY <1>1, <1>2 DEF NoPacket, Packets

LEMMA InitReviewInv == ReviewInit => ReviewInv
<1> SUFFICES ASSUME ReviewInit
             PROVE  ReviewInv
  OBVIOUS
<1>1. FilesInv
  BY InitFilesInv DEF ReviewInit
<1>2. ReviewTypes
  BY EmptyPacket DEF ReviewInit, ReviewTypes
<1>3. ASSUME NEW w \in Reviewers
      PROVE  ReviewerInv(w)
  <2>1. pc[w] = "idle" /\ review[w] = NoPacket
    BY ReviewersAssumption, WritersAssumption DEF ReviewInit, Init
  <2> QED
    BY <2>1 DEF ReviewerInv, Writing
<1> QED
  BY <1>1, <1>2, <1>3 DEF ReviewInv

\* What a step of another writer leaves of a review.
LEMMA OthersStep ==
  ASSUME TypeOK, NEW v \in Writers, Write(v), NEW w \in Writers, w # v
  PROVE  /\ pc'[w] = pc[w] /\ path'[w] = path[w] /\ pending'[w] = pending[w]
         /\ rows \subseteq rows'
  BY DEF TypeOK, Goto, Write, WriteBytes, BeginTransaction, CreateTemp, WriteTemp, WriteFails,
         Link, LinkFails, UnlinkTemp, SyncFails, DiscardFails, Record, RecordFails, Discard,
         CommitTransaction, RollbackTransaction, Crash, Import, ImportTask, ImportRun,
         ImportCreated, ImportedEvent, Commits, CreateAsset, CreateAssetFails, Raise

LEMMA Undisturbed ==
  ASSUME NEW w \in Reviewers, ReviewerInv(w),
         pc'[w] = pc[w], path'[w] = path[w], pending'[w] = pending[w], rows \subseteq rows',
         stage'[w] = stage[w], packet'[w] = packet[w], review'[w] = review[w]
  PROVE  ReviewerInv(w)'
  BY DEF ReviewerInv, Complete, Row

\* The gates and the records the last part of a review adds.
LEMMA FinishStep ==
  ASSUME NEW w \in Reviewers, ReviewTypes, ReviewFinish(w), packet[w].rows = Started
  PROVE  /\ packet' \in [Reviewers -> Packets]
         /\ \A v \in Reviewers \ {w} : packet'[v] = packet[v]
         /\ Complete(packet'[w])
<1> DEFINE Rs(input) == Started \cup {"result", "gates.completed"}
                   \cup IF Failed(input) THEN {"result.completed"}
                                         ELSE {"approval", "approval.requested"}
           Result(input) == [status |-> IF Failed(input) THEN "fail" ELSE "awaiting_approval",
                             gates |-> Gates(input), recommendation |-> Recommendation(input)]
<1> PICK input \in Reviewed :
      packet' = [packet EXCEPT ![w] =
                    [rows |-> Rs(input), input |-> input, result |-> Result(input)]]
  BY DEF ReviewFinish, ReviewTypes
<1>1. input \in Inputs
  BY ReviewedAssumption
<1>2. Rs(input) \subseteq Records
  BY DEF Records, Started
<1>3. Result(input) \in [status: {"none", "fail", "awaiting_approval"},
                  gates: {Gates(i) : i \in Inputs},
                  recommendation: {"none", "route", "revised"}]
  <2>1. Recommendation(input) \in {"none", "route", "revised"}
    BY DEF Recommendation
  <2>2. Gates(input) \in {Gates(i) : i \in Inputs}
    BY <1>1
  <2> QED
    BY <2>1, <2>2
<1>4. /\ packet'[w] = [rows |-> Rs(input), input |-> input, result |-> Result(input)]
      /\ \A v \in Reviewers \ {w} : packet'[v] = packet[v]
  <2> HIDE DEF Rs, Result
  <2> QED
    BY DEF ReviewTypes
<1>5. [rows |-> Rs(input), input |-> input, result |-> Result(input)] \in Packets
  <2> HIDE DEF Rs, Result
  <2> QED
    BY <1>1, <1>2, <1>3 DEF Packets
<1>6. packet' \in [Reviewers -> Packets]
  <2> HIDE DEF Rs, Result
  <2> QED
    BY <1>5 DEF ReviewTypes
<1>7. Honest(packet'[w])
  <2>1. packet'[w].rows = Rs(input) /\ packet'[w].input = input
        /\ packet'[w].result.gates = Gates(input)
        /\ packet'[w].result.recommendation = Recommendation(input)
    BY <1>4
  <2>2. ASSUME "approval" \in Rs(input)
        PROVE  "obvious" \notin input.text
    <3>1. ~Failed(input)
      BY <2>2 DEF Started
    <3>2. Gates(input).unsupported_health_claim # "fail"
      BY <3>1 DEF Failed, Gates
    <3> QED
      BY <3>2 DEF Gates
  <2>3. ASSUME "healthcare" \in input.text, "approved-clinical-claims" \notin input.canon
        PROVE  /\ Gates(input).healthcare_authority = "needs_human_review"
               /\ Recommendation(input) = "route"
    <3>1. Gates(input).healthcare_authority = "needs_human_review"
      BY <2>3 DEF Gates
    <3> QED
      BY <3>1 DEF Recommendation
  <2> HIDE DEF Rs
  <2> QED
    BY <2>1, <2>2, <2>3 DEF Honest
<1>8. Complete(packet'[w])
  <2>1. packet'[w].rows = Rs(input) /\ packet'[w].result.status = Result(input).status
    BY <1>4
  <2>2. CASE Failed(input)
    <3>1. "approval" \notin Rs(input) /\ "result.completed" \in Rs(input)
      BY <2>2 DEF Started
    <3>2. Result(input).status = "fail"
      BY <2>2
    <3> HIDE DEF Result
    <3> QED
      BY <1>7, <2>1, <3>1, <3>2 DEF Complete
  <2>3. CASE ~Failed(input)
    <3>1. {"approval", "approval.requested"} \subseteq Rs(input) /\ "result.completed" \notin Rs(input)
      BY <2>3 DEF Started
    <3>2. Result(input).status = "awaiting_approval"
      BY <2>3
    <3> HIDE DEF Result
    <3> QED
      BY <1>7, <2>1, <3>1, <3>2 DEF Complete
  <2> QED
    BY <2>2, <2>3
<1> QED
  BY <1>4, <1>6, <1>8

LEMMA NextReviewInv == ReviewInv /\ [ReviewNext]_reviewVars => ReviewInv'
<1> SUFFICES ASSUME ReviewInv, [ReviewNext]_reviewVars
             PROVE  ReviewInv'
  OBVIOUS
<1>1. FilesInv' /\ TypeOK
  BY ReviewStepWrites, NextFilesInv DEF ReviewInv, FilesInv
<1>2. Reviewers \subseteq Writers /\ Reviewers \subseteq InTx
  BY ReviewersAssumption, WritersAssumption
<1>3. ASSUME NEW v \in Writers, Write(v),
             \A w \in Reviewers \ {v} : /\ stage'[w] = stage[w] /\ packet'[w] = packet[w]
                                        /\ review'[w] = review[w]
      PROVE  \A w \in Reviewers \ {v} : ReviewerInv(w)'
  BY <1>1, <1>2, <1>3, OthersStep, Undisturbed DEF ReviewInv
<1>4. ASSUME NEW v \in Writers \ Reviewers, Write(v), UNCHANGED <<stage, packet, review>>
      PROVE  ReviewInv'
  BY <1>1, <1>3, <1>4 DEF ReviewInv, ReviewTypes
<1>5. CASE UNCHANGED reviewVars
  BY <1>1, <1>5, <1>2, Undisturbed DEF ReviewInv, ReviewTypes, reviewVars, vars
<1>6. ASSUME NEW w \in Reviewers, ReviewStart(w) \/ ReviewFinish(w)
      PROVE  ReviewInv'
  <2>1. /\ UNCHANGED <<vars, review>> /\ pc[w] = "open"
        /\ \A v \in Reviewers \ {w} : stage'[v] = stage[v]
        /\ stage' \in [Reviewers -> {"start", "evidence", "finish", "commit"}]
    BY <1>6 DEF ReviewStart, ReviewFinish, ReviewInv, ReviewTypes
  <2>2. /\ packet' \in [Reviewers -> Packets]
        /\ \A v \in Reviewers \ {w} : packet'[v] = packet[v]
        /\ ReviewerInv(w)'
    <3>1. CASE ReviewStart(w)
      <4>1. /\ packet' \in [Reviewers -> Packets]
            /\ \A v \in Reviewers \ {w} : packet'[v] = packet[v]
            /\ packet'[w].rows = Started
        <5>1. [packet[w] EXCEPT !.rows = Started] \in Packets
          BY DEF ReviewInv, ReviewTypes, Packets, Records
        <5>2. packet' = [packet EXCEPT ![w] = [packet[w] EXCEPT !.rows = Started]]
          BY <3>1 DEF ReviewStart
        <5>3. packet[w] \in Packets
          BY DEF ReviewInv, ReviewTypes
        <5> QED
          BY <5>1, <5>2, <5>3 DEF ReviewInv, ReviewTypes, Packets
      <4>2. stage'[w] = "evidence" /\ stage[w] = "start"
        BY <3>1 DEF ReviewStart, ReviewInv, ReviewTypes
      <4> QED
        BY <2>1, <4>1, <4>2 DEF ReviewInv, ReviewerInv, Complete, vars, Row, Writing
    <3>2. CASE ReviewFinish(w)
      <4>1. packet[w].rows = Started /\ Row(w) \in pending[w] /\ review[w] = NoPacket
        BY <2>1, <3>2 DEF ReviewInv, ReviewerInv, ReviewFinish
      <4>2. stage'[w] = "commit"
        BY <3>2 DEF ReviewFinish, ReviewInv, ReviewTypes
      <4>3. ReviewTypes
        BY DEF ReviewInv
      <4>4. /\ packet' \in [Reviewers -> Packets]
            /\ \A v \in Reviewers \ {w} : packet'[v] = packet[v]
            /\ Complete(packet'[w])
        BY <3>2, <4>1, <4>3, FinishStep
      <4> QED
        BY <2>1, <4>1, <4>2, <4>4 DEF ReviewerInv, Complete, vars, Row, Writing
    <3> QED
      BY <1>6, <3>1, <3>2
  <2>3. ASSUME NEW v \in Reviewers, v # w
        PROVE  ReviewerInv(v)'
    BY <2>1, <2>2, <2>3, Undisturbed DEF ReviewInv, vars
  <2> QED
    BY <1>1, <2>1, <2>2, <2>3 DEF ReviewInv, ReviewTypes
<1>7. ASSUME NEW w \in Reviewers, ReviewBegin(w) \/ ReviewEvidence(w)
      PROVE  ReviewInv'
  <2>1. /\ Write(w) /\ UNCHANGED <<pending, rows, packet, review>>
        /\ \A v \in Reviewers \ {w} : stage'[v] = stage[v]
        /\ stage' \in [Reviewers -> {"start", "evidence", "finish", "commit"}]
    BY <1>7 DEF ReviewBegin, ReviewEvidence, BeginTransaction, CreateTemp, Write, ReviewInv, ReviewTypes
  <2>2. ReviewerInv(w)'
    <3>1. CASE ReviewBegin(w)
      <4>1. pc[w] = "idle" /\ pc'[w] = "open" /\ stage'[w] = "start"
        BY <1>1, <1>2, <3>1 DEF ReviewBegin, BeginTransaction, Goto, TypeOK, ReviewInv, ReviewTypes
      <4> QED
        BY <2>1, <4>1 DEF ReviewInv, ReviewerInv, Writing
    <3>2. CASE ReviewEvidence(w)
      <4>1. pc[w] = "open" /\ pc'[w] = "write" /\ stage[w] = "evidence" /\ stage'[w] = "finish"
        BY <1>1, <1>2, <3>2 DEF ReviewEvidence, CreateTemp, Goto, TypeOK, ReviewInv, ReviewTypes
      <4> QED
        BY <2>1, <4>1 DEF ReviewInv, ReviewerInv, Writing
    <3> QED
      BY <1>7, <3>1, <3>2
  <2> QED
    BY <1>1, <1>2, <1>3, <2>1, <2>2 DEF ReviewInv, ReviewTypes
<1>8. ASSUME NEW w \in Reviewers, ReviewCommit(w)
      PROVE  ReviewInv'
  <2>1. /\ Write(w) /\ pc'[w] = "done" /\ rows' = rows \cup pending[w] /\ UNCHANGED path
        /\ pc[w] = "open" /\ stage[w] = "commit" /\ UNCHANGED stage
    BY <1>1, <1>2, <1>8 DEF ReviewCommit, CommitTransaction, Goto, TypeOK, Write
  <2>2. /\ ReviewTypes' /\ review'[w] = packet[w]
        /\ \A v \in Reviewers \ {w} : packet'[v] = packet[v] /\ review'[v] = review[v]
    BY <1>8, <2>1, EmptyPacket DEF ReviewCommit, ReviewInv, ReviewTypes
  <2>3. ReviewerInv(w)'
    <3>1. Row(w) \in pending[w] /\ Complete(packet[w])
      BY <2>1 DEF ReviewInv, ReviewerInv
    <3> QED
      BY <2>1, <2>2, <3>1 DEF ReviewerInv, Complete, Writing, Row
  <2> QED
    BY <1>1, <1>2, <1>3, <2>1, <2>2, <2>3 DEF ReviewInv
<1>9. ASSUME NEW w \in Reviewers, ReviewRollback(w)
      PROVE  ReviewInv'
  <2>1. /\ Write(w) /\ pc'[w] \in {"rolled_back", "crashed"} /\ pc[w] # "done"
        /\ UNCHANGED <<stage, review>>
    BY <1>1, <1>2, <1>9
    DEF ReviewRollback, RollbackTransaction, Crash, Goto, TypeOK, Write
  <2>2. /\ ReviewTypes'
        /\ \A v \in Reviewers \ {w} : packet'[v] = packet[v]
    BY <1>9, <2>1, EmptyPacket DEF ReviewRollback, ReviewInv, ReviewTypes
  <2>3. ReviewerInv(w)'
    BY <2>1 DEF ReviewInv, ReviewerInv, Writing
  <2> QED
    BY <1>1, <1>2, <1>3, <2>1, <2>2, <2>3 DEF ReviewInv
<1>10. ASSUME NEW w \in Reviewers, WriteBytes(w), UNCHANGED <<stage, packet, review>>
       PROVE  ReviewInv'
  <2>1. Write(w)
    BY <1>10 DEF Write
  <2>2. pc[w] \in Writing /\ UNCHANGED <<rows, path>>
    BY <1>2, <1>10 DEF WriteBytes, WriteTemp, WriteFails, Link, LinkFails, UnlinkTemp, SyncFails, DiscardFails,
                       Record, RecordFails, Discard, Writing
  <2>3. pc'[w] \in Writing \cup {"raised"} \/ (pc'[w] = "open" /\ Row(w) \in pending'[w])
    BY <1>1, <1>2, <1>10
    DEF TypeOK, Goto, WriteBytes, WriteTemp, WriteFails, Link, LinkFails, UnlinkTemp, SyncFails, DiscardFails,
        Record, RecordFails, Discard, Writing
  <2>4. ReviewerInv(w)'
    BY <1>10, <2>2, <2>3 DEF ReviewInv, ReviewerInv, Writing, Row
  <2> QED
    BY <1>1, <1>2, <1>3, <1>10, <2>1, <2>4 DEF ReviewInv, ReviewTypes
<1> QED
  BY <1>2, <1>4, <1>5, <1>6, <1>7, <1>8, <1>9, <1>10 DEF ReviewNext

\* ReviewTypeOK, for every set of writers, paths and reviewed texts.
THEOREM ReviewTypesKept == ReviewSpec => []ReviewTypeOK
<1>1. ReviewInv => ReviewTypeOK
  BY DEF ReviewInv, FilesInv, ReviewTypes, ReviewTypeOK
<1> QED
  BY <1>1, InitReviewInv, NextReviewInv, PTL DEF ReviewSpec

\* "Every review records input hash, target surface, provenance and pinned
\* canon snapshots": what is committed of a review is nothing, or all of it with
\* the row and the whole file of its evidence.
THEOREM ReviewsWhole == ReviewSpec => []ReviewWhole
<1>1. ReviewInv => ReviewWhole
  <2> SUFFICES ASSUME ReviewInv, NEW w \in Reviewers, review[w].rows # {}
               PROVE  /\ Started \cup {"result", "gates.completed"} \subseteq review[w].rows
                      /\ Row(w) \in rows /\ file[path[w]] = [by |-> w, whole |-> TRUE]
                      /\ review[w].result.status = "awaiting_approval"
                           <=> {"approval", "approval.requested"} \subseteq review[w].rows
                      /\ review[w].result.status = "fail" <=> "result.completed" \in review[w].rows
    BY DEF ReviewWhole
  <2>1. Row(w) \in rows /\ Complete(review[w])
    BY EmptyPacket DEF ReviewInv, ReviewerInv
  <2>2. file[path[w]] = [by |-> w, whole |-> TRUE]
    BY <2>1 DEF ReviewInv, FilesInv, RowHasFile, Row
  <2> QED
    BY <2>1, <2>2 DEF Complete
<1> QED
  BY <1>1, InitReviewInv, NextReviewInv, PTL DEF ReviewSpec

\* "Obvious unsupported health claims fail.  Unresolved healthcare claims
\* require human review": no approval is asked for the first, and the second are
\* marked and routed, whatever else the text has.
THEOREM ClaimsStopped == ReviewSpec => []ClaimsNeverPass
<1>1. Honest(NoPacket)
  BY DEF Honest, NoPacket, NoInput
<1>2. ReviewInv => ClaimsNeverPass
  <2> SUFFICES ASSUME ReviewInv, NEW w \in Reviewers
               PROVE  Honest(review[w])
    BY DEF ClaimsNeverPass, Honest
  <2>1. CASE review[w] = NoPacket
    BY <1>1, <2>1
  <2>2. CASE review[w] # NoPacket
    BY <2>2 DEF ReviewInv, ReviewerInv, Complete
  <2> QED
    BY <2>1, <2>2
<1> QED
  BY <1>2, InitReviewInv, NextReviewInv, PTL DEF ReviewSpec
=============================================================================
