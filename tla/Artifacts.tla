----------------------------- MODULE Artifacts -----------------------------
(***************************************************************************)
(* Immutable artifact files and their rows: ArtifactStore.write_bytes      *)
(* (artifacts.py) and record_artifact (store.py), called by workflows that *)
(* hold a transaction (the demo run, the copy review) and by the two       *)
(* imports that do not (image_import.py): import_bytes of a request's      *)
(* image, which is a run of its own, and import_generated of a provider's, *)
(* which belongs to the run that called the provider.                      *)
(*                                                                         *)
(* A file is written under a temporary name, linked to its final name,     *)
(* which must be free, and only then entered in the artifacts table.  The  *)
(* directory is outside the database: a rollback or a crash takes the row  *)
(* back and not the file.  Processes crash here, the machine does not: the *)
(* fsync calls have no effect in this model.                               *)
(***************************************************************************)
EXTENDS Naturals, FiniteSets

CONSTANTS
    Writers,     \* threads that write artifacts, each with its own bytes
    InTx,        \* the writers that hold a transaction around their writes
    Importers,   \* the calls of import_bytes; the rest are of import_generated
    Paths,       \* relative paths
    NoPath, NoWriter

ASSUME WritersAssumption ==
    InTx \subseteq Writers /\ Importers \subseteq Writers /\ InTx \cap Importers = {}
ASSUME NoneAssumption == NoPath \notin Paths /\ NoWriter \notin Writers

VARIABLES
    temp,      \* temp[w]: w's temporary file: absent, partial or whole
    file,      \* file[p]: what is at the final name: whose bytes, and whole?
    rows,      \* committed rows of the artifacts table: path and digest
    assets,    \* committed rows of the creative_assets table: the same
    recorded,  \* recorded[w]: what import_bytes committed of its task, run and events
    pending,   \* pending[w]: rows of w's open transaction
    lock,      \* the database's writer lock
    path,      \* path[w]: the final name w is writing
    pc

vars == <<temp, file, rows, assets, recorded, pending, lock, path, pc>>

\* The SHA-256 digest of w's bytes stands for them: it is w.
Nothing   == [by |-> NoWriter, whole |-> FALSE]
\* Mutant: the row gets the temporary name, not the final one.
Row_TempName(w) == [path |-> NoPath, sha256 |-> w]

Row(w)    == [path |-> path[w], sha256 |-> w]
Taken(p, R) == \E r \in R : r.path = p

Goto(w, label) == pc' = [pc EXCEPT ![w] = label]

----------------------------------------------------------------------------
\* with store.transaction(): BEGIN IMMEDIATE
BeginTransaction(w) ==
    /\ pc[w] = "idle" /\ w \in InTx
    /\ lock = NoWriter
    /\ lock' = w
    /\ Goto(w, "open")
    /\ UNCHANGED <<temp, file, rows, pending, path, assets, recorded>>

\* Mutant: the file is linked before its bytes are written.
CreateTemp_LinkFirst(w, p) ==
    /\ pc[w] = IF w \in InTx \cup Importers THEN "open" ELSE "idle"
    /\ path' = [path EXCEPT ![w] = p]
    /\ temp' = [temp EXCEPT ![w] = "partial"]
    /\ Goto(w, "link")
    /\ UNCHANGED <<file, rows, pending, lock, assets, recorded>>

\* O_CREAT | O_EXCL under a fresh name: the file exists and is being written.
CreateTemp(w, p) ==
    /\ pc[w] = IF w \in InTx \cup Importers THEN "open" ELSE "idle"
    /\ path' = [path EXCEPT ![w] = p]
    /\ temp' = [temp EXCEPT ![w] = "partial"]
    /\ Goto(w, "write")
    /\ UNCHANGED <<file, rows, pending, lock, assets, recorded>>

WriteTemp(w) ==
    /\ pc[w] = "write"
    /\ temp' = [temp EXCEPT ![w] = "whole"]
    /\ Goto(w, "link")
    /\ UNCHANGED <<file, rows, pending, lock, path, assets, recorded>>

\* os.write or os.fsync raises: the temporary file stays.
WriteFails(w) ==
    /\ pc[w] = "write"
    /\ Goto(w, "raised")
    /\ UNCHANGED <<temp, file, rows, pending, lock, path, assets, recorded>>

\* Mutant: os.replace instead of os.link.
CanLink_Always(p) == TRUE

\* os.link fails if the final name exists.
CanLink(p) == file[p] = Nothing

Link(w) ==
    /\ pc[w] = "link"
    /\ CanLink(path[w])
    /\ file' = [file EXCEPT ![path[w]] = [by |-> w, whole |-> temp[w] = "whole"]]
    /\ Goto(w, "unlink_temp")
    /\ UNCHANGED <<temp, rows, pending, lock, path, assets, recorded>>

\* FileExistsError, or another error of os.link on a free name; the temporary
\* file is removed, if the file system lets it.
LinkFails(w) ==
    /\ pc[w] = "link"
    /\ \E t \in {"absent", temp[w]} : temp' = [temp EXCEPT ![w] = t]
    /\ Goto(w, "raised")
    /\ UNCHANGED <<file, rows, pending, lock, path, assets, recorded>>

UnlinkTemp(w) ==
    /\ pc[w] = "unlink_temp"
    /\ temp' = [temp EXCEPT ![w] = "absent"]
    /\ Goto(w, "record")
    /\ UNCHANGED <<file, rows, pending, lock, path, assets, recorded>>

\* os.unlink or the fsync of the directory raises after the link: the file
\* stays, without a row.
SyncFails(w) ==
    /\ pc[w] = "unlink_temp"
    /\ \E t \in {"absent", temp[w]} : temp' = [temp EXCEPT ![w] = t]
    /\ Goto(w, IF w \in InTx THEN "raised" ELSE "stray")
    /\ UNCHANGED <<file, rows, pending, lock, path, assets, recorded>>

\* record_artifact: in the transaction, or on its own when the lock is free.
Record(w) ==
    /\ pc[w] = "record"
    /\ ~Taken(path[w], rows \cup pending[w])
    /\ IF w \in InTx
       THEN /\ pending' = [pending EXCEPT ![w] = @ \cup {Row(w)}]
            /\ Goto(w, "open")
            /\ UNCHANGED rows
       ELSE /\ lock = NoWriter
            /\ rows' = rows \cup {Row(w)}
            /\ Goto(w, "asset")
            /\ UNCHANGED pending
    /\ UNCHANGED <<temp, file, lock, path, assets, recorded>>

\* Mutant: the exception of the INSERT is swallowed.
RecordFails_Swallowed(w) ==
    /\ pc[w] = "record"
    /\ w \in InTx \/ lock # NoWriter \/ Taken(path[w], rows)
    /\ Goto(w, IF w \in InTx THEN "open" ELSE "asset")
    /\ UNCHANGED <<temp, file, rows, pending, lock, path, assets, recorded>>

\* Mutant: the file is not removed.
RecordFails_KeepsFile(w) ==
    /\ pc[w] = "record"
    /\ w \in InTx \/ lock # NoWriter \/ Taken(path[w], rows)
    /\ Goto(w, "raised")
    /\ UNCHANGED <<temp, file, rows, pending, lock, path, assets, recorded>>

\* The INSERT raises: the database stayed locked for longer than the busy
\* timeout, or refused the row.
RecordFails(w) ==
    /\ pc[w] = "record"
    /\ w \in InTx \/ lock # NoWriter \/ Taken(path[w], rows)
    /\ Goto(w, "discard")
    /\ UNCHANGED <<temp, file, rows, pending, lock, path, assets, recorded>>

\* _safe_unlink of the file this call created, then the exception goes on.
Discard(w) ==
    /\ pc[w] = "discard"
    /\ file' = [file EXCEPT ![path[w]] = Nothing]
    /\ Goto(w, "raised")
    /\ UNCHANGED <<temp, rows, pending, lock, path, assets, recorded>>

\* _safe_unlink raises: the file stays, without a row.
DiscardFails(w) ==
    /\ pc[w] = "discard"
    /\ Goto(w, IF w \in InTx THEN "raised" ELSE "stray")
    /\ UNCHANGED <<temp, file, rows, pending, lock, path, assets, recorded>>

\* The transaction ends: committed, or rolled back because this or something
\* else in the block raised.  Only the table changes.
CommitTransaction(w) ==
    /\ w \in InTx /\ pc[w] = "open"
    /\ rows' = rows \cup pending[w]
    /\ pending' = [pending EXCEPT ![w] = {}]
    /\ lock' = NoWriter
    /\ Goto(w, "done")
    /\ UNCHANGED <<temp, file, path, assets, recorded>>

RollbackTransaction(w) ==
    /\ w \in InTx /\ pc[w] \in {"open", "raised"}
    /\ pending' = [pending EXCEPT ![w] = {}]
    /\ lock' = NoWriter
    /\ Goto(w, "rolled_back")
    /\ UNCHANGED <<temp, file, rows, path, assets, recorded>>

\* Outside a transaction the exception simply ends the call.
Raise(w) ==
    /\ w \notin InTx /\ pc[w] = "raised"
    /\ Goto(w, "done")
    /\ UNCHANGED <<temp, file, rows, pending, lock, path, assets, recorded>>

----------------------------------------------------------------------------
(* image_import.py, around write_bytes.  What the validation refuses has    *)
(* changed nothing yet.                                                     *)

\* A statement of its own: it commits when the lock is free, and raises when
\* it stays taken.
Commits(w, label, row, next) ==
    /\ pc[w] = label
    /\ IF lock = NoWriter
       THEN /\ recorded' = [recorded EXCEPT ![w] = @ \cup {row}]
            /\ Goto(w, next)
       ELSE /\ Goto(w, "raised")
            /\ UNCHANGED recorded
    /\ UNCHANGED <<temp, file, rows, pending, lock, path, assets>>

ImportTask(w)    == w \in Importers /\ Commits(w, "idle", "task", "import_run")
ImportRun(w)     == Commits(w, "import_run", "run", "import_created")
ImportCreated(w) == Commits(w, "import_created", "run.created", "open")

CreateAsset(w) ==
    /\ pc[w] = "asset"
    /\ lock = NoWriter
    /\ assets' = assets \cup {Row(w)}
    /\ Goto(w, IF w \in Importers THEN "imported" ELSE "done")
    /\ UNCHANGED <<temp, file, rows, pending, lock, path, recorded>>

\* The parent is unknown or of another project, or the database stays locked.
CreateAssetFails(w) ==
    /\ pc[w] = "asset"
    /\ Goto(w, "raised")
    /\ UNCHANGED <<temp, file, rows, pending, lock, path, assets, recorded>>

ImportedEvent(w) == Commits(w, "imported", "image.imported", "done")

----------------------------------------------------------------------------
\* The process dies.
Crash(w) ==
    /\ pc[w] \notin {"idle", "done", "rolled_back", "crashed", "stray"}
    /\ pending' = [pending EXCEPT ![w] = {}]
    /\ lock' = IF lock = w THEN NoWriter ELSE lock
    /\ Goto(w, "crashed")
    /\ UNCHANGED <<temp, file, rows, path, assets, recorded>>

Init ==
    /\ temp = [w \in Writers |-> "absent"]
    /\ file = [p \in Paths |-> Nothing]
    /\ rows = {}
    /\ assets = {}
    /\ recorded = [w \in Writers |-> {}]
    /\ pending = [w \in Writers |-> {}]
    /\ lock = NoWriter
    /\ path = [w \in Writers |-> NoPath]
    /\ pc = [w \in Writers |-> "idle"]

\* The rest of write_bytes, once the temporary file is there.
WriteBytes(w) ==
    \/ WriteTemp(w) \/ WriteFails(w) \/ Link(w) \/ LinkFails(w)
    \/ UnlinkTemp(w) \/ SyncFails(w)
    \/ Record(w) \/ RecordFails(w) \/ Discard(w) \/ DiscardFails(w)

Import(w) ==
    \/ ImportTask(w) \/ ImportRun(w) \/ ImportCreated(w)
    \/ CreateAsset(w) \/ CreateAssetFails(w) \/ ImportedEvent(w) \/ Raise(w)

Write(w) ==
    \/ BeginTransaction(w) \/ CommitTransaction(w) \/ RollbackTransaction(w)
    \/ \E p \in Paths : CreateTemp(w, p)
    \/ WriteBytes(w) \/ Import(w) \/ Crash(w)

Next == \E w \in Writers : Write(w)

Spec == Init /\ [][Next]_vars

----------------------------------------------------------------------------
(* Properties *)

Rows == [path: Paths, sha256: Writers]

Labels == {"idle", "open", "write", "link", "unlink_temp", "record", "discard", "asset",
           "import_run", "import_created", "imported",
           "raised", "done", "rolled_back", "crashed", "stray"}

TypeOK ==
    /\ temp \in [Writers -> {"absent", "partial", "whole"}]
    /\ file \in [Paths -> [by: Writers \cup {NoWriter}, whole: BOOLEAN]]
    /\ rows \subseteq Rows /\ assets \subseteq Rows
    /\ recorded \in [Writers -> SUBSET {"task", "run", "run.created", "image.imported"}]
    /\ pending \in [Writers -> SUBSET Rows]
    /\ lock \in Writers \cup {NoWriter}
    /\ path \in [Writers -> Paths \cup {NoPath}]
    /\ pc \in [Writers -> Labels]

\* An artifact row, committed or about to be, has its file, whole and with the
\* bytes the digest is of, whatever else is written to the same path, fails or
\* crashes.
RowHasFile ==
    \A r \in rows \cup UNION {pending[w] : w \in Writers} :
        file[r.path] = [by |-> r.sha256, whole |-> TRUE]

\* A reader of the directory never finds half a file under a final name, and
\* what it finds there is never replaced by other bytes.
FilesImmutable ==
    [][ \A p \in Paths :
          /\ file'[p] # Nothing => file'[p].whole
          /\ file[p] # Nothing => file'[p] \in {file[p], Nothing} ]_vars

\* The evidence of an import never runs ahead of it: an asset has the artifact
\* row with its path and digest, and the event that completes the run of an
\* import_bytes comes after its task, its run and its asset.
ImportEvidence ==
    /\ assets \subseteq rows
    /\ \A w \in Writers : "image.imported" \in recorded[w] =>
          {"task", "run", "run.created"} \subseteq recorded[w] /\ Row(w) \in assets

\* "Every artifact has a SHA-256 hash", as far as it holds: a file whose writer
\* has returned or raised has the row with its digest, unless a transaction
\* around it was rolled back, the process died, or the file system failed after
\* the link (or refused to remove the file).
StrayOnlyAfterRollback ==
    \A p \in Paths :
        file[p] # Nothing /\ pc[file[p].by] = "done" => Taken(p, rows)

============================================================================
