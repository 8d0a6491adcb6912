------------------------------ MODULE Documents ------------------------------
(***************************************************************************)
(* The editable documents (projects, contexts, assets) and the threads of  *)
(* a serving process that edit them: update_project, update_asset_metadata *)
(* and update_context (store.py), POST /api/assets/.../metadata and        *)
(* POST /api/contexts/... (api.py), beside the servers that seed.          *)
(*                                                                         *)
(* An update reads the document, sets the fields it was sent and writes    *)
(* the whole document back: the read and the UPDATE are two statements,    *)
(* without a transaction, so another edit may come between them.           *)
(***************************************************************************)
EXTENDS Seed, FiniteSets

CONSTANTS
    Docs,        \* the documents; those in the plan of the seed are seeded
    Contexts,    \* the documents that are contexts: an edit must name a field
    Fields,      \* the fields an edit may set
    Editors,     \* request threads, each serving one edit
    NoServer, NoDocument, Template

Documents == [Fields -> Editors \cup {Template}]

ASSUME ContextsAssumption == Contexts \subseteq Docs
\* Projects, contexts and assets are no tasks, runs, events, approvals or requests.
ASSUME DocsAssumption == \A i \in DOMAIN Draft : Draft[i] \notin Docs
ASSUME DistinctAssumption == NoDocument \notin Documents /\ NoServer \notin Servers

VARIABLES
    doc,    \* doc[d]: for each field, who set it last; NoDocument when there is none
    edit,   \* edit[e]: where thread e is, and what it holds in its local variables
    log     \* history: the updates that were committed, in order

docVars == <<vars, doc, edit, log>>

\* A document as it is created: no field has been edited yet.
Created == [f \in Fields |-> Template]

NoEdit == [at |-> "idle", server |-> NoServer, doc |-> NoDocument, fields |-> {},
           base |-> Created, seen |-> 0]

----------------------------------------------------------------------------
(* The server process *)

\* Inserting a record of the plan that is a document creates it.
SeedCreate(s) ==
    /\ Create(s)
    /\ doc' = IF Plan[at[s]] \in Docs THEN [doc EXCEPT ![Plan[at[s]]] = Created] ELSE doc
    /\ UNCHANGED <<edit, log>>

SeedStep(s) ==
    /\ Start(s) \/ CheckFound(s) \/ CheckMissing(s) \/ CreateFails(s)
    /\ UNCHANGED <<doc, edit, log>>

\* The threads of a server end with it; what they hold is lost.
Ends(s) ==
    /\ Crash(s) \/ Stop(s)
    /\ edit' = [e \in Editors |->
         IF edit[e].at = "editing" /\ edit[e].server = s
         THEN [edit[e] EXCEPT !.at = "lost"] ELSE edit[e]]
    /\ UNCHANGED <<doc, log>>

\* POST /api/contexts and the imports insert a document under a new identifier.
Add(s, d) ==
    /\ pc[s] = "ready"
    /\ \A i \in DOMAIN Plan : Plan[i] # d
    /\ doc[d] = NoDocument
    /\ doc' = [doc EXCEPT ![d] = Created]
    /\ UNCHANGED <<vars, edit, log>>

----------------------------------------------------------------------------
(* An edit *)

\* Mutant: the fields that were not sent are those of a new document.
Base_OfNewDocument(d) == Created

\* The document an edit starts from.
Base(d) == doc[d]

\* get_asset, get_context: an unknown document, or no field of a context, is
\* refused.
EditRead(e, s, d, F) ==
    /\ edit[e].at = "idle" /\ pc[s] = "ready"
    /\ edit' = [edit EXCEPT ![e] =
         IF doc[d] = NoDocument \/ (d \in Contexts /\ F = {})
         THEN [NoEdit EXCEPT !.at = "refused"]
         ELSE [at |-> "editing", server |-> s, doc |-> d, fields |-> F,
               base |-> Base(d), seen |-> Len(log)]]
    /\ UNCHANGED <<vars, doc, log>>

\* UPDATE ... SET document
EditWrite(e) ==
    /\ edit[e].at = "editing"
    /\ doc' = [doc EXCEPT ![edit[e].doc] =
         [f \in Fields |-> IF f \in edit[e].fields THEN e ELSE edit[e].base[f]]]
    /\ log' = Append(log, [by |-> e, doc |-> edit[e].doc, fields |-> edit[e].fields,
                           seen |-> edit[e].seen])
    /\ edit' = [edit EXCEPT ![e].at = "done"]
    /\ UNCHANGED vars

\* The UPDATE raises: the database stayed locked.
EditFails(e) ==
    /\ edit[e].at = "editing"
    /\ edit' = [edit EXCEPT ![e].at = "refused"]
    /\ UNCHANGED <<vars, doc, log>>

DocInit ==
    /\ Init
    /\ doc = [d \in Docs |-> NoDocument]
    /\ edit = [e \in Editors |-> NoEdit]
    /\ log = <<>>

DocNext ==
    \/ \E s \in Servers :
          \/ SeedCreate(s) \/ SeedStep(s) \/ Ends(s)
          \/ \E d \in Docs : Add(s, d)
    \/ \E e \in Editors :
          \/ \E s \in Servers, d \in Docs, F \in SUBSET Fields : EditRead(e, s, d, F)
          \/ EditWrite(e) \/ EditFails(e)

DocSpec == DocInit /\ [][DocNext]_docVars

----------------------------------------------------------------------------
(* Properties *)

LogEntries == [by: Editors, doc: Docs, fields: SUBSET Fields, seen: Nat]

DocTypeOK ==
    /\ TypeOK
    /\ doc \in [Docs -> Documents \cup {NoDocument}]
    /\ \A e \in Editors : edit[e].at = "editing" =>
          /\ edit[e].doc \in Docs /\ edit[e].fields \subseteq Fields
          /\ edit[e].base \in Documents /\ edit[e].seen \in 0..Len(log)
    /\ log \in Seq(LogEntries)

\* Update i of the log is behind update j: it set f after j had read.
Overwrites(j, i, f) ==
    /\ j > i /\ log[j].doc = log[i].doc
    /\ f \in log[j].fields \/ log[j].seen < i

\* The only way to lose an edit: each field that a committed update set still
\* has its value, unless a later update set the same field, or wrote back a
\* document it had read before (the read and the write of update_asset_metadata
\* and update_context are not one transaction).  Servers that start, seed and
\* die take nothing away.
OnlyOverlapLoses ==
    \A i \in DOMAIN log : \A f \in log[i].fields :
        \/ doc[log[i].doc][f] = log[i].by
        \/ \E j \in DOMAIN log : Overwrites(j, i, f)

\* A document that exists is changed by an edit of that document and by nothing
\* else: not by a server that seeds again, not even by one that looked the
\* document up before it was there.
EditsSurviveStart ==
    [][ \A d \in Docs : doc[d] # NoDocument /\ doc'[d] # doc[d] =>
          \E e \in Editors : edit[e].doc = d /\ edit[e].at = "editing" /\ edit'[e].at = "done"
      ]_docVars

=============================================================================
