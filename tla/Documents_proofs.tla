-------------------------- MODULE Documents_proofs --------------------------
(***************************************************************************)
(* Proofs about the editable documents: an edit is only lost to an edit    *)
(* that overlaps it or sets the same field, for any number of editors,     *)
(* documents, fields and servers.  The editors take no step of a server,   *)
(* so that all that is proved of the seed holds beside them.               *)
(***************************************************************************)
EXTENDS Documents, Seed_proofs

Edits == [at: {"idle", "editing", "done", "refused", "lost"},
          server: Servers \cup {NoServer}, doc: Docs \cup {NoDocument},
          fields: SUBSET Fields, base: Documents, seen: Nat]

Types ==
    /\ doc \in [Docs -> Documents \cup {NoDocument}]
    /\ edit \in [Editors -> Edits]
    /\ log \in Seq(LogEntries)

\* A document of the plan that exists is one that a server has inserted.
SeededIsStored ==
    \A d \in Docs : \A i \in DOMAIN Plan :
        doc[d] # NoDocument /\ Plan[i] = d => d \in stored

\* What has been or is being edited exists.
EditedExists ==
    /\ \A i \in DOMAIN log : doc[log[i].doc] # NoDocument
    /\ \A e \in Editors : edit[e].at = "editing" =>
          edit[e].doc \in Docs /\ doc[edit[e].doc] # NoDocument

\* The copy an editor holds has lost nothing of what was committed when it read,
\* except to what was committed before it read.
BaseUpToDate(e) ==
    /\ edit[e].seen <= Len(log)
    /\ \A i \in 1..edit[e].seen : \A f \in log[i].fields :
          log[i].doc = edit[e].doc =>
             \/ edit[e].base[f] = log[i].by
             \/ \E j \in DOMAIN log : Overwrites(j, i, f)

IInv ==
    /\ SeedInv
    /\ Types
    /\ SeededIsStored
    /\ EditedExists
    /\ \A e \in Editors : edit[e].at = "editing" => BaseUpToDate(e)
    /\ OnlyOverlapLoses

----------------------------------------------------------------------------

\* An editor takes no step of the seed, and a server that a thread of it edits
\* with takes the steps it takes without.
LEMMA StepOfSeed == [DocNext]_docVars => [Next]_vars
<1> SUFFICES ASSUME [DocNext]_docVars
             PROVE  [Next]_vars
  OBVIOUS
<1>1. ASSUME NEW s \in Servers, SeedCreate(s) \/ SeedStep(s) \/ Ends(s)
      PROVE  Next
  BY <1>1 DEF SeedCreate, SeedStep, Ends, Next, Run
<1>2. ASSUME NEW s \in Servers, NEW d \in Docs, Add(s, d)
      PROVE  UNCHANGED vars
  BY <1>2 DEF Add
<1>3. ASSUME NEW e \in Editors,
             \/ \E s \in Servers, d \in Docs, F \in SUBSET Fields : EditRead(e, s, d, F)
             \/ EditWrite(e) \/ EditFails(e)
      PROVE  UNCHANGED vars
  BY <1>3 DEF EditRead, EditWrite, EditFails
<1>4. UNCHANGED docVars => UNCHANGED vars
  BY DEF docVars
<1> HIDE DEF vars
<1> QED
  BY <1>1, <1>2, <1>3, <1>4 DEF DocNext

LEMMA InitOfSeed == DocInit => Init
  BY DEF DocInit

\* The documents and their editors leave the seed as it is: every behaviour of
\* the servers among threads that edit is one of the servers alone.
THEOREM DocumentsImplementSeed == DocSpec => Spec
  BY InitOfSeed, StepOfSeed, PTL DEF DocSpec, Spec

\* What is stored stays.
LEMMA StoredStays ==
  ASSUME [Next]_vars
  PROVE  stored \subseteq stored'
<1>1. ASSUME NEW s \in Servers, Run(s)
      PROVE  stored \subseteq stored'
  BY <1>1 DEF Run, Start, CheckFound, CheckMissing, Create, CreateFails
<1>2. ASSUME NEW s \in Servers, Crash(s) \/ Stop(s)
      PROVE  stored \subseteq stored'
  BY <1>2 DEF Crash, Stop
<1>3. CASE UNCHANGED vars
  BY <1>3 DEF vars
<1> QED
  BY <1>1, <1>2, <1>3 DEF Next

LEMMA SeedKept ==
  ASSUME IInv, [DocNext]_docVars
  PROVE  SeedInv' /\ stored \subseteq stored'
  BY StepOfSeed, NextSeedInv, StoredStays DEF IInv

LEMMA InitIInv == DocInit => IInv
<1> SUFFICES ASSUME DocInit
             PROVE  IInv
  OBVIOUS
<1>1. Created \in Documents
  BY DEF Created, Documents
<1>2. NoEdit \in Edits
  BY <1>1 DEF NoEdit, Edits
<1>3. Types
  BY <1>2 DEF DocInit, Types
<1>4. log = <<>> /\ \A e \in Editors : edit[e].at = "idle"
  BY DEF DocInit, NoEdit
<1>5. SeedInv /\ SeededIsStored
  BY InitSeedInv DEF DocInit, SeededIsStored
<1>6. EditedExists /\ OnlyOverlapLoses
  BY <1>4 DEF EditedExists, OnlyOverlapLoses
<1> QED
  BY <1>3, <1>4, <1>5, <1>6 DEF IInv

\* A document appears where there was none: nothing that was edited is touched.
LEMMA NewDocument ==
  ASSUME IInv, NEW d \in Docs, doc[d] = NoDocument,
         doc' = [doc EXCEPT ![d] = Created], UNCHANGED <<edit, log>>,
         SeedInv', stored \subseteq stored',
         \A i \in DOMAIN Plan : Plan[i] = d => d \in stored'
  PROVE  IInv'
<1>1. Types'
  BY DEF IInv, Types, Created, Documents
<1>2. \A c \in Docs \ {d} : doc'[c] = doc[c]
  BY DEF IInv, Types
<1>3. SeededIsStored'
  BY <1>2 DEF IInv, SeededIsStored
<1>4. \A i \in DOMAIN log : log[i].doc \in Docs \ {d}
  <2>1. \A i \in DOMAIN log : log[i] \in LogEntries
    BY DEF IInv, Types
  <2>2. \A i \in DOMAIN log : doc[log[i].doc] # NoDocument
    BY DEF IInv, EditedExists
  <2> QED
    BY <2>1, <2>2 DEF LogEntries
<1>5. \A e \in Editors : edit[e].at = "editing" => edit[e].doc \in Docs \ {d}
  BY DEF IInv, EditedExists
<1>6. EditedExists'
  BY <1>2, <1>4, <1>5 DEF IInv, EditedExists
<1>7. OnlyOverlapLoses'
  BY <1>2, <1>4 DEF IInv, OnlyOverlapLoses, Overwrites
<1>8. \A e \in Editors : edit'[e].at = "editing" => BaseUpToDate(e)'
  BY DEF IInv, BaseUpToDate, Overwrites
<1> QED
  BY <1>1, <1>3, <1>6, <1>7, <1>8 DEF IInv

\* No document changes, and every thread that edits was editing.
LEMMA DocumentsUnchanged ==
  ASSUME IInv, UNCHANGED <<doc, log>>,
         edit' \in [Editors -> Edits],
         \A e \in Editors : edit'[e].at = "editing" => edit'[e] = edit[e],
         SeedInv', stored \subseteq stored'
  PROVE  IInv'
<1>1. Types' /\ SeededIsStored' /\ EditedExists'
  BY DEF IInv, Types, SeededIsStored, EditedExists
<1>2. OnlyOverlapLoses'
  BY DEF IInv, OnlyOverlapLoses, Overwrites
<1>3. \A e \in Editors : edit'[e].at = "editing" => BaseUpToDate(e)'
  BY DEF IInv, BaseUpToDate, Overwrites
<1> QED
  BY <1>1, <1>2, <1>3 DEF IInv

\* A server inserts a document only where it finds none.
LEMMA SeedIInv ==
  ASSUME IInv, NEW s \in Servers, SeedCreate(s)
  PROVE  IInv'
<1>1. SeedInv' /\ stored \subseteq stored'
  BY SeedKept DEF DocNext
<1>2. CASE Plan[at[s]] \in Docs
  <2> DEFINE d == Plan[at[s]]
  <2>1. at[s] \in DOMAIN Plan /\ CanInsert(d) /\ stored' = stored \cup {d}
    BY DEF SeedCreate, Create, IInv, SeedInv, AtInPlan
  <2>2. ~IsEvent(d)
    <3>1. DraftEvents[1] = Draft[3] /\ DraftEvents[2] = Draft[5]
      BY DEF DraftEvents, Draft
    <3>2. 3 \in DOMAIN Draft /\ 5 \in DOMAIN Draft /\ DOMAIN DraftEvents = {1, 2}
      BY DEF DraftEvents, Draft
    <3> QED
      BY <1>2, <3>1, <3>2, DocsAssumption DEF IsEvent
  <2>3. doc[d] = NoDocument
    BY <1>2, <2>1, <2>2 DEF CanInsert, IInv, SeededIsStored
  <2>4. doc' = [doc EXCEPT ![d] = Created] /\ UNCHANGED <<edit, log>>
    BY <1>2 DEF SeedCreate
  <2> HIDE DEF d
  <2> QED
    BY <1>1, <1>2, <2>1, <2>3, <2>4, NewDocument DEF d
<1>3. CASE Plan[at[s]] \notin Docs
  <2>1. UNCHANGED <<doc, edit, log>> /\ edit \in [Editors -> Edits]
    BY <1>3 DEF SeedCreate, IInv, Types
  <2> QED
    BY <1>1, <2>1, DocumentsUnchanged
<1> QED
  BY <1>2, <1>3

\* An edit begins with what the store says now.
LEMMA ReadIInv ==
  ASSUME IInv, NEW e \in Editors, NEW s \in Servers, NEW d \in Docs,
         NEW F \in SUBSET Fields, EditRead(e, s, d, F)
  PROVE  IInv'
<1>1. SeedInv' /\ stored \subseteq stored'
  BY SeedKept DEF DocNext
<1>2. UNCHANGED <<doc, log, stored>>
  BY DEF EditRead, vars
<1>3. NoEdit \in Edits /\ Created \in Documents
  BY DEF NoEdit, Edits, Created, Documents
<1>4. CASE doc[d] = NoDocument \/ (d \in Contexts /\ F = {})
  <2>1. edit' = [edit EXCEPT ![e] = [NoEdit EXCEPT !.at = "refused"]]
    BY <1>4 DEF EditRead
  <2>2. [NoEdit EXCEPT !.at = "refused"] \in Edits
    BY <1>3 DEF Edits, NoEdit
  <2>3. edit' \in [Editors -> Edits]
    BY <2>1, <2>2 DEF IInv, Types
  <2>4. \A x \in Editors : edit'[x].at = "editing" => edit'[x] = edit[x]
    BY <2>1 DEF IInv, Types, NoEdit
  <2> QED
    BY <1>1, <1>2, <2>3, <2>4, DocumentsUnchanged
<1>5. CASE doc[d] # NoDocument /\ ~(d \in Contexts /\ F = {})
  <2> DEFINE new == [at |-> "editing", server |-> s, doc |-> d, fields |-> F,
                     base |-> doc[d], seen |-> Len(log)]
  <2>1. edit' = [edit EXCEPT ![e] = new]
    BY <1>5 DEF EditRead, Base
  <2>2. new \in Edits
    BY <1>5 DEF Edits, IInv, Types
  <2>3. edit' \in [Editors -> Edits] /\ edit'[e] = new
    BY <2>1, <2>2 DEF IInv, Types
  <2>4. \A x \in Editors \ {e} : edit'[x] = edit[x]
    BY <2>1 DEF IInv, Types
  <2>5. Types' /\ SeededIsStored' /\ EditedExists'
    <3>1. Types'
      BY <1>1, <1>2, <2>3 DEF IInv, Types
    <3>2. SeededIsStored'
      BY <1>2 DEF IInv, SeededIsStored
    <3>3. EditedExists'
      BY <1>2, <1>5, <2>3, <2>4 DEF IInv, EditedExists
    <3> QED
      BY <3>1, <3>2, <3>3
  <2>6. OnlyOverlapLoses'
    BY <1>2 DEF IInv, OnlyOverlapLoses, Overwrites
  <2>7. BaseUpToDate(e)'
    <3>1. Len(log) \in Nat /\ DOMAIN log = 1..Len(log)
      BY DEF IInv, Types
    <3> QED
      BY <1>2, <2>3, <3>1 DEF IInv, OnlyOverlapLoses, BaseUpToDate, Overwrites
  <2>8. \A x \in Editors \ {e} : edit'[x].at = "editing" => BaseUpToDate(x)'
    BY <1>2, <2>4 DEF IInv, BaseUpToDate, Overwrites
  <2> QED
    BY <1>1, <2>5, <2>6, <2>7, <2>8 DEF IInv
<1> QED
  BY <1>4, <1>5

\* A write adds itself to the log: what it takes back was committed after it
\* read, or is of a field it sets.
LEMMA WriteIInv ==
  ASSUME IInv, NEW e \in Editors, EditWrite(e)
  PROVE  IInv'
<1> DEFINE d == edit[e].doc
           n == Len(log) + 1
           entry == [by |-> e, doc |-> d, fields |-> edit[e].fields, seen |-> edit[e].seen]
           new == [f \in Fields |-> IF f \in edit[e].fields THEN e ELSE edit[e].base[f]]
<1>1. SeedInv' /\ stored \subseteq stored'
  BY SeedKept DEF DocNext
<1>2. edit[e] \in Edits /\ edit[e].at = "editing" /\ d \in Docs /\ BaseUpToDate(e)
  BY DEF EditWrite, IInv, Types, EditedExists
<1>3. entry \in LogEntries /\ new \in Documents
  BY <1>2 DEF LogEntries, Edits, Documents
<1>4. /\ doc' = [doc EXCEPT ![d] = new] /\ log' = Append(log, entry)
      /\ edit' = [edit EXCEPT ![e].at = "done"] /\ stored' = stored
  BY DEF EditWrite, vars
<1>5. /\ log' \in Seq(LogEntries) /\ Len(log) \in Nat /\ Len(log') = n
      /\ DOMAIN log = 1..Len(log) /\ DOMAIN log' = 1..n
      /\ log'[n] = entry /\ \A i \in DOMAIN log : log'[i] = log[i] /\ log[i] \in LogEntries
  BY <1>3, <1>4 DEF IInv, Types
<1>6. doc'[d] = new /\ new # NoDocument /\ \A c \in Docs \ {d} : doc'[c] = doc[c]
  BY <1>2, <1>3, <1>4, DistinctAssumption DEF IInv, Types
<1>7. /\ edit' \in [Editors -> Edits] /\ edit'[e].at = "done"
      /\ \A x \in Editors \ {e} : edit'[x] = edit[x]
  BY <1>4 DEF IInv, Types, Edits
<1> HIDE DEF entry, new
<1>8. Types'
  BY <1>1, <1>2, <1>3, <1>4, <1>5, <1>7 DEF IInv, Types
<1>9. SeededIsStored'
  <2>1. doc[d] # NoDocument
    BY <1>2 DEF IInv, EditedExists
  <2> QED
    BY <1>4, <1>6, <2>1 DEF IInv, SeededIsStored
<1>10. EditedExists'
  <2>1. \A i \in DOMAIN log' : doc'[log'[i].doc] # NoDocument
    <3>1. log'[n].doc = d
      BY <1>5 DEF entry
    <3>2. \A i \in DOMAIN log : log[i].doc \in Docs /\ doc[log[i].doc] # NoDocument
      BY <1>5 DEF IInv, EditedExists, LogEntries
    <3> QED
      BY <1>2, <1>5, <1>6, <3>1, <3>2
  <2> QED
    BY <1>6, <1>7, <2>1 DEF IInv, EditedExists
<1>11. ASSUME NEW i \in DOMAIN log, NEW j \in DOMAIN log, NEW f, Overwrites(j, i, f)
       PROVE  Overwrites(j, i, f)'
  BY <1>5, <1>11 DEF Overwrites
<1>12. OnlyOverlapLoses'
  <2> SUFFICES ASSUME NEW i \in DOMAIN log', NEW f \in log'[i].fields
               PROVE  \/ doc'[log'[i].doc][f] = log'[i].by
                      \/ \E j \in DOMAIN log' : Overwrites(j, i, f)'
    BY DEF OnlyOverlapLoses
  <2>1. CASE i = n
    BY <1>2, <1>5, <1>6, <2>1 DEF entry, new, Edits
  <2>2. CASE i \in DOMAIN log /\ log[i].doc # d
    <3>1. log'[i] = log[i] /\ log[i].doc \in Docs /\ doc'[log[i].doc] = doc[log[i].doc]
      BY <1>5, <1>6, <2>2 DEF LogEntries
    <3>2. \/ doc[log[i].doc][f] = log[i].by
          \/ \E j \in DOMAIN log : Overwrites(j, i, f)
      BY <2>2, <3>1 DEF IInv, OnlyOverlapLoses
    <3> QED
      BY <1>5, <1>11, <2>2, <3>1, <3>2
  <2>3. CASE i \in DOMAIN log /\ log[i].doc = d
    <3>1. log'[i] = log[i] /\ log[i].fields \subseteq Fields /\ n > i /\ n \in DOMAIN log'
      BY <1>5, <2>3 DEF LogEntries
    <3>2. CASE f \in edit[e].fields \/ edit[e].seen < i
      <4>1. n > i /\ log'[n].doc = log'[i].doc
        BY <1>5, <2>3, <3>1 DEF entry
      <4>2. f \in log'[n].fields \/ log'[n].seen < i
        BY <1>5, <3>2 DEF entry
      <4> HIDE DEF n, d
      <4> QED
        BY <3>1, <4>1, <4>2 DEF Overwrites
    <3>3. CASE f \notin edit[e].fields /\ i <= edit[e].seen
      <4>1. i \in 1..edit[e].seen
        BY <1>2, <1>5, <2>3, <3>3 DEF Edits
      <4>2. edit[e].base[f] = log[i].by \/ \E j \in DOMAIN log : Overwrites(j, i, f)
        BY <1>2, <2>3, <3>1, <4>1 DEF BaseUpToDate
      <4>3. new[f] = edit[e].base[f]
        BY <3>1, <3>3 DEF new
      <4> QED
        BY <1>5, <1>6, <1>11, <2>3, <3>1, <4>2, <4>3
    <3>4. edit[e].seen \in Nat /\ i \in Nat
      BY <1>2, <1>5, <2>3 DEF Edits
    <3> QED
      BY <3>2, <3>3, <3>4
  <2> QED
    BY <1>5, <2>1, <2>2, <2>3
<1>13. ASSUME NEW x \in Editors, edit'[x].at = "editing"
       PROVE  BaseUpToDate(x)'
  <2>1. x # e /\ edit'[x] = edit[x] /\ BaseUpToDate(x) /\ edit[x].seen \in Nat
    BY <1>7, <1>13 DEF IInv, Types, Edits
  <2>2. edit'[x].seen <= Len(log')
    BY <1>5, <2>1 DEF BaseUpToDate
  <2>3. \A i \in 1..edit[x].seen : i \in DOMAIN log
    BY <1>5, <2>1 DEF BaseUpToDate
  <2> QED
    BY <1>5, <1>11, <2>1, <2>2, <2>3 DEF BaseUpToDate
<1> QED
  BY <1>1, <1>8, <1>9, <1>10, <1>12, <1>13 DEF IInv

LEMMA NextIInv == IInv /\ [DocNext]_docVars => IInv'
<1> SUFFICES ASSUME IInv, [DocNext]_docVars
             PROVE  IInv'
  OBVIOUS
<1>1. ASSUME NEW s \in Servers, SeedStep(s)
      PROVE  IInv'
  <2>1. SeedInv' /\ stored \subseteq stored'
    BY SeedKept DEF DocNext
  <2>2. UNCHANGED <<doc, edit, log>> /\ edit \in [Editors -> Edits]
    BY <1>1 DEF SeedStep, IInv, Types
  <2> QED
    BY <2>1, <2>2, DocumentsUnchanged
<1>2. ASSUME NEW s \in Servers, Ends(s)
      PROVE  IInv'
  <2>1. SeedInv' /\ stored \subseteq stored'
    BY SeedKept DEF DocNext
  <2>2. UNCHANGED <<doc, log>>
    BY <1>2 DEF Ends
  <2>3. \A e \in Editors : [edit[e] EXCEPT !.at = "lost"] \in Edits /\ edit[e] \in Edits
    BY DEF IInv, Types, Edits
  <2>4. /\ edit' \in [Editors -> Edits]
        /\ \A e \in Editors : edit'[e].at = "editing" => edit'[e] = edit[e]
    BY <1>2, <2>3 DEF Ends, Edits
  <2> QED
    BY <2>1, <2>2, <2>4, DocumentsUnchanged
<1>3. ASSUME NEW s \in Servers, NEW d \in Docs, Add(s, d)
      PROVE  IInv'
  <2>1. UNCHANGED vars
    BY <1>3 DEF Add
  <2> QED
    BY <1>3, <2>1, SeedKept, NewDocument DEF Add, vars, DocNext
<1>4. ASSUME NEW e \in Editors, EditFails(e)
      PROVE  IInv'
  <2>1. UNCHANGED vars /\ UNCHANGED <<doc, log>>
    BY <1>4 DEF EditFails
  <2>2. /\ edit' \in [Editors -> Edits]
        /\ \A x \in Editors : edit'[x].at = "editing" => edit'[x] = edit[x]
    BY <1>4 DEF EditFails, IInv, Types, Edits
  <2> QED
    BY <2>1, <2>2, SeedKept, DocumentsUnchanged DEF DocNext
<1>5. CASE UNCHANGED docVars
  <2>1. UNCHANGED vars /\ UNCHANGED <<doc, edit, log>> /\ edit \in [Editors -> Edits]
    BY <1>5 DEF docVars, IInv, Types
  <2> QED
    BY <2>1, SeedKept, DocumentsUnchanged
<1> QED
  BY <1>1, <1>2, <1>3, <1>4, <1>5, SeedIInv, ReadIInv, WriteIInv DEF DocNext

\* An edit is lost only to a later edit of the same field or to one that
\* overlaps it: for any number of editors, fields, documents and servers.
THEOREM LostOnlyToOverlap == DocSpec => []OnlyOverlapLoses
<1>1. IInv => OnlyOverlapLoses
  BY DEF IInv
<1> QED
  BY <1>1, InitIInv, NextIInv, PTL DEF DocSpec

\* Starting a server, even twice at the same time, never changes a document
\* that exists.
THEOREM StartsTouchNoDocument == DocSpec => EditsSurviveStart
<1> DEFINE Kept == \A d \in Docs : doc[d] # NoDocument /\ doc'[d] # doc[d] =>
              \E e \in Editors : edit[e].doc = d /\ edit[e].at = "editing" /\ edit'[e].at = "done"
<1>1. IInv /\ [DocNext]_docVars => [Kept]_docVars
  <2> SUFFICES ASSUME IInv, DocNext
               PROVE  Kept
    OBVIOUS
  <2>1. ASSUME NEW s \in Servers, SeedCreate(s)
        PROVE  Kept
    <3>1. CASE Plan[at[s]] \in Docs
      <4>1. at[s] \in DOMAIN Plan /\ CanInsert(Plan[at[s]])
        BY <2>1 DEF SeedCreate, Create, IInv, SeedInv, AtInPlan
      <4>2. ~IsEvent(Plan[at[s]])
        <5>1. DraftEvents[1] = Draft[3] /\ DraftEvents[2] = Draft[5]
          BY DEF DraftEvents, Draft
        <5>2. 3 \in DOMAIN Draft /\ 5 \in DOMAIN Draft /\ DOMAIN DraftEvents = {1, 2}
          BY DEF DraftEvents, Draft
        <5> QED
          BY <3>1, <5>1, <5>2, DocsAssumption DEF IsEvent
      <4>3. doc[Plan[at[s]]] = NoDocument
        BY <3>1, <4>1, <4>2 DEF CanInsert, IInv, SeededIsStored
      <4> QED
        BY <2>1, <3>1, <4>3 DEF SeedCreate, IInv, Types
    <3> QED
      BY <2>1, <3>1 DEF SeedCreate
  <2>2. ASSUME NEW s \in Servers, NEW d \in Docs, Add(s, d)
        PROVE  Kept
    BY <2>2 DEF Add, IInv, Types
  <2>3. ASSUME NEW e \in Editors, EditWrite(e)
        PROVE  Kept
    BY <2>3 DEF EditWrite, IInv, Types, Edits
  <2>4. ASSUME UNCHANGED doc
        PROVE  Kept
    BY <2>4
  <2>5. ASSUME NEW s \in Servers, SeedStep(s) \/ Ends(s)
        PROVE  UNCHANGED doc
    BY <2>5 DEF SeedStep, Ends
  <2>6. ASSUME NEW e \in Editors,
               EditFails(e) \/ \E s \in Servers, d \in Docs, F \in SUBSET Fields : EditRead(e, s, d, F)
        PROVE  UNCHANGED doc
    BY <2>6 DEF EditFails, EditRead
  <2> HIDE DEF Kept
  <2> QED
    BY <2>1, <2>2, <2>3, <2>4, <2>5, <2>6 DEF DocNext
<1> QED
  BY <1>1, InitIInv, NextIInv, PTL DEF DocSpec, EditsSurviveStart

\* What is proved of the servers alone holds beside the editors: nothing is
\* seeded twice, a draft that shows is whole, a start fails only after an
\* interruption or an overlap, and one that finds everything changes nothing.
THEOREM SeededBesideEditors ==
  DocSpec => /\ []EventsSeededOnce /\ []DraftWhole /\ []FailsOnlyIfDisturbed
             /\ RerunChangesNothing
  BY DocumentsImplementSeed, SeededOnce, VisibleDraftWhole, FailsOnlyDisturbed, SeededStaysSeeded

\* What a thread that edits holds is a document it read and a point of the log,
\* wherever the servers are in the plan.
THEOREM DocTypesKept == DocSpec => []DocTypeOK
<1>1. IInv /\ TypeOK => DocTypeOK
  <2> SUFFICES ASSUME IInv, TypeOK
               PROVE  DocTypeOK
    OBVIOUS
  <2>1. ASSUME NEW e \in Editors, edit[e].at = "editing"
        PROVE  /\ edit[e].doc \in Docs /\ edit[e].fields \subseteq Fields
               /\ edit[e].base \in Documents /\ edit[e].seen \in 0..Len(log)
    <3>1. edit[e] \in Edits /\ Len(log) \in Nat
      BY DEF IInv, Types
    <3>2. edit[e].doc \in Docs /\ edit[e].seen <= Len(log)
      BY <2>1 DEF IInv, EditedExists, BaseUpToDate
    <3> QED
      BY <3>1, <3>2 DEF Edits
  <2> QED
    BY <2>1 DEF DocTypeOK, IInv, Types
<1>2. DocSpec => []TypeOK
  BY DocumentsImplementSeed, SeedTypesKept
<1> QED
  BY <1>1, <1>2, InitIInv, NextIInv, PTL DEF DocSpec
=============================================================================
