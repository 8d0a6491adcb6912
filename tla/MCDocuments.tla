---------------------------- MODULE MCDocuments ----------------------------
(* TLC instances of the startup seed beside the editors of documents. *)
EXTENDS Documents, TLC

TwoProjects == <<"project-clay-brand-system", "project-clay-image-system">>

\* One document that is seeded and one that is not; the first is a context.
SeededAndAdded == {"context", "asset"}
TheContext     == {"context"}

EditSymmetry ==
    Permutations(Servers) \cup Permutations(Editors) \cup Permutations(Fields)

============================================================================
