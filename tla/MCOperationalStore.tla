------------------------ MODULE MCOperationalStore ------------------------
(* TLC instance of the operational store and of its refinement. *)
EXTENDS StoreRefinesLedger, TLC

\* Connections, runs and scopes are interchangeable.
StoreSymmetry == Permutations(Conns) \cup Permutations(Runs) \cup Permutations(Scopes)

============================================================================
