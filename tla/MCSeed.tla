------------------------------ MODULE MCSeed ------------------------------
(* TLC instance of the startup seed alone. *)
EXTENDS Seed, TLC

TwoProjects == <<"project-clay-brand-system", "project-clay-image-system">>

============================================================================
