----------------------------- MODULE MCDemoRun -----------------------------
(* TLC instances: one or two demo runs against one Hermes. *)
EXTENDS DemoRun
============================================================================
