---------------------- MODULE MCExecutionReadiness ----------------------
(* Two providers, in the order the registry describes them. *)
EXTENDS ExecutionReadiness

TwoProviders == <<"aurora", "borealis">>
=========================================================================
