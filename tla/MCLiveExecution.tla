-------------------------- MODULE MCLiveExecution --------------------------
(* LiveExecution on small instances.                                       *)
EXTENDS LiveExecution

(* The operator opened the gate first and leaves the configuration alone.  *)
OpenNext ==
  \/ Ledger /\ (config.gate => UNCHANGED config)
  \/ \E r \in Runs : Dispatcher(r)
  \/ \E r \in Runs, i \in Copies : Bridge(r, i)
OpenSpec == LiveInit /\ [][OpenNext]_allVars
OpenLiveSpec == OpenSpec /\ LiveFairness

============================================================================
