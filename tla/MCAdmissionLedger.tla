------------------------- MODULE MCAdmissionLedger -------------------------
(* AdmissionLedger on small instances.                                     *)
EXTENDS AdmissionLedger, TLC

(* Run ids, tokens and commits are only compared.                          *)
Symmetry == Permutations(Runs) \cup Permutations(Tokens) \cup Permutations(Commits)

(* The operator opened the gate first and leaves the configuration alone,  *)
(* so that the runs spend their states on money and time.                  *)
OpenNext ==
  \/ ~config.gate /\ Configure
  \/ Operate
  \/ ReserveAdmission
  \/ \E r \in Runs : Handler(r)
  \/ Tick
OpenSpec == Init /\ [][OpenNext]_vars

============================================================================
