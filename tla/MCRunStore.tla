----------------------------- MODULE MCRunStore -----------------------------
(* RunStore on a small instance: the values are in the configuration.      *)
EXTENDS RunStore

=============================================================================
