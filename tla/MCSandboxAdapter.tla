-------------------------- MODULE MCSandboxAdapter --------------------------
(* SandboxAdapter on small instances: the bounds are in the configurations. *)
EXTENDS SandboxAdapter

EveryEnd == {<<"SUCCESS", 0>>, <<"FAILED", 1>>, <<"TIMEOUT", None>>}
=============================================================================
