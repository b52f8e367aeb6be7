------------------------- MODULE MCLiveVerification -------------------------
(* LiveVerification on a small instance: three sandboxes and eleven        *)
(* operations are what one request needs at most.                          *)
EXTENDS LiveVerification

EveryEnd == {<<"SUCCESS", 0>>, <<"FAILED", 1>>, <<"TIMEOUT", None>>}
=============================================================================
