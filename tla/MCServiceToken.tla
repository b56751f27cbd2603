--------------------------- MODULE MCServiceToken ---------------------------
(* ServiceToken on small instances: three requests and a clock of a few      *)
(* ticks, so that a request finds a cached token after another has failed.   *)
EXTENDS ServiceToken
=============================================================================
