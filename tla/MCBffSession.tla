---------------------------- MODULE MCBffSession ----------------------------
(* BffSession on small instances: few browsers and a handful of requests.    *)
EXTENDS BffSession, TLC

Symmetry == Permutations(Requests) \cup Permutations(Browsers)
=============================================================================
