-------------------------- MODULE MCFrontendSignIn --------------------------
(* FrontendSignIn on small instances.                                        *)
EXTENDS FrontendSignIn
==============================================================================
