--------------------------- MODULE MCCredentials ---------------------------
(***************************************************************************)
(* Credentials on small instances.                                         *)
(***************************************************************************)
EXTENDS Credentials

\* A harvested cookie is stale at once, lasts a tick, or outlasts the clock.
MCLifetimes == {0, 1, MaxNow}
=============================================================================
