-------------------------- MODULE MCServeBackends --------------------------
(***************************************************************************)
(* Small instances of ServeBackends.  Four traffic types with one backend  *)
(* each are two processes too many for TLC; one type served with Serve and *)
(* one served with ServeTLS are enough to tell them apart.                 *)
(***************************************************************************)
EXTENDS ServeBackends

\* One backend of either kind, started in any order of the types.
TwoTypes == {"edge", "passthrough"}
OneTLSType == {"passthrough"}

\* Two backends of one type, started in order.
OneType == {"reencrypt"}

\* Requests are lost or retried, and processes do not come up or crash.
Delivery == {"interrupt", "transport", "bind", "setup", "crash"}

\* Two ways for the parent to end and two for a backend.
Deaths == {"interrupt", "kill", "signal", "tls"}

NoFaults == {}
=============================================================================
