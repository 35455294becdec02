---------------------------- MODULE MCOpenShellHold ----------------------------
(* Small logs for OpenShellHold.                                           *)
EXTENDS OpenShellHold

(* Three requests and two denials; the request in the middle is near both. *)
NearCaptured == <<0, 1, 3>>
NearLogged   == <<0, 2>>
NearBlocked  == <<1, NoDenial, 2>>

(* Two requests retried after ten seconds, and a log six seconds behind.   *)
RetryCaptured == <<10, 20>>
RetryLogged   == <<4, 14>>
RetryBlocked  == <<1, 2>>
=============================================================================
