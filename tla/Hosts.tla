-------------------------------- MODULE Hosts --------------------------------
(***************************************************************************)
(* Hosts and host patterns, as the guardrail compares them                 *)
(* (raildash/guardrail.py) and as an OpenShell policy writes them          *)
(* (raildash/openshell_policy.py).                                         *)
(*                                                                         *)
(* A host is the sequence of its labels, as normalize_host leaves it:      *)
(* api.example.com is <<"api", "example", "com">>.  A pattern is a host,   *)
(* or "*" before the labels of one; OpenShell also writes "**" there.      *)
(***************************************************************************)
EXTENDS Naturals, Sequences, SequencesExt

(* normalize_host's None: a request whose Host can't be read.              *)
NoHost == <<>>

Wild(pattern) == Len(pattern) > 1 /\ Head(pattern) = "*"

(* Labels, after the "*." of a wildcard: no star is left in them.          *)
IsHostPattern(pattern) ==
    LET name == IF Wild(pattern) THEN Tail(pattern) ELSE pattern
    IN name # <<>> /\ \A n \in DOMAIN name : name[n] \notin {"*", "**"}

(* host_matches: a wildcard matches what is below its name, at any depth,  *)
(* and never the name itself.                                              *)
HostMatches(host, pattern) ==
    IF Wild(pattern) THEN IsStrictSuffix(Tail(pattern), host)
                     ELSE host = pattern

(* host_allowed: an unknown host never is.                                 *)
HostAllowed(host, patterns) ==
    host # NoHost /\ \E p \in patterns : HostMatches(host, p)

(* pattern_covered: every host the pattern matches is allowed.  A wildcard *)
(* is covered only by one at or above it.                                  *)
PatternCovered(pattern, patterns) ==
    \E p \in patterns :
        IF Wild(pattern) THEN Wild(p) /\ IsSuffix(Tail(p), Tail(pattern))
                         ELSE HostMatches(pattern, p)

(* Hosts OpenShell never authorizes: the sandbox's own loopback.           *)
Loopback(host) == host # NoHost /\ host[Len(host)] \in {"localhost", "127.0.0.1", "::1"}

(* endpoint_host_pattern: an endpoint's host as the guardrail's lists      *)
(* write it; NoHost when it has none, or a star they can't write.          *)
EndpointHostPattern(host) ==
    LET pattern == IF host # NoHost /\ Head(host) = "**" THEN <<"*">> \o Tail(host) ELSE host
    IN IF IsHostPattern(pattern) THEN pattern ELSE NoHost
=============================================================================
