---------------------------- MODULE PolicyExport ----------------------------
(***************************************************************************)
(* A guardrail version's request rules written as an OpenShell policy      *)
(* (raildash/openshell_policy.py): export_policy, what it takes from the   *)
(* agent's newest policy, and the gaps it reports.                         *)
(*                                                                         *)
(* An endpoint of a policy record has its host, ports, protocol ("rest",   *)
(* "mcp", or "none": plain bytes), addresses it is pinned to, binaries,    *)
(* whether it lets a body through, and, for MCP, the tools its rules name. *)
(***************************************************************************)
EXTENDS RequestRules

CONSTANT EXPORT_PORT   \* where no policy names a port

AllTools == "*"

NotRepresentable(policy) == {e \in UNION policy : EndpointHostPattern(e.host) = NoHost}

(* _host_endpoints: the endpoints a guardrail host takes its ports and     *)
(* binaries from: its own, those that cover it, and those under it.        *)
HostEndpoints(policy, host) ==
    {e \in UNION policy :
        LET p == EndpointHostPattern(e.host)
        IN p # NoHost /\ \/ p = host
                         \/ HostMatches(host, p)
                         \/ Wild(host) /\ HostMatches(IF Wild(p) THEN Tail(p) ELSE p, host)}

Own(endpoints, host) == {e \in endpoints : EndpointHostPattern(e.host) = host}

(* A host's own rules win over a wildcard's that also covers it.           *)
OwnOrAll(endpoints, host) ==
    IF Own(endpoints, host) # {} THEN Own(endpoints, host) ELSE endpoints

Binaries(endpoints) == UNION {e.binaries : e \in endpoints}

(* The host's binaries, else every one the policy names, else none: such a *)
(* rule lets no process through, and is a gap.                             *)
HostBinaries(policy, host) ==
    LET related == HostEndpoints(policy, host)
        named   == IF Binaries(Own(related, host)) # {}
                   THEN Binaries(Own(related, host)) ELSE Binaries(related)
    IN IF named # {} THEN named ELSE Binaries(UNION policy)

(* _denied_tools: the tool part of each denied MCP name, whatever its      *)
(* server.                                                                 *)
DeniedToolNames(r) == {Last(t) : t \in {d \in r.deniedTools : McpTool(d) /\ Len(d) > 2}}

McpHere(policy, host)  == {e \in Own(HostEndpoints(policy, host), host) : e.protocol = "mcp"}

(* The endpoints a host's REST and L4 ones are made of: an MCP endpoint    *)
(* takes a host over unless the policy had others for that very host.      *)
RestSources(policy, host) ==
    OwnOrAll({e \in HostEndpoints(policy, host) :
                /\ e.protocol # "mcp"
                /\ McpHere(policy, host) = {} \/ EndpointHostPattern(e.host) = host}, host)

(* A pin holds only when every endpoint the host came from had one.        *)
Pin(endpoints) == IF \A e \in endpoints : e.pin # {}
                  THEN UNION {e.pin : e \in endpoints} ELSE {}

L7Ports(sources) == UNION {e.ports : e \in {s \in sources : s.protocol = "rest"}}
L4Ports(sources) == (UNION {e.ports : e \in {s \in sources : s.protocol = "none"}})
                      \ L7Ports(sources)

(* A host with only port-less plain endpoints stays port-less and plain.   *)
L4Bare(sources) == /\ sources # {} /\ L7Ports(sources) = {} /\ L4Ports(sources) = {}
                   /\ \A e \in sources : e.protocol = "none"

(* Broken: a host the agent only queried is read-only.                     *)
WritesUploads(r, host) == PatternCovered(host, r.uploads)

(* Read-write where a body may go: OpenShell can't tell a query from an    *)
(* upload.                                                                 *)
Writes(r, host) == PatternCovered(host, r.uploads \cup r.parametersOnly)

RestEndpoint(r, policy, host) ==
    LET sources == RestSources(policy, host)
        ports   == IF L7Ports(sources) # {} THEN L7Ports(sources)
                   ELSE IF L4Ports(sources) = {} /\ ~L4Bare(sources) THEN {EXPORT_PORT} ELSE {}
    IN IF ports = {} THEN {}
       ELSE {[host |-> host, protocol |-> "rest", ports |-> ports, pin |-> Pin(sources),
              access |-> IF Writes(r, host) THEN "read-write" ELSE "read-only",
              tools |-> {}, binaries |-> HostBinaries(policy, host)]}

L4Endpoint(policy, host) ==
    LET sources == RestSources(policy, host)
    IN IF L4Ports(sources) = {} /\ ~L4Bare(sources) THEN {}
       ELSE {[host |-> host, protocol |-> "none", ports |-> L4Ports(sources),
              pin |-> Pin(sources), access |-> "any", tools |-> {},
              binaries |-> HostBinaries(policy, host)]}

(* _mcp_rules: the tools an endpoint's rules still allow.  A rule for every*)
(* tool can't be narrowed by an allow rule; it is kept, and a gap.         *)
McpTools(r, e)      == e.tools \ DeniedToolNames(r)
StillAllowed(r, e)  == IF AllTools \in e.tools THEN DeniedToolNames(r) ELSE {}

McpEndpoint(r, policy, host, e) ==
    [host |-> e.host, protocol |-> "mcp", ports |-> e.ports, pin |-> e.pin,
     access |-> "tools", tools |-> McpTools(r, e),
     binaries |-> IF e.binaries # {} THEN e.binaries ELSE HostBinaries(policy, host)]

Exported(r) == {h \in r.callHosts : ~Loopback(h)}

(* The endpoints of the exported policy, host by host.                     *)
HostExport(r, policy, host) ==
    LET mcp == McpHere(policy, host)
    IN (IF RestSources(policy, host) # {} \/ mcp = {}
        THEN RestEndpoint(r, policy, host) \cup L4Endpoint(policy, host) ELSE {})
       \cup {McpEndpoint(r, policy, host, e) : e \in mcp}

Export(r, policy) == UNION {HostExport(r, policy, h) : h \in Exported(r)}

(* The gaps an export names, by what was not carried.                      *)
Gaps(r, policy) ==
    [loopback  |-> {h \in r.callHosts \cup r.uploads : Loopback(h)},
     noBinary  |-> {h \in Exported(r) : HostBinaries(policy, h) = {}},
     widened   |-> {h \in Exported(r) : /\ Binaries(HostEndpoints(policy, h)) = {}
                                        /\ Binaries(UNION policy) # {}},
     wildcards |-> {h \in Exported(r) : Wild(h)},
     queried   |-> {h \in Exported(r) : /\ RestEndpoint(r, policy, h) # {}
                                        /\ Writes(r, h) /\ ~PatternCovered(h, r.uploads)},
     uploads   |-> {h \in r.uploads : ~PatternCovered(h, r.callHosts) /\ ~Loopback(h)},
     stillAllowed |-> UNION {StillAllowed(r, e) : e \in UNION {McpHere(policy, h) : h \in Exported(r)}},
     notCarried   |-> NotRepresentable(policy)]
=============================================================================
