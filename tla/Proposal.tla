------------------------------ MODULE Proposal ------------------------------
(***************************************************************************)
(* What RailDash offers an operator (raildash/guardrail.py): the first     *)
(* guardrail proposed from a locked baseline and the day of requests       *)
(* before it, the narrowing of its upload hosts, and the hosts and servers *)
(* an agent declared since.                                                *)
(*                                                                         *)
(* policy holds the agent's OpenShell policy record, or nothing: the       *)
(* endpoints parse_policy kept (raildash/openshell_policy.py).             *)
(***************************************************************************)
EXTENDS RequestRules, AspRules

CONSTANT DnsEntries   \* OPENSHELL_DNS_ENTRIES

(* covering_endpoints: the endpoints whose host covers a host.             *)
Covering(policy, host) ==
    {e \in UNION policy : LET p == EndpointHostPattern(e.host)
                          IN p # NoHost /\ HostMatches(host, p)}

(* refuses_body: the policy covers the host and lets no body through to it.*)
RefusesBody(policy, host) ==
    LET covering == Covering(policy, host)
    IN covering # {} /\ \A e \in covering : ~e.bodyAllowed

(* proposal_seed's hosts: every endpoint's that a list can write.          *)
SeedHosts(policy) == {EndpointHostPattern(e.host) : e \in UNION policy} \ {NoHost}

(* The policy seeds only what it was seen to enforce.                      *)
Enforced(bundle) == /\ bundle.egress.status \in {"ANSWERED", "PARTIAL"}
                    /\ bundle.egress.level = "allow_list_enforced"
                    /\ bundle.egress.enforcer = "openshell"

Contained(bundle) == /\ bundle.egress.status = "ANSWERED"
                     /\ bundle.egress.level \in ContainedLevels

(* _declared_lists: what can't be read declares nothing.                   *)
DeclaredHosts(bundle) ==
    IF bundle.declared.status = "ANSWERED"
    THEN {h \in bundle.declared.items : IsHostPattern(h)} ELSE {}
DeclaredServers(bundle) ==
    IF bundle.servers.status = "ANSWERED" THEN bundle.servers.items ELSE {}
-----------------------------------------------------------------------------
(* A window of requests *)

(* Oldest first; the caller lists newer ids first within one time.  A      *)
(* request's place is how many come before it.                             *)
Before(a, b) == a.at < b.at \/ (a.at = b.at /\ a.id > b.id)

InOrder(requests) ==
    LET Earlier(q) == {p \in requests : Before(p, q)}
    IN [n \in 1..Cardinality(requests) |->
          CHOOSE q \in requests : Cardinality(Earlier(q)) = n - 1]

(* One request of the window drip-checked: view holds its kinds as they    *)
(* were classified, the calls' hosts and the budgets.  A body with no host *)
(* stays as classified.                                                    *)
ObserveNext(view, state, q) ==
    IF view.kinds[q] = {} \/ q.host = NoHost THEN state
    ELSE LET seen == Observe(state.budget, CHOOSE k \in view.kinds[q] : TRUE,
                             DripKeys(q.host, view.callHosts), q.at,
                             view.budgets, view.agentBudget)
         IN [budget |-> seen.budget, kinds |-> [state.kinds EXCEPT ![q] = {seen.kind}]]

(* window_body_kinds: each request's kind, the drip check run over them in *)
(* capture-time order.                                                     *)
WindowBodyKinds(requests, overrides, callHosts, budgets, agentBudget) ==
    LET kinds == [q \in requests |->
                    IF CarriesBody(q.body)
                    THEN {RequestBodyKind(q.body, q.host, overrides, q.specUploads)}
                    ELSE {}]
        view  == [kinds |-> kinds, callHosts |-> callHosts,
                  budgets |-> budgets, agentBudget |-> agentBudget]
    IN FoldLeft(LAMBDA state, q : ObserveNext(view, state, q),
                [budget |-> [seen |-> {}, latest |-> 0], kinds |-> kinds],
                InOrder(requests)).kinds

DrippedKind(kind) == \E k \in kind : k.step = STEP_DRIP

(* Whether the proposal reads a request as an upload: any body with kinds  *)
(* unread or no host, else one that isn't parameters.                      *)
Uploading(request, kind) ==
    /\ CarriesBody(request.body) /\ ~DrippedKind(kind)
    /\ kind = {} \/ request.host = NoHost \/ \E k \in kind : k.kind # "parameters"
-----------------------------------------------------------------------------
(* propose_guardrail *)

(* The kinds the proposal reads: the budgets it will have are the defaults.*)
ProposalKinds(bundle, requests, policy, kindsOn) ==
    IF kindsOn
    THEN WindowBodyKinds(requests, {},
            DeclaredHosts(bundle) \cup (IF Enforced(bundle) THEN SeedHosts(policy) ELSE {}),
            <<>>, AGENT_BUDGET)
    ELSE [q \in requests |-> {}]

(* The hosts a body was sent to: refused ones are withheld.                *)
Refused(bundle, policy, host) == Enforced(bundle) /\ RefusesBody(policy, host)

BodyHosts(bundle, requests, kinds) ==
    (IF IsHostPattern(bundle.endpoint) THEN {bundle.endpoint} ELSE {})
    \cup {q.host : q \in {p \in requests : /\ IsHostPattern(p.host)
                                           /\ Uploading(p, kinds[p])}}

QueriedHosts(requests, kinds) ==
    {q.host : q \in {p \in requests : /\ IsHostPattern(p.host) /\ CarriesBody(p.body)
                                      /\ ~Uploading(p, kinds[p])
                                      /\ ~DrippedKind(kinds[p])}}

(* The files of the baseline: each written path by its own entry.          *)
SeedFiles(bundle) ==
    {BytecodeCacheEntry} \cup
    (IF bundle.files.status \in {"ANSWERED", "PARTIAL"}
     THEN {SavedFileEntry(f.path) :
             f \in {e \in bundle.files.items :
                      e.write /\ ~SavedFileAllowed(e.path, {BytecodeCacheEntry})}}
     ELSE {})

(* The rules proposed: what the agent did is approved, what nothing        *)
(* declared is not.  Containment is required only where it was seen.       *)
ProposedRules(bundle, requests, policy, kindsOn) ==
    LET kinds  == ProposalKinds(bundle, requests, policy, kindsOn)
        bodies == {h \in BodyHosts(bundle, requests, kinds) : ~Refused(bundle, policy, h)}
    IN [uploads        |-> bodies,
        parametersOnly |-> {h \in QueriedHosts(requests, kinds) :
                              h \notin bodies /\ ~Refused(bundle, policy, h)},
        caps           |-> <<>>,
        overrides      |-> {},
        budgets        |-> <<>>,
        agentBudget    |-> AGENT_BUDGET,
        deniedTools    |-> {},
        callHosts      |-> DeclaredHosts(bundle)
                             \cup (IF Enforced(bundle) THEN SeedHosts(policy) ELSE {}),
        servers        |-> DeclaredServers(bundle),
        seenHosts      |-> DeclaredHosts(bundle),
        seenServers    |-> DeclaredServers(bundle),
        files          |-> SeedFiles(bundle),
        ports          |-> IF Enforced(bundle) THEN DnsEntries ELSE {},
        require        |-> IF Contained(bundle) THEN {"contained"} ELSE {}]

Item(v) == <<v.rule, v.item>>

(* Broken: what the drip check made an upload is not listed.               *)
WouldBeUndripped(bundle, requests, policy, kindsOn) ==
    LET r     == ProposedRules(bundle, requests, policy, kindsOn)
        kinds == ProposalKinds(bundle, requests, policy, kindsOn)
    IN {Item(v) : v \in ListenerViolations(bundle, r.ports)}
       \cup (UNION {{Item(v) : v \in {w \in EvaluateRequest(r, q, {}, kindsOn) :
                                        w.rule = "out_of_spec_calls"}} : q \in requests})
       \cup {<<"uploads", HostItem(q.host)>> :
               q \in {p \in requests : /\ Uploading(p, kinds[p])
                                       /\ ~IsHostPattern(p.host)}}

(* would_be_violations, by rule and item: the baseline's listeners, the    *)
(* calls nothing declared, and the bodies whose host was not seeded: past  *)
(* the drip check, withheld by the policy, or of a host no list can write. *)
WouldBe(bundle, requests, policy, kindsOn) ==
    LET r     == ProposedRules(bundle, requests, policy, kindsOn)
        kinds == ProposalKinds(bundle, requests, policy, kindsOn)
        HostUploads(q, kind) == {v \in EvaluateRequest(r, q, kind, kindsOn) :
                                    v.rule = "uploads" /\ v.detail.form = "host"}
    IN (IF bundle.listeners.status \in {"ANSWERED", "PARTIAL"}
        THEN {Item(v) : v \in ListenerViolations(bundle, r.ports)} ELSE {})
       \cup (UNION {{Item(v) : v \in {w \in EvaluateRequest(r, q, kinds[q], kindsOn) :
                                        w.rule = "out_of_spec_calls"}} : q \in requests})
       \cup {<<"uploads", q.host>> :
               q \in {p \in requests : /\ DrippedKind(kinds[p])
                                       /\ ~HostAllowed(p.host, r.uploads)}}
       \cup (UNION {{Item(v) : v \in HostUploads(q, kinds[q])} :
               q \in {p \in requests : /\ Uploading(p, kinds[p])
                                       /\ IsHostPattern(p.host) /\ Refused(bundle, policy, p.host)}})
       \cup {<<"uploads", HostItem(q.host)>> :
               q \in {p \in requests : Uploading(p, kinds[p]) /\ ~IsHostPattern(p.host)}}

(* What the baseline and its window would in fact break under a version.   *)
Broken(r, bundle, requests, kinds, kindsOn) ==
    {Item(v) : v \in AspViolations(r, bundle)}
    \cup UNION {{Item(v) : v \in EvaluateRequest(r, q, kinds[q], kindsOn)} : q \in requests}
-----------------------------------------------------------------------------
(* Narrow uploads *)

(* Whether a body goes to a host it may not be uploaded to.                *)
Misplaced(r, request, kind, kindsOn) ==
    "body_to_unlisted_host" \in
        Reasons(r, request.host, CarriesBody(request.body), kind, request.size, kindsOn)

Narrowed(r, hosts) == [r EXCEPT !.uploads = @ \ hosts,
                                !.parametersOnly = @ \cup hosts]

(* Broken: only the window's bodies are checked, no stored row.            *)
NarrowBodiesOnly(r, requests, rows, kindsOn) ==
    LET kinds == WindowBodyKinds(requests, r.overrides, r.callHosts, r.budgets, r.agentBudget)
        fine  == {q \in requests : ~Misplaced(r, q, kinds[q], kindsOn)}
    IN {h \in r.uploads :
          /\ kindsOn
          /\ \E q \in fine : /\ HostMatches(q.host, h) /\ q.host # NoHost
                             /\ \E k \in kinds[q] : ~BodyCounts(k, q.host, r)
          /\ \A q \in fine : ~Misplaced(Narrowed(r, {h}), q, kinds[q], kindsOn)}

(* What a narrowing looks at: the window's bodies in place (fine) and the  *)
(* stored rows that don't count (quiet).                                   *)
NarrowView(r, requests, rows, kindsOn) ==
    LET kinds == WindowBodyKinds(requests, r.overrides, r.callHosts, r.budgets, r.agentBudget)
    IN [rules |-> r, kinds |-> kinds, on |-> kindsOn,
        fine  |-> {q \in requests : ~Misplaced(r, q, kinds[q], kindsOn)},
        quiet |-> {row \in rows : ItemAllowed(r, row, kindsOn)}]

OnlyQueried(view, h) ==
    \E q \in view.fine : /\ q.host # NoHost /\ HostMatches(q.host, h)
                         /\ \E k \in view.kinds[q] : ~BodyCounts(k, q.host, view.rules)

SafeToMove(view, hosts) ==
    LET r == Narrowed(view.rules, hosts)
    IN /\ \A q \in view.fine : ~Misplaced(r, q, view.kinds[q], view.on)
       /\ \A row \in view.quiet : ItemAllowed(r, row, view.on)

OfferMove(view, moved, h) ==
    IF OnlyQueried(view, h) /\ SafeToMove(view, moved \cup {h}) THEN moved \cup {h} ELSE moved

(* narrow_uploads_hosts: upload hosts only queried over the window, whose  *)
(* moving makes nothing count that doesn't now, with every host offered    *)
(* before it moved too.                                                    *)
NarrowUploadsHosts(r, requests, rows, kindsOn) ==
    LET view == NarrowView(r, requests, rows, kindsOn)
    IN IF ~kindsOn THEN {}
       ELSE FoldLeft(LAMBDA moved, h : OfferMove(view, moved, h), {}, SetToSeq(r.uploads))
-----------------------------------------------------------------------------
(* Declared since *)

(* declared_offers: what the newest ASP declares, the version in force     *)
(* doesn't allow, and no version ever recorded as shown.                   *)
DeclaredOffers(r, bundle, seenHosts, seenServers) ==
    IF MultiAgent(bundle) THEN {}
    ELSE {[kind |-> "host", value |-> h] :
            h \in {d \in DeclaredHosts(bundle) \ seenHosts : ~HostAllowed(d, r.callHosts)}}
         \cup {[kind |-> "mcp_server", value |-> s] :
            s \in DeclaredServers(bundle) \ (seenServers \cup r.servers)}

(* with_declared_choice: recorded either way, allowed only on Allow.       *)
WithDeclaredChoice(r, offer, allow) ==
    LET add == IF allow THEN {offer.value} ELSE {}
    IN IF offer.kind = "host"
       THEN [r EXCEPT !.seenHosts = @ \cup {offer.value}, !.callHosts = @ \cup add]
       ELSE [r EXCEPT !.seenServers = @ \cup {offer.value}, !.servers = @ \cup add]
=============================================================================
