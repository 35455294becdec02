----------------------------- MODULE ContractLife -----------------------------
(***************************************************************************)
(* One agent's guardrail over its life (raildash/guardrail_store.py): it   *)
(* is proposed from a locked baseline, adopted, and then changed by edits, *)
(* Allow this, Allow all, narrowing, declared choices and switches, while  *)
(* requests arrive late, out of order or held for OpenShell's word, and    *)
(* the rows they leave are re-checked under every version.                 *)
(*                                                                         *)
(* Operations are write transactions.  How rows open, close and expire is  *)
(* GuardrailRows' subject; a row here holds what was recorded of its hits. *)
(***************************************************************************)
EXTENDS Proposal, PolicyExport

CONSTANTS
    Worlds,   \* what an agent begins from, and what may happen to it
    Slack,    \* CAPTURE_CLOCK_SLACK, in ticks
    PROPOSAL_MAX_REQUESTS   \* how many requests are read of a window

ASSUME SlackAssumption == Slack \in Nat
ASSUME ReadLimitAssumption == PROPOSAL_MAX_REQUESTS \in Nat

(* A world has the locked baseline (bundle), the day of requests before it *)
(* (window) and the first policy; the requests that may arrive (shapes: a  *)
(* host, body, size, tools and spec, and whether it is this agent's (mine) *)
(* or another's), how far behind the clock their own   *)
(* times are (lags), whether a collector reports on its sandbox; the later *)
(* ASPs, policies and operator's edits (rule |-> new value); and its       *)
(* bounds: on the requests, all after the first version, the versions, the *)
(* clock's times, and the turns: switches, dismissals and changes around   *)
(* the agent.                                                              *)
WorldFields == {"bundle", "window", "policy", "shapes", "lags", "collector", "asps",
                "policies", "edits", "kindsOn", "requests", "versions", "times", "turns"}

ASSUME WorldAssumption ==
    \A w \in Worlds : DOMAIN w = WorldFields /\ w.lags \subseteq Int /\ w.kindsOn \subseteq BOOLEAN

(* Times are of the server's clock, and a table's ids count its rows.      *)
ASSUME ClockAssumption ==
    \A w \in Worlds :
        /\ w.times \subseteq Nat /\ w.turns \in Nat
        /\ IsFiniteSet(w.policy) /\ Cardinality(w.policy) <= 1
        /\ IsFiniteSet(w.window)
        /\ \A q \in w.window : q.at \in Nat /\ q.id \in 1..Cardinality(w.window)
        /\ \A p, q \in w.window : p.id = q.id => p = q

(* A request's body is what the classifier can tell of it.                 *)
ASSUME ShapeAssumption ==
    \A w \in Worlds : \A s \in w.shapes \cup w.window :
        /\ s.mine \in BOOLEAN
        /\ s.body \in {NoBody, Unreadable} \/ s.body \in Body
        /\ IsFiniteSet(s.tools)
        /\ IsFiniteSet(s.size) /\ s.size \subseteq Nat

(* An edit is validated: its lists are finite, its caps and its budgets are*)
(* integers, no budget below zero; a host is one that a list can hold.     *)
ASSUME EditAssumption ==
    \A w \in Worlds : \A edit \in w.edits :
        /\ "agentBudget" \in DOMAIN edit => edit.agentBudget \in Nat
        /\ "budgets" \in DOMAIN edit =>
              \A key \in DOMAIN edit.budgets : edit.budgets[key] \in Nat
        /\ "caps" \in DOMAIN edit => \A key \in DOMAIN edit.caps : edit.caps[key] \in Int
        /\ "uploads" \in DOMAIN edit => IsFiniteSet(edit.uploads)
        /\ "callHosts" \in DOMAIN edit =>
              \A h \in edit.callHosts : h \in Seq(STRING) /\ IsHostPattern(h)

(* Hosts are lists of labels wherever they come from.                      *)
ASSUME HostsAssumption ==
    \A w \in Worlds :
        /\ \A s \in w.shapes \cup w.window : s.host \in Seq(STRING)
        /\ \A asp \in {w.bundle} \cup w.asps : DeclaredHosts(asp) \subseteq Seq(STRING)
        /\ \A e \in UNION (w.policy \cup w.policies) : e.host \in Seq(STRING)

(* SQLite's temp files have no extension: the part it mints has no dot.    *)
ASSUME FilesAssumption ==
    \A w \in Worlds : \A f \in w.bundle.files.items : f.path.sqlite => f.path.kind = "(none)"

VARIABLES
    world,        \* the one of Worlds it is; never changes
    turns,        \* how many of the world's turns were taken
    kindsOn,      \* RAILDASH_BODY_KINDS
    clock,        \* the server's
    bundle,       \* the agent's newest ASP
    policy,       \* its newest OpenShell policy: none or one
    requests,     \* table interactions, every agent's
    versions,     \* table guardrail_versions: their rules, in order
    active,       \* table guardrail_bindings; 0 is none
    activatedAt,
    rows,         \* table guardrail_rows
    drip,         \* table guardrail_parameters_bytes
    held,         \* table openshell_held_requests
    dismissed,    \* the hosts whose narrowing was dismissed
    judged,       \* history: each request judged, and how
    refused       \* history: the declared offers dismissed

policyVars == <<versions, active, activatedAt>>
checkVars  == <<rows, drip, judged>>
vars == <<world, turns, kindsOn, clock, bundle, policy, requests, versions, active,
          activatedAt, rows, drip, held, dismissed, judged, refused>>

Rules == versions[active]

Captures(from, to) == {q \in requests : from <= q.at /\ q.at <= to}
Newer(p, q)        == p.at > q.at \/ (p.at = q.at /\ p.id > q.id)

(* _owned_requests_locked: this agent's, of the newest that are read; the  *)
(* limit is on every agent's.                                              *)
OwnedRequests(from, to) ==
    {q \in Captures(from, to) :
        /\ q.mine
        /\ Cardinality({p \in Captures(from, to) : Newer(p, q)}) < PROPOSAL_MAX_REQUESTS}

(* What is read of the day before the baseline was locked, at Day, and of  *)
(* the last.                                                               *)
Baseline == OwnedRequests(0, Day)
Recent   == OwnedRequests(clock - Day, clock)
-----------------------------------------------------------------------------
(* Judging one request *)

(* Broken: a body judged late is not held to the ones counted after it.    *)
UpToThen(counted, when) == {c \in counted : c.at > when - Day /\ c.at <= when}

(* The day before a body's own time, and everything counted since.         *)
DayBefore(counted, when) == {c \in counted : c.at > when - Day}

(* A capture's time, never ahead of the check's, nor a day behind it.      *)
Clamped(at, clk) == IF at > clk THEN clk ELSE Max({at, clk - Day})

(* _drip_check_locked, at clk: rows are pruned two days back, and a body   *)
(* that fits every budget is counted.  A host-less body stays as it is.    *)
DripCheck(r, q, kind, clk) ==
    LET when    == Clamped(q.at, clk)
        kept    == {c \in drip : c.at >= clk - 2 * Day}
        counted == DayBefore(kept, when)
        keys    == DripKeys(q.host, r.callHosts)
    IN IF kind.kind # "parameters" \/ q.host = NoHost
       THEN [kind |-> kind, drip |-> drip]
       ELSE IF OverBudget(counted, kind.kib, keys, r.budgets, r.agentBudget)
       THEN [kind |-> Dripped(kind, counted, keys), drip |-> kept]
       ELSE [kind |-> kind,
             drip |-> kept \cup {[id |-> q.id, keys |-> keys, at |-> when, kib |-> kind.kib]}]

(* _record_violation drops a request's second hit of one row.  A host's is *)
(* its first; of tools that make one item, that of the first called.       *)
OnePerRow(hits) ==
    {kept \in SUBSET hits :
        /\ \A k, l \in kept : Item(k) = Item(l) => k = l
        /\ \A h \in hits : \E k \in kept :
              Item(k) = Item(h) /\ (h.detail.form = "host" => k.detail.form = "host")}

(* _record_violations, the rows only: a hit's detail is merged in its row. *)
Recorded(old, hits) ==
    {row \in old : \A h \in hits : Item(h) # Item(row)}
    \cup {LET same == {row \in old : Item(row) = Item(h)}
          IN IF same = {} THEN h
             ELSE [h EXCEPT !.detail = MergedDetail((CHOOSE row \in same : TRUE).detail, @)] :
             h \in hits}

(* _judge_request_locked, under the version in force; clk is when it was   *)
(* held for a request that was.                                            *)
Judge(q, clk) ==
    LET check == DripCheck(Rules, q,
                    RequestBodyKind(q.body, q.host, Rules.overrides, q.specUploads), clk)
        read  == kindsOn /\ CarriesBody(q.body)
        kind  == IF read THEN {check.kind} ELSE {}
    IN /\ drip' = IF read THEN check.drip ELSE drip
       /\ \E hits \in OnePerRow(EvaluateRequest(Rules, q, kind, kindsOn)) :
             /\ rows' = Recorded(rows, hits)
             /\ judged' = judged \cup {[request |-> q, version |-> active, kind |-> kind,
                                        when |-> Clamped(q.at, clk), late |-> clk # clock,
                                        hits |-> hits]}

(* Request n, of one shape, captured at a time of its own.                 *)
Captured(shape, lag) ==
    [host |-> shape.host, body |-> shape.body, size |-> shape.size, tools |-> shape.tools,
     specUploads |-> shape.specUploads, mine |-> shape.mine, at |-> clock - lag,
     id |-> Cardinality(requests) + 1]
-----------------------------------------------------------------------------
Init ==
    /\ world \in Worlds
    /\ kindsOn \in world.kindsOn
    /\ turns = 0
    /\ clock = Day
    /\ bundle = world.bundle
    /\ policy = world.policy
    /\ requests = world.window
    /\ versions = <<>> /\ active = 0 /\ activatedAt = 0
    /\ rows = {} /\ drip = {} /\ held = {}
    /\ dismissed = {} /\ judged = {} /\ refused = {}

Arrivals == /\ versions # <<>>
            /\ Cardinality(requests) < Cardinality(world.window) + world.requests

(* _check_request_locked: an old capture loaded now is not judged, nor is  *)
(* another agent's by this guardrail.                                      *)
Arrive(shape, lag) ==
    LET q == Captured(shape, lag)
    IN /\ Arrivals
       /\ requests' = requests \cup {q}
       /\ IF ~shape.mine \/ active = 0 \/ q.at < activatedAt - Slack THEN UNCHANGED checkVars
          ELSE Judge(q, clock)
       /\ UNCHANGED <<world, turns, kindsOn, clock, bundle, policy, policyVars, held,
                      dismissed, refused>>

(* A 403 with no denial yet: _hold_if_blocked_locked.                      *)
ArriveHeld(shape, lag) ==
    LET q == Captured(shape, lag)
    IN /\ Arrivals
       /\ shape.mine /\ world.collector /\ active # 0 /\ q.at >= activatedAt - Slack
       /\ requests' = requests \cup {q}
       /\ held' = held \cup {[request |-> q, at |-> clock]}
       /\ UNCHANGED <<world, turns, kindsOn, clock, bundle, policy, policyVars, checkVars,
                      dismissed, refused>>

(* _release_held_requests_locked: judged as of when it was held, under the *)
(* version in force now, or dropped, a denial having come.                 *)
Release(h, denied) ==
    /\ h \in held
    /\ held' = held \ {h}
    /\ IF denied THEN UNCHANGED checkVars ELSE Judge(h.request, h.at)
    /\ UNCHANGED <<world, turns, kindsOn, clock, bundle, policy, requests, policyVars,
                   dismissed, refused>>
-----------------------------------------------------------------------------
(* Versions *)

Turn == turns < world.turns /\ turns' = turns + 1

(* _create_version_locked, with the rules the new version has.             *)
CreateVersion(r) ==
    /\ Len(versions) < world.versions
    /\ versions' = Append(versions, r)
    /\ active' = Len(versions) + 1
    /\ activatedAt' = clock

Around    == <<world, kindsOn, clock, bundle, policy, requests, checkVars, held>>
Unchecked == <<turns, Around>>

Edited(r, edit) == [rule \in DOMAIN r |-> IF rule \in DOMAIN edit THEN edit[rule] ELSE r[rule]]

(* adopt_guardrail: the proposal, or as the operator edited it.  Of a      *)
(* shared sandbox nothing is proposed.                                     *)
Adopt(edit) ==
    /\ active = 0
    /\ ~MultiAgent(world.bundle)
    /\ CreateVersion(Edited(ProposedRules(world.bundle, Baseline, policy, kindsOn), edit))
    /\ UNCHANGED <<Unchecked, dismissed, refused>>

(* edit_guardrail: what was shown as declared stays recorded.              *)
Edit(edit) ==
    /\ active # 0
    /\ LET r == Edited(Rules, edit)
       IN CreateVersion([r EXCEPT !.seenHosts = @ \cup Rules.seenHosts,
                                  !.seenServers = @ \cup Rules.seenServers])
    /\ UNCHANGED <<Unchecked, dismissed, refused>>

Counts(row) == ~ItemAllowed(Rules, row, kindsOn)

(* allow_guardrail_row, on any listed row.                                 *)
AllowRow(row) ==
    /\ active # 0 /\ row \in rows
    /\ OneClick(Rules, row, kindsOn)
    /\ CreateVersion(WithItemAllowed(Rules, row))
    /\ UNCHANGED <<Unchecked, dismissed, refused>>

(* The rows Allow all takes: of one rule, every one of which counts and    *)
(* could be allowed by itself.                                             *)
AllowableSets ==
    {chosen \in SUBSET {row \in rows : Counts(row) /\ OneClick(Rules, row, kindsOn)} :
        \A a, b \in chosen : a.rule = b.rule}

(* The rules with every chosen row's item: one an earlier row's entry      *)
(* already covers adds none.                                               *)
AllowNext(on, row, r) == IF ItemAllowed(r, row, on) THEN r ELSE WithItemAllowed(r, row)

AllowEach(on, r, chosen) == FoldSet(LAMBDA row, s : AllowNext(on, row, s), r, chosen)

(* What no row asks for stays as it is.                                    *)
RowsAllowed(chosen) ==
    LET all == AllowEach(kindsOn, Rules, chosen)
    IN [Rules EXCEPT !.uploads = all.uploads, !.parametersOnly = all.parametersOnly,
                     !.deniedTools = all.deniedTools, !.callHosts = all.callHosts,
                     !.servers = all.servers]

(* allow_guardrail_rows: all of them or none.                              *)
AllowRows(chosen) ==
    /\ chosen # {}
    /\ CreateVersion(RowsAllowed(chosen))
    /\ UNCHANGED <<Unchecked, dismissed, refused>>

(* _narrow_offer_locked, of the last day's requests and every stored row:  *)
(* nothing, unless all of the day's are read.                              *)
NarrowOffer ==
    IF Cardinality(Captures(clock - Day, clock)) >= PROPOSAL_MAX_REQUESTS THEN {}
    ELSE NarrowUploadsHosts(Rules, Recent, rows, kindsOn) \ dismissed

(* narrow_uploads: any of the hosts offered now.                           *)
NarrowUploads(hosts) ==
    /\ active # 0
    /\ hosts # {} /\ hosts \subseteq NarrowOffer
    /\ CreateVersion(Narrowed(Rules, hosts))
    /\ UNCHANGED <<Unchecked, dismissed, refused>>

(* dismiss_narrow_uploads: of an upload host of the version in force.      *)
DismissNarrow(host) ==
    /\ Turn /\ active # 0 /\ host \in Rules.uploads
    /\ dismissed' = dismissed \cup {host}
    /\ UNCHANGED <<Around, policyVars, refused>>

(* Broken: only the version in force remembers what was shown.             *)
SeenByActive == [hosts |-> Rules.seenHosts, servers |-> Rules.seenServers]

(* _seeded_over_all_versions.                                              *)
SeenByAny == [hosts   |-> UNION {versions[n].seenHosts : n \in DOMAIN versions},
              servers |-> UNION {versions[n].seenServers : n \in DOMAIN versions}]

Offers == IF active = 0 THEN {}
          ELSE DeclaredOffers(Rules, bundle, SeenByAny.hosts, SeenByAny.servers)

(* choose_declared, on a current offer.                                    *)
ChooseDeclared(offer, allow) ==
    /\ offer \in Offers
    /\ CreateVersion(WithDeclaredChoice(Rules, offer, allow))
    /\ refused' = IF allow THEN refused ELSE refused \cup {offer}
    /\ UNCHANGED <<Unchecked, dismissed>>

(* require_containment.                                                    *)
RequireContainment(level) ==
    /\ active # 0 /\ Rules.require # {level}
    /\ CreateVersion([Rules EXCEPT !.require = {level}])
    /\ UNCHANGED <<Unchecked, dismissed, refused>>

(* switch_guardrail.                                                       *)
Switch(n) ==
    /\ Turn /\ n \in DOMAIN versions
    /\ active' = n /\ activatedAt' = clock
    /\ UNCHANGED <<versions, Around, dismissed, refused>>

(* Broken: requests already held stay held.                                *)
ClearPointer ==
    /\ Turn /\ active # 0
    /\ active' = 0
    /\ UNCHANGED <<versions, activatedAt, Around, dismissed, refused>>

(* turn_off_guardrail: held requests have nothing left to be judged by.    *)
TurnOff ==
    /\ Turn /\ active # 0
    /\ active' = 0 /\ held' = {}
    /\ UNCHANGED <<world, kindsOn, clock, bundle, policy, requests, versions,
                   activatedAt, checkVars, dismissed, refused>>
-----------------------------------------------------------------------------
(* The rest of the world *)

NewAsp(asp) ==
    /\ Turn /\ bundle' = asp
    /\ UNCHANGED <<world, kindsOn, clock, policy, requests, policyVars, checkVars,
                   held, dismissed, refused>>

(* import_openshell_policy.                                                *)
ImportPolicy(p) ==
    /\ Turn /\ policy' = {p}
    /\ UNCHANGED <<world, kindsOn, clock, bundle, requests, policyVars, checkVars,
                   held, dismissed, refused>>

(* The server restarted with RAILDASH_BODY_KINDS the other way.            *)
Restart ==
    /\ Turn /\ kindsOn' = ~kindsOn
    /\ UNCHANGED <<world, clock, bundle, policy, requests, policyVars, checkVars,
                   held, dismissed, refused>>

Tick ==
    /\ clock' \in {t \in world.times : t > clock}
    /\ UNCHANGED <<world, turns, kindsOn, bundle, policy, requests, policyVars, checkVars,
                   held, dismissed, refused>>

Next ==
    \/ \E shape \in world.shapes, lag \in world.lags : Arrive(shape, lag) \/ ArriveHeld(shape, lag)
    \/ \E h \in held, denied \in BOOLEAN : Release(h, denied)
    \/ \E edit \in world.edits : Adopt(edit) \/ Edit(edit)
    \/ Adopt(<<>>)
    \/ \E row \in rows : AllowRow(row)
    \/ active # 0 /\ \E chosen \in AllowableSets : AllowRows(chosen)
    \/ active # 0 /\ \E hosts \in SUBSET NarrowOffer : NarrowUploads(hosts)
    \/ active # 0 /\ \E host \in Rules.uploads : DismissNarrow(host)
    \/ \E offer \in Offers, allow \in BOOLEAN : ChooseDeclared(offer, allow)
    \/ \E level \in {"contained", "allow_list_enforced"} : RequireContainment(level)
    \/ \E n \in DOMAIN versions : Switch(n)
    \/ TurnOff
    \/ \E asp \in world.asps : NewAsp(asp)
    \/ \E p \in world.policies : ImportPolicy(p)
    \/ Restart
    \/ Tick

Spec == Init /\ [][Next]_vars
-----------------------------------------------------------------------------
(* The judged requests whose bodies passed as parameters.                  *)
Passed == {j \in judged : \E k \in j.kind : k.kind = "parameters" /\ j.request.host # NoHost}

(* The types of the tables, and no version's budget below zero.  A request *)
(* is held only while a version is in force to judge it by, and the bytes  *)
(* counted are of bodies that passed.                                      *)
TypeOK ==
    /\ world \in Worlds /\ turns \in 0..world.turns
    /\ kindsOn \in BOOLEAN /\ clock \in {Day} \cup world.times
    /\ Cardinality(policy) <= 1
    /\ active \in 0..Len(versions) /\ activatedAt <= clock
    /\ \A n \in DOMAIN versions :
          /\ versions[n].agentBudget \in Nat
          /\ \A key \in DOMAIN versions[n].budgets : versions[n].budgets[key] \in Nat
    /\ \A h \in held : h.request \in requests /\ active # 0
    /\ \A c \in drip : \E j \in Passed : j.request.id = c.id /\ j.when = c.at

SameRow(hit, row) ==
    /\ Item(hit) = Item(row) /\ hit.detail.form = row.detail.form
    /\ hit.detail.form = "mcp_server" => hit.detail.server = row.detail.server

(* The agent writes the Host header: a denied tool's call may leave a row  *)
(* of a host's text, and each replaces what the row kept of the other.     *)
ToolNamed(host) == \E j \in judged : \E h \in j.hits : h.detail.form = "tool_call" /\ h.item = host
SharedRow(row)  == row.rule = "uploads" /\ row.detail.form = "host" /\ ToolNamed(row.item)

HitsOf(row) == {j \in judged : \E h \in j.hits : SameRow(h, row)}

(* The bytes of a judged body, and of the bodies of several requests.      *)
BytesOf(j)  == (CHOOSE k \in j.kind : TRUE).kib
SumBytes(S) == MapThenSumSet(BytesOf, S)

(* What a judged request's body would be under another version: classified *)
(* afresh, or, of those the drip check made an upload, the same body with  *)
(* the bytes of every one like it in the row.                              *)
Again(j, r, others) ==
    LET Like(k) == {o \in others : \E x \in o.kind : BodyKey(x) = BodyKey(k)}
    IN IF ~kindsOn \/ ~CarriesBody(j.request.body) THEN {}
       ELSE IF DrippedKind(j.kind)
       THEN {[k EXCEPT !.drip.over = SumBytes(Like(k))] : k \in j.kind}
       ELSE {RequestBodyKind(j.request.body, j.request.host, r.overrides,
                             j.request.specUploads)}

(* Rows are merged and re-checked from what they kept, in place of the     *)
(* requests.  A row some version allows hides none: judged again under that*)
(* version, no request it was hit by breaks it.  (A host's bodies that a   *)
(* denied tool's call replaced in the row are lost.)                       *)
RowsHideNothing ==
    \A n \in DOMAIN versions, row \in rows :
        ItemAllowed(versions[n], row, kindsOn) /\ ~SharedRow(row) =>
            \A j \in HitsOf(row) :
                LET kind == Again(j, versions[n], HitsOf(row))
                IN \A v \in EvaluateRequest(versions[n], j.request, kind, kindsOn) :
                      ~SameRow(v, row)

(* "Nothing overrides it" (body_kinds.py, step 1): a body with a hard      *)
(* signal, or that can't be read, to a host no version in force listed for *)
(* uploads, leaves a row that only listing the host clears, whatever the   *)
(* user answered before or since: or a denied tool written like the host.  *)
FilesAlwaysCount ==
    \A j \in judged :
        LET host == j.request.host
            item == <<"uploads", host>>
        IN (/\ j.kind # {} /\ host # NoHost
            /\ j.request.body = Unreadable \/ HardSignal(j.request.body)) =>
              \/ HostAllowed(host, versions[j.version].uploads)
              \/ /\ item \in {Item(h) : h \in j.hits}
                 /\ \A n \in DOMAIN versions :
                       \/ HostAllowed(host, UploadHosts(versions[n], kindsOn)) \/ ToolNamed(host)
                       \/ \E row \in rows : /\ Item(row) = item
                                           /\ ~ItemAllowed(versions[n], row, kindsOn)

(* The budgets a judged body's bytes count against.                        *)
KeysOf(j) == DripKeys(j.request.host, versions[j.version].callHosts)

(* What passed in the day up to one body's time, and of it on one budget.  *)
DayOf(last)   == {j \in Passed : last.when - Day < j.when /\ j.when <= last.when}
OnKey(S, key) == {j \in S : key \in KeysOf(j)}

(* The bounds any version gave the agent, and an entry.                    *)
AgentBounds      == {versions[n].agentBudget : n \in DOMAIN versions}
EntryBounds(key) == {EntryBudget(versions[n].budgets, key) : n \in DOMAIN versions}

(* A data drip is bounded: over any one day of the captures' own times, in *)
(* whatever order they came, the bytes passed as parameters stay within the*)
(* largest bound any version gave the agent, and each entry.  (A request   *)
(* judged as of when it was held may miss rows pruned since.)              *)
DripBounded ==
    \A last \in Passed :
        (\A j \in DayOf(last) : ~j.late) =>
            /\ SumBytes(DayOf(last)) <= Max(AgentBounds)
            /\ \A key \in KeysOf(last) :
                  SumBytes(OnKey(DayOf(last), key)) <= Max(EntryBounds(key))

(* Allow all's version allows every row it was given, so the row stops     *)
(* counting, and starts no other: what its page shows is what it does.     *)
AllowClears ==
    active # 0 =>
        \A chosen \in AllowableSets :
            \A row \in rows :
                (row \in chosen \/ ItemAllowed(Rules, row, kindsOn)) =>
                    ItemAllowed(RowsAllowed(chosen), row, kindsOn)

(* "Makes no request or stored row count": of the hosts offered for        *)
(* narrowing, taking any part starts no row and misplaces no body of the   *)
(* agent's last day that was in place, were there more than are read.      *)
NarrowStartsNothing ==
    active # 0 =>
        LET day   == {q \in Captures(clock - Day, clock) : q.mine}
            kinds == WindowBodyKinds(day, Rules.overrides, Rules.callHosts,
                                     Rules.budgets, Rules.agentBudget)
        IN \A hosts \in (SUBSET NarrowOffer) \ {{}} :
              /\ \A row \in rows : ItemAllowed(Rules, row, kindsOn) =>
                    ItemAllowed(Narrowed(Rules, hosts), row, kindsOn)
              /\ \A q \in day : ~Misplaced(Rules, q, kinds[q], kindsOn) =>
                    ~Misplaced(Narrowed(Rules, hosts), q, kinds[q], kindsOn)

(* The page lists, while no guardrail is in force, all that the locked     *)
(* baseline and what is read of the day before it would break under the one*)
(* proposed, and nothing else but a host no list can write, which a        *)
(* wildcard may cover.                                                     *)
WouldBeComplete ==
    active = 0 /\ ~MultiAgent(world.bundle) =>
        LET listed == WouldBe(world.bundle, Baseline, policy, kindsOn)
            breaks == Broken(ProposedRules(world.bundle, Baseline, policy, kindsOn), world.bundle,
                             Baseline, ProposalKinds(world.bundle, Baseline, policy, kindsOn), kindsOn)
        IN /\ breaks \subseteq listed
           /\ \A item \in listed \ breaks : item[1] = "uploads" /\ ~IsHostPattern(item[2])

(* A declared offer once dismissed is not made again, whatever version is  *)
(* in force since and whatever the agent's ASPs say.                       *)
OfferedOnce == refused \cap Offers = {}

(* An exported policy opens nothing the version does not allow: read-write *)
(* only where a body may go, no denied tool but for a named gap, no host   *)
(* beyond its calls.  And it closes nothing it lists: every called host is *)
(* there, and takes a body where the version lets one through.             *)
ExportWithin ==
    active # 0 =>
        LET out   == Export(Rules, policy)
            gaps  == Gaps(Rules, policy)
            takes == Rules.uploads \cup Rules.parametersOnly
            Of(host) == {e \in out : HostMatches(host, EndpointHostPattern(e.host))}
        IN /\ \A e \in out :
                 /\ PatternCovered(EndpointHostPattern(e.host), Rules.callHosts)
                 /\ e.access = "read-write" => PatternCovered(EndpointHostPattern(e.host), takes)
                 /\ e.tools \cap DeniedToolNames(Rules) = {}
                 /\ AllTools \in e.tools => DeniedToolNames(Rules) \subseteq gaps.stillAllowed
                 /\ e.binaries = {} => EndpointHostPattern(e.host) \in gaps.noBinary
           /\ \A host \in {h \in Rules.callHosts : ~Wild(h) /\ ~Loopback(h)} :
                 /\ Of(host) # {}
                 /\ HostAllowed(host, takes) => \E e \in Of(host) : e.access # "read-only"
           /\ \A host \in Rules.uploads :
                 PatternCovered(host, Rules.callHosts) \/ host \in gaps.uploads \cup gaps.loopback
=============================================================================
