------------------------------- MODULE Captures -------------------------------
(***************************************************************************)
(* Captured exchanges on their way in (raildash/store.py, app.py), and what*)
(* RailDash keeps and judges of the tools they list and call               *)
(* (raildash/data_actions_store.py, guardrail_store.py): batches arrive    *)
(* with the local write token or without it, again, or fail midway; a call *)
(* no listing has waits for one; and the data_actions rule is proposed,    *)
(* judged and shown.                                                       *)
(*                                                                         *)
(* One session.  The other rules of a request are RequestRules' subject,   *)
(* the cap on rows and acknowledgements GuardrailRows', requests held for  *)
(* OpenShell's word OpenShellHold's.                                       *)
(***************************************************************************)
EXTENDS DataActions, Integers

CONSTANTS
    Worlds,           \* names |-> what may be captured, and by whom
    MAX_ROWS,         \* MAX_ROWS_PER_CAPTURE: call rows before destinations join
    ROW_SLACK,        \* MAX_ROWS_SLACK: rows past it before tools do
    MAX_PENDING,      \* queued calls of an agent
    RUN_LIMIT,        \* calls judged in one run of the queue
    Delay,            \* NOT_OFFERED_DELAY, in ticks
    PagesWindow,      \* LISTING_PAGES_WINDOW
    ListingWindow,    \* NOT_OFFERED_LISTING_WINDOW
    SchemaWindow,     \* SCHEMA_WINDOW
    Lookback,         \* PROPOSAL_LOOKBACK
    PROPOSAL_MAX_REQUESTS,  \* requests read for a proposal, every agent's
    HeartbeatWindow,  \* HEARTBEAT_WINDOW
    GapWindow,        \* UNATTRIBUTED_WINDOW and the windows equal to it
    Slack             \* CAPTURE_CLOCK_SLACK

ASSUME CaptureBoundsAssumption ==
    /\ {MAX_ROWS, ROW_SLACK, Delay, PagesWindow, ListingWindow, SchemaWindow, Lookback,
        PROPOSAL_MAX_REQUESTS, HeartbeatWindow, GapWindow, Slack} \subseteq Nat
    /\ {MAX_PENDING, RUN_LIMIT} \subseteq Nat \ {0}

(* A world has its agents with the keys and sandboxes that name them; what *)
(* the agents' ASPs say: the servers at their endpoints and the hosts      *)
(* trusted with a tool list; the batches that may be posted (copies, with  *)
(* the token or not, and whether the last copy can't be stored); the       *)
(* contracts a guardrail may be given; the checks that may fail; and its   *)
(* bounds: on posts and turns, the clock's times, the last time of a post. *)
WorldFields == {"agents", "keys", "sandboxes", "servers", "trusted", "batches", "contracts",
                "faults", "posts", "turns", "times", "until"}

Faults == {"none", "schemas", "calls", "classify", "check", "run", "one"}

ASSUME CaptureWorldAssumption ==
    \A w \in DOMAIN Worlds : /\ DOMAIN Worlds[w] = WorldFields
                            /\ Worlds[w].faults \subseteq Faults \cup {"refuse"}
                            /\ Worlds[w].times \subseteq Nat /\ Worlds[w].turns \in Nat
                            /\ \A contract \in Worlds[w].contracts : Cardinality(contract) <= 1

(* A batch's copies are a list, and so are the messages read of each.      *)
IsList(seq) == seq \in Seq(ToSet(seq))

ASSUME CopiesAssumption ==
    \A w \in DOMAIN Worlds : \A batch \in Worlds[w].batches :
        /\ batch.authenticated \in BOOLEAN /\ IsList(batch.copies)
        /\ batch.fails => batch.copies # <<>>
        /\ \A c \in ToSet(batch.copies) : c.at \in Int /\ IsList(c.wire) /\ IsList(c.reply)

(* What a tool does, by a schema read of a copy or by a rule's override, is*)
(* of the closed set of actions.                                           *)
KindsOnly(schema) == UNION (schema.modes \cup {schema.says, schema.answer}) \subseteq DATA_ACTION_KINDS

ASSUME KindsAssumption ==
    \A w \in DOMAIN Worlds :
        /\ \A contract \in Worlds[w].contracts : \A rule \in contract :
              \A tool \in DOMAIN rule.overrides : rule.overrides[tool] \subseteq DATA_ACTION_KINDS
        /\ \A batch \in Worlds[w].batches : \A c \in ToSet(batch.copies) :
              \A f \in ExtractToolSchemas(c) : KindsOnly(f.schema)

VARIABLES
    world,      \* which of Worlds it is; never changes
    clock,      \* the server's
    posts,      \* how many batches were posted
    turns,      \* how many of the world's turns were taken
    db,         \* the tables a capture writes: see Tables
    session,    \* table sessions, its first_seen and last_seen
    open,       \* a batch failed and left its transaction open
    active,     \* agent |-> its guardrail in force, none or one
    heartbeat,  \* table collector_heartbeats: none or one time
    refused,    \* table capture_refusals: none or one time
    past        \* history: the copies delivered, and whether a batch failed

vars == <<world, clock, posts, turns, db, session, open, active, heartbeat, refused, past>>

(* db: stored (interactions), schemas (tool_schemas), calls                *)
(* (data_action_calls), pending (data_action_pending), rows                *)
(* (guardrail_rows of this rule) and the marks failed, unattributed and    *)
(* unreadable (by agent), each none or one time.  With them, history the   *)
(* same steps add to: read (the calls recorded), judged (the requests, the *)
(* version and the calls they were judged with), listings (the pages       *)
(* recorded), verdicts (on calls offered or not) and lost (when a check    *)
(* failed).                                                                *)
Tables == {"stored", "schemas", "calls", "pending", "rows", "failed", "unattributed",
           "unreadable", "read", "judged", "listings", "verdicts", "lost"}

W == Worlds[world]

NoDest          == "(no destination)"
UNREADABLE_TOOL == <<"(unreadable)">>
OVERFLOW_TOOL   == <<"(more calls)">>
SpecialTools    == {UNREADABLE_TOOL, OVERFLOW_TOOL}
-----------------------------------------------------------------------------
(* What the tables say of tools *)

(* capture_ref.                                                            *)
CaptureRef(c) == IF c.claim = "attributed" THEN <<c.sandbox, c.key>> ELSE <<"session">>

Listings(schemas, endpoint) ==
    {s \in schemas : s.source = TOOLS_LIST /\ s.endpoint = endpoint}

(* _known_mcp_endpoints.                                                   *)
KnownMcpEndpoints(schemas) ==
    {s.endpoint : s \in {t \in schemas : t.source = TOOLS_LIST}} \cup DOMAIN W.servers

Newest(rows) ==
    IF rows = {} THEN {}
    ELSE {(CHOOSE s \in rows : \A t \in rows : t.last <= s.last).schema}

(* _endpoint_schema.                                                       *)
EndpointSchema(schemas, endpoint, tool) ==
    Newest({s \in Listings(schemas, endpoint) : s.tool = tool})

(* _fallback_schema: only a list sent to a trusted host.                   *)
FallbackSchema(schemas, ref, tool) ==
    Newest({s \in schemas : /\ s.ref = ref /\ s.tool = tool
                            /\ s.source \in {MODEL_REQUEST, PROVIDER_LIST}
                            /\ s.host \in W.trusted})

(* _trusted_schemas.                                                       *)
TrustedSchemas(schemas, refs, tool) ==
    {s \in schemas : /\ s.ref \in refs /\ s.tool = tool /\ s.last >= clock - SchemaWindow
                     /\ s.source = TOOLS_LIST \/ s.host \in W.trusted}

ServerName(endpoint) == W.servers[endpoint]
Named(endpoint)      == endpoint \in DOMAIN W.servers /\ ServerName(endpoint) # ""

(* _name_and_schemas, the name: an observed call at a declared server's    *)
(* endpoint is that server's tool.                                         *)
ShownTool(call) ==
    IF call.class = REQUESTED THEN call.tool
    ELSE IF Named(call.endpoint) THEN <<"mcp", ServerName(call.endpoint)>> \o call.tool
    ELSE <<"mcp@", call.endpoint>> \o call.tool

(* The endpoint declared for a model-side tool's server, none or one:      *)
(* by_server keeps one of those that share the name.                       *)
ByServer == {CHOOSE e \in DOMAIN W.servers : Named(e) /\ ServerName(e) = name :
                name \in {ServerName(e) : e \in {d \in DOMAIN W.servers : Named(d)}}}

EndpointOf(tool) ==
    {e \in ByServer : Len(tool) > 2 /\ tool[1] = "mcp" /\ ServerName(e) = tool[2]}

(* _name_and_schemas, the schemas: a server's listing and its model-side   *)
(* schemas count together.                                                 *)
ShownSchemas(schemas, refs, call) ==
    LET shown  == ShownTool(call)
        lined  == TrustedSchemas(schemas, refs, shown)
        fresh  == {s \in schemas : s.last >= clock - SchemaWindow}
        listed == IF call.class = OBSERVED
                  THEN {s \in Listings(fresh, call.endpoint) : s.tool = call.tool}
                  ELSE UNION {{s \in Listings(fresh, e) : s.tool = SubSeq(shown, 3, Len(shown))} :
                                e \in EndpointOf(shown)}
    IN {s.schema : s \in listed \cup
                         (IF call.class = OBSERVED /\ ~Named(call.endpoint) THEN {} ELSE lined)}

(* _calls_for_rule: one request's calls as the rule reads them.            *)
CallsForRule(schemas, ref, calls) ==
    LET As(call, tool, found, special) ==
            [tool |-> tool, class |-> call.class, endpoint |-> call.endpoint, wire |-> call.tool,
             classified |-> found.actions, weakRead |-> found.weakRead,
             undeclared |-> call.undeclared, unreadable |-> special]
    IN [n \in DOMAIN calls |->
          LET call == calls[n]
          IN IF call.tool \in SpecialTools
             THEN As(call, <<"mcp@", call.endpoint>>, [actions |-> {}, weakRead |-> FALSE], TRUE)
             ELSE As(call, ShownTool(call),
                     Classify(ShownTool(call), ShownSchemas(schemas, {ref}, call)), FALSE)]

(* _offered_locked: in the newest listing, whatever its age, or in any of  *)
(* the time before the call.  Broken: only what is still in the window.    *)
OfferedLately(schemas, endpoint, tool, called) ==
    LET listed == Listings(schemas, endpoint)
    IN IF listed = {} THEN "unknown"
       ELSE IF \E s \in listed : s.tool = tool /\ s.last >= called - ListingWindow
       THEN "yes" ELSE "no"

Offered(schemas, endpoint, tool, called) ==
    LET listed == Listings(schemas, endpoint)
        newest == CHOOSE t \in {s.last : s \in listed} : \A s \in listed : s.last <= t
        from   == {newest - PagesWindow, called - ListingWindow}
    IN IF listed = {} THEN "unknown"
       ELSE IF \E s \in listed : s.tool = tool /\ \E t \in from : s.last >= t
       THEN "yes" ELSE "no"
-----------------------------------------------------------------------------
(* What one capture records *)

(* _record_tool_schemas.                                                   *)
RecordToolSchemas(d, c) ==
    LET Page(found) == {f \in found : f.source = TOOLS_LIST}
        Record(found) ==
            [d EXCEPT
               !.schemas = {s \in @ : \A f \in found : [s EXCEPT !.last = clock] # f} \cup found,
               !.listings = @ \cup (IF Page(found) = {} THEN {}
                                    ELSE {[endpoint |-> c.endpoint, at |-> clock,
                                           tools |-> {f.tool : f \in Page(found)}]})]
    IN Record({[ref |-> CaptureRef(c), source |-> f.source, endpoint |-> f.endpoint,
                host |-> f.host, tool |-> f.tool, schema |-> f.schema, last |-> clock] :
                 f \in ExtractToolSchemas(c)})

Special(tool, endpoint) ==
    <<[class |-> OBSERVED, tool |-> tool, endpoint |-> endpoint, dest |-> NoDest,
       undeclared |-> {}]>>

(* _extract_calls, with what the tables know.                              *)
ExtractCalls(schemas, c) ==
    LET Tools(calls) == {calls[n].tool : n \in DOMAIN calls}
    IN ExtractToolCalls(c, [t \in Tools(c.wire)  |-> EndpointSchema(schemas, c.endpoint, t)],
                           [t \in Tools(c.reply) |-> FallbackSchema(schemas, CaptureRef(c), t)],
                        W.trusted)

(* A text without one of the substrings calls are read for is left unread, *)
(* but for a POST to a known endpoint.                                     *)
MarkedForCalls(c)        == "calls" \in c.marks
CallsRead(c, known)      == MarkedForCalls(c) \/ (c.post /\ known)
MayCarryCalls(schemas, c) == CallsRead(c, c.endpoint \in KnownMcpEndpoints(schemas))

(* _record_tool_calls, the calls: those read, and one for each thing that  *)
(* was not.                                                                *)
RecordedCalls(d, c) ==
    LET All(found) ==
            found.calls
            \o (IF found.unreadable /\ c.endpoint \in KnownMcpEndpoints(d.schemas)
                THEN Special(UNREADABLE_TOOL, c.endpoint) ELSE <<>>)
            \o (IF found.truncated THEN Special(OVERFLOW_TOOL, NoEndpoint) ELSE <<>>)
    IN IF MayCarryCalls(d.schemas, c) THEN All(ExtractCalls(d.schemas, c)) ELSE <<>>

CallKey(row) == <<row.ref, row.class, row.tool, row.endpoint, row.dest>>

(* Broken: a tool past the slack has a row of its own.                     *)
JoinedDestination(table, new) ==
    IF Cardinality({r \in table : r.ref = new.ref}) >= MAX_ROWS
    THEN [new EXCEPT !.dest = NoDest] ELSE new

(* _upsert_call, the row a call that has none joins: past the bound a new  *)
(* destination its tool's row without one, and past the slack a new tool   *)
(* the row of more calls.                                                  *)
Joined(table, new) ==
    LET rows == Cardinality({r \in table : r.ref = new.ref})
        tool == IF rows >= MAX_ROWS THEN [new EXCEPT !.dest = NoDest] ELSE new
    IN IF \/ CallKey(tool) \in {CallKey(r) : r \in table} \/ rows < MAX_ROWS + ROW_SLACK
          \/ new.tool \in SpecialTools
       THEN tool
       ELSE [new EXCEPT !.tool = OVERFLOW_TOOL, !.endpoint = NoEndpoint, !.dest = NoDest]

(* _upsert_call.                                                           *)
UpsertCall(table, ref, call) ==
    LET new  == [ref |-> ref, class |-> call.class, tool |-> call.tool,
                 endpoint |-> call.endpoint, dest |-> call.dest,
                 undeclared |-> call.undeclared, count |-> 1]
        Same(row) == {r \in table : CallKey(r) = CallKey(row)}
        Add(row)  == (table \ Same(row))
                     \cup {[row EXCEPT !.count = FoldSet(LAMBDA r, n : r.count + n, 1, Same(row)),
                                       !.undeclared = @ \cup UNION {r.undeclared : r \in Same(row)}]}
    IN Add(IF Same(new) # {} THEN new ELSE Joined(table, new))

RecordToolCalls(d, c, calls) ==
    [d EXCEPT
       !.calls = FoldLeft(LAMBDA table, call : UpsertCall(table, CaptureRef(c), call), @, calls),
       !.read  = @ \cup {[ref |-> CaptureRef(c), id |-> c.id, n |-> n, call |-> calls[n]] :
                           n \in DOMAIN calls}]

(* The mark that makes every rule unverified.                              *)
MarkCheckFailed(d)  == [d EXCEPT !.failed = {clock}, !.lost = @ \cup {clock}]
MarkedIf(failed, d) == IF failed THEN MarkCheckFailed(d) ELSE d
-----------------------------------------------------------------------------
(* Calls no listing has *)

RuleOf(a) == UNION {g.contract : g \in active[a]}   \* none or one

(* Broken: the last hit stands for the row's.                              *)
LastDetail(old, v) == v

(* _merged_detail: a row keeps that an upload came from undeclared         *)
(* arguments.                                                              *)
MergedDetail(old, v) == [v EXCEPT !.undeclared = @ \/ old.undeclared]

(* _record_violations: the same evidence is no new hit.                    *)
RecordViolations(d, a, violations) ==
    LET Old(v) == {r \in d.rows : r.agent = a /\ DataActionItem(r.v) = DataActionItem(v)}
    IN [d EXCEPT !.rows =
          (@ \ UNION {Old(v) : v \in violations})
          \cup UNION {IF Old(v) = {} THEN {[agent |-> a, v |-> v]}
                      ELSE {IF r.v.id = v.id THEN r
                            ELSE [agent |-> a, v |-> MergedDetail(r.v, v)] : r \in Old(v)} :
                        v \in violations}]

Verdict(d, p, flagged) ==
    [d EXCEPT !.verdicts = @ \cup {[endpoint |-> p.endpoint, wire |-> p.wire,
                                    called |-> p.called, known |-> {l \in d.listings :
                                    l.endpoint = p.endpoint}, flagged |-> flagged]}]

(* _judge_not_offered_locked, by today's policy and the listings known now.*)
JudgeNotOffered(d, p) ==
    LET judges == {r \in RuleOf(p.agent) : ~DataActionAllowed(r, p.tool, "not_offered")}
        hit    == [tool |-> p.tool, action |-> "not_offered", endpoint |-> p.endpoint,
                   class |-> OBSERVED, id |-> p.id, undeclared |-> FALSE]
        Judge(offered) == Verdict(IF offered = "no" THEN RecordViolations(d, p.agent, {hit}) ELSE d,
                                  p, offered = "no")
    IN IF judges = {} THEN d ELSE Judge(Offered(d.schemas, p.endpoint, p.wire, p.called))

(* Broken: a queue without a bound.                                        *)
NeverFull(pending, a) == FALSE

Queued(pending, a)    == {n \in DOMAIN pending : pending[n].agent = a}
QueueFull(pending, a) == Cardinality(Queued(pending, a)) >= MAX_PENDING

(* _queue_not_offered_locked, one call of a request, by its agent and id.  *)
QueueCall(by, call, d) ==
    LET p == [agent |-> by.agent, id |-> by.id, tool |-> call.tool, wire |-> call.wire,
              endpoint |-> call.endpoint, called |-> clock, due |-> clock + Delay]
    IN IF call.class # OBSERVED \/ call.unreadable THEN d
       ELSE IF Offered(d.schemas, call.endpoint, call.wire, clock) = "yes"
       THEN Verdict(d, p, FALSE)
       ELSE IF QueueFull(d.pending, by.agent) THEN JudgeNotOffered(d, p)
       ELSE [d EXCEPT !.pending = Append(@, p)]

QueueNotOffered(by, calls, d) ==
    FoldLeft(LAMBDA e, call : QueueCall(by, call, e), d, calls)

(* The calls whose delay has passed, the queue being in the order of the   *)
(* times due: the first of one run.                                        *)
DueNow(pending) ==
    FirstOf(SubSeq(pending, 1, Cardinality({n \in DOMAIN pending : pending[n].due <= clock})),
            RUN_LIMIT)

(* _run_not_offered_locked: a call whose judging fails is dropped, so that *)
(* it can't block the rest; a run that fails leaves the queue as it was.   *)
RunNotOffered(d, fault) ==
    LET Run(due, fails) ==
            FoldLeft(LAMBDA e, p : JudgeNotOffered(e, p),
                     MarkedIf(fails, [d EXCEPT !.pending = SubSeq(@, Len(due) + 1, Len(@))]),
                     IF fails THEN Tail(due) ELSE due)
        All(due) == Run(due, fault = "one" /\ due # <<>>)
    IN IF fault = "run" THEN MarkCheckFailed(d)
       ELSE All(DueNow(d.pending))
-----------------------------------------------------------------------------
(* Which guardrail judges a capture *)

On == {a \in W.agents : active[a] # {}}

(* request_owner, of agents: an attributed request is the one agent's it   *)
(* names; one nobody attributed is an only agent's.  (Its last branch is   *)
(* for states that normalise does not store.)                              *)
Owners(c, agents) ==
    IF c.claim = "attributed"
    THEN {a \in agents : c.key \in W.keys[a] \/ c.sandbox \in W.sandboxes[a]}
    ELSE agents

ActivatedAt(a) == (CHOOSE g \in active[a] : TRUE).at

(* _judge_request_locked, what this rule has of it.                        *)
JudgeRequest(d, a, c, calls) ==
    LET queued == IF RuleOf(a) = {} THEN d ELSE QueueNotOffered([agent |-> a, id |-> c.id], calls, d)
        hits   == UNION {EvaluateDataActions(r, calls, c.id) : r \in RuleOf(a)}
    IN [RecordViolations(queued, a, hits) EXCEPT
          !.unreadable[a] = IF c.readable THEN @ ELSE {clock},
          !.judged = @ \cup {[agent |-> a, copy |-> c, at |-> clock, under |-> active[a],
                              calls |-> calls, known |-> c.endpoint \in KnownMcpEndpoints(d.schemas)]}]

(* _check_request_locked: an old capture loaded now is no new traffic.     *)
CheckRequest(d, c, calls) ==
    LET owners == Owners(c, On)
    IN IF Cardinality(owners) > 1 THEN [d EXCEPT !.unattributed = {clock}]
       ELSE IF \A a \in owners : c.at < ActivatedAt(a) - Slack THEN d
       ELSE JudgeRequest(d, CHOOSE a \in owners : TRUE, c, calls)

(* _guardrail_on_request.                                                  *)
GuardrailOnRequest(d, c, fault, calls) ==
    IF On = {} THEN d
    ELSE IF fault = "check" THEN MarkCheckFailed(d)
    ELSE CheckRequest(d, c, calls)

(* _record_capture_tools and _guardrail_on_request, for one capture the    *)
(* token came with.                                                        *)
Checked(d, c, fault) ==
    LET judge == \E a \in On : RuleOf(a) # {}
        Check(listed, calls, unread) ==
            GuardrailOnRequest(MarkedIf(unread, RecordToolCalls(listed, c, calls)), c, fault,
                               IF judge /\ ~unread
                               THEN CallsForRule(listed.schemas, CaptureRef(c), calls) ELSE <<>>)
        Read(listed, calls) ==
            Check(listed, calls,
                  judge /\ \/ fault = "calls" /\ MayCarryCalls(listed.schemas, c)
                           \/ fault = "classify" /\ calls # <<>>)
        List(listed) == Read(listed, IF fault = "calls" THEN <<>> ELSE RecordedCalls(listed, c))
    IN List(IF fault = "schemas" \/ ~MayCarryTools(c) THEN d ELSE RecordToolSchemas(d, c))

(* One row of a batch: a duplicate is ignored, except that a copy with the *)
(* token replaces one without.                                             *)
Ingested(how, c, d) ==
    LET old    == {s \in d.stored : s.copy.id = c.id}
        stored == [d EXCEPT !.stored =
                     (@ \ old) \cup {[copy |-> c, authenticated |-> how.authenticated]}]
    IN IF \E s \in old : s.authenticated \/ ~how.authenticated THEN d
       ELSE IF how.authenticated THEN Checked(stored, c, how.fault)
       ELSE stored

Batched(batch, n, fault) ==
    LET how == [authenticated |-> batch.authenticated, fault |-> fault]
    IN FoldLeft(LAMBDA d, c : Ingested(how, c, d), db, SubSeq(batch.copies, 1, n))
-----------------------------------------------------------------------------
Init ==
    /\ world \in DOMAIN Worlds
    /\ clock = 0 /\ posts = 0 /\ turns = 0
    /\ db = [t \in Tables |-> IF t = "pending" THEN <<>>
                              ELSE IF t = "unreadable" THEN [a \in W.agents |-> {}] ELSE {}]
    /\ session = [first |-> {}, last |-> {}]
    /\ open = FALSE
    /\ active = [a \in W.agents |-> {}]
    /\ heartbeat = {} /\ refused = {}
    /\ past = [delivered |-> {}, broken |-> FALSE]

Turn(n) == turns + n <= W.turns /\ turns' = turns + n

(* A fault is one of the world's turns.                                    *)
MayFail(fault) == IF fault = "none" THEN Turn(0) ELSE fault \in W.faults /\ Turn(1)

Times(stored)  == {s.copy.at : s \in stored}
Earliest(ts)   == {t \in ts : \A u \in ts : t <= u}
Latest(ts)     == {t \in ts : \A u \in ts : u <= t}

Unauthenticated(batch) ==
    \E s \in db.stored, n \in DOMAIN batch.copies :
        ~s.authenticated /\ s.copy.id = batch.copies[n].id

(* Broken: the session keeps the time it first had.                        *)
SetOnce(old, batch, after) ==
    IF after.stored = db.stored THEN old
    ELSE [first |-> IF old.first = {} THEN Earliest(Times(after.stored)) ELSE old.first,
          last  |-> Latest(Times(after.stored))]

(* The session's times, once a batch is in.  first_seen is set once, but   *)
(* for a copy replaced by one with the token.                              *)
SeenTimes(old, batch, after) ==
    LET replaced == batch.authenticated /\ Unauthenticated(batch)
    IN IF after.stored = db.stored THEN old
       ELSE [first |-> IF old.first = {} \/ replaced THEN Earliest(Times(after.stored))
                       ELSE old.first,
             last  |-> Latest(Times(after.stored))]

(* The copies the collector has delivered, the first of each interaction.  *)
Delivered(batch, n) ==
    past.delivered
    \cup {batch.copies[k] : k \in {j \in 1..n :
            /\ batch.authenticated /\ \A c \in past.delivered : c.id # batch.copies[j].id
            /\ \A i \in 1..(j - 1) : batch.copies[i].id # batch.copies[j].id}}

Post(batch) ==
    /\ batch \in W.batches
    /\ posts < W.posts /\ clock <= W.until
    /\ posts' = posts + 1
    /\ UNCHANGED <<world, clock, active, heartbeat, refused>>

Keep(batch, fault, after) ==
    /\ db' = IF batch.authenticated THEN RunNotOffered(after, fault) ELSE after
    /\ session' = SeenTimes(session, batch, after)

(* receive_http_interactions: upsert_session commits whatever was open,    *)
(* then add_interactions.                                                  *)
Receive(batch, fault) ==
    /\ Post(batch) /\ ~batch.fails /\ MayFail(fault)
    /\ Keep(batch, fault, Batched(batch, Len(batch.copies), fault))
    /\ past' = [past EXCEPT !.delivered = Delivered(batch, Len(batch.copies))]
    /\ open' = FALSE

(* The last row can't be stored, and add_interactions raises: the rows     *)
(* before it stay in a transaction nothing ends, and the session and the   *)
(* queue are left alone.                                                   *)
ReceiveFails(batch) ==
    LET stored == Len(batch.copies) - 1
    IN /\ Post(batch) /\ batch.fails
       /\ db' = Batched(batch, stored, "none")
       /\ past' = [delivered |-> Delivered(batch, stored), broken |-> TRUE]
       /\ open' = TRUE
       /\ UNCHANGED <<turns, session>>

(* A batch of the collector's is refused before any of it is read.         *)
Refuse ==
    /\ "refuse" \in W.faults /\ Turn(1) /\ ~open
    /\ refused' = {clock}
    /\ UNCHANGED <<world, clock, posts, db, session, open, active, heartbeat, past>>

(* Broken: a heartbeat only says that the collector is there.              *)
HeartbeatAlone(fault) ==
    /\ ~open /\ MayFail(fault)
    /\ heartbeat' = {clock}
    /\ UNCHANGED <<world, clock, posts, db, session, open, active, refused, past>>

(* record_heartbeat: a write transaction, which can't begin inside another.*)
Heartbeat(fault) ==
    /\ ~open /\ MayFail(fault)
    /\ fault \in {"none", "run", "one"}
    /\ db' = RunNotOffered(db, fault)
    /\ heartbeat' = {clock}
    /\ UNCHANGED <<world, clock, posts, session, open, active, refused, past>>

Activate(a, contract) ==
    /\ ~open /\ Turn(1)
    /\ active' = [active EXCEPT ![a] = {[contract |-> contract, at |-> clock]}]
    /\ UNCHANGED <<world, clock, posts, db, session, open, heartbeat, refused, past>>

(* adopt, edit and switch: a version without the rule is {}.               *)
SetContract(a) == \E contract \in W.contracts : Activate(a, contract)

TurnOff(a) ==
    /\ ~open /\ Turn(1) /\ active[a] # {}
    /\ active' = [active EXCEPT ![a] = {}]
    /\ UNCHANGED <<world, clock, posts, db, session, open, heartbeat, refused, past>>
-----------------------------------------------------------------------------
(* The proposed rule *)

(* _owned_requests_locked, what it may be: an agent's of the newest        *)
(* requests, those of one time being read in any order.                    *)
Window == {s.copy : s \in {t \in db.stored : /\ t.authenticated
                                            /\ clock - Lookback <= t.copy.at
                                            /\ t.copy.at <= clock}}

NewestRead ==
    LET all == Window
    IN {read \in SUBSET all :
          /\ read = all \/ Cardinality(read) = PROPOSAL_MAX_REQUESTS
          /\ Cardinality(read) <= PROPOSAL_MAX_REQUESTS
          /\ \A c \in read, b \in all \ read : b.at <= c.at}

OwnedRequests(a) == {{c \in read : Owners(c, W.agents) = {a}} : read \in NewestRead}

WindowCalls(c) ==
    IF MarkedForCalls(c)
    THEN CallsForRule(db.schemas, CaptureRef(c), ExtractCalls(db.schemas, c).calls)
    ELSE <<>>

CalledTools(calls) == {k \in calls : ~k.unreadable /\ JudgedTool(k.tool)}

(* Broken: what a call sent undeclared is left out.                        *)
ClassifiedOnly(call) == IF call.classified = {} THEN {"unclassified"} ELSE call.classified

ActionsOf(call) ==
    LET all == call.classified \cup (IF call.undeclared # {} THEN {"upload"} ELSE {})
    IN IF all = {} THEN {"unclassified"} ELSE all

(* The tools some capture of the agent's lists, as calls of them would be. *)
DeclaredCalls(refs) ==
    {[class |-> REQUESTED, tool |-> s.tool, endpoint |-> NoEndpoint] :
        s \in {t \in db.schemas : t \in TrustedSchemas(db.schemas, refs, t.tool)}}
    \cup {[class |-> OBSERVED, tool |-> s.tool, endpoint |-> s.endpoint] :
            s \in {t \in db.schemas : t.source = TOOLS_LIST /\ t.ref \in refs}}

(* _data_actions_proposal_locked: every MCP tool called, with what its     *)
(* calls did, and every listed one that only reads, by its own name.       *)
DataActionsProposal(requests) ==
    LET refs == {CaptureRef(c) : c \in requests}
        Actions(calls, tool) == UNION {ActionsOf(k) : k \in {j \in calls : j.tool = tool}}
        Weak(calls) == {k.tool : k \in {j \in calls : /\ j.weakRead
                                                      /\ Actions(calls, j.tool) = {"read"}}}
        Judged(tool, declared) ==
            [tool |-> tool,
             found |-> Classify(tool, UNION {ShownSchemas(db.schemas, refs, k.call) :
                                               k \in {j \in declared : j.tool = tool}})]
        OnlyRead(found) == found.actions = {"read"} /\ ~found.weakRead
        Rule(calls, weak, judged) ==
            [rule    |-> [allowed |->
                            {[tool |-> t, actions |-> Actions(calls, t)] :
                                t \in {k.tool : k \in calls} \ weak}
                            \cup {[tool |-> j.tool, actions |-> {"read"}] :
                                     j \in {i \in judged : OnlyRead(i.found)}},
                          overrides |-> <<>>, flag |-> TRUE],
             blocked |-> weak \cup {j.tool : j \in {i \in judged : ~OnlyRead(i.found)}}]
        Listed(calls, declared) ==
            Rule(calls, Weak(calls), {Judged(t, declared) : t \in {k.tool : k \in declared}})
        Called(calls) ==
            Listed(calls, {k \in {[tool |-> ShownTool(j), call |-> j] : j \in DeclaredCalls(refs)} :
                             JudgedTool(k.tool) /\ \A j \in calls : j.tool # k.tool})
    IN Called(CalledTools(UNION {ToSet(WindowCalls(c)) : c \in requests}))

(* add_data_actions: a version without the rule takes the proposed one.    *)
AddDataActions(a) ==
    /\ active[a] # {} /\ RuleOf(a) = {}
    /\ \E requests \in OwnedRequests(a) : Activate(a, {DataActionsProposal(requests).rule})
-----------------------------------------------------------------------------
Tick ==
    /\ \E t \in W.times : t > clock /\ (\A u \in W.times : u > clock => t <= u)
                                /\ clock' = t
    /\ UNCHANGED <<world, posts, turns, db, session, open, active, heartbeat, refused, past>>

Next ==
    \/ Tick \/ Refuse
    \/ \E batch \in W.batches : ReceiveFails(batch)
    \/ \E batch \in W.batches, fault \in W.faults \cup {"none"} : Receive(batch, fault)
    \/ \E fault \in W.faults \cup {"none"} : Heartbeat(fault)
    \/ \E a \in W.agents : SetContract(a) \/ TurnOff(a) \/ AddDataActions(a)

(* Time passes, and a collector with a tap attached posts a heartbeat every*)
(* minute; its check does not fail for good.                               *)
Spec     == Init /\ [][Next]_vars
FairSpec == Spec /\ WF_vars(Tick) /\ WF_vars(Heartbeat("none"))
-----------------------------------------------------------------------------
(* _state_locked, for this rule: whether the agent's data_actions is shown *)
(* held.                                                                   *)
DataActionsHeld(a, rule) ==
    /\ heartbeat # {} /\ \A t \in heartbeat : clock - t <= HeartbeatWindow
    /\ \A t \in db.unattributed \cup db.unreadable[a] \cup refused : clock - t >= GapWindow
    /\ \A t \in db.failed : t < ActivatedAt(a)
    /\ \A row \in db.rows : row.agent = a => DataActionRowAllowed(rule, row.v)
-----------------------------------------------------------------------------
(* The types of the tables; an agent's queue keeps to its bound, and its   *)
(* rows are of its own requests.                                           *)
TypeOK ==
    /\ world \in DOMAIN Worlds /\ DOMAIN db = Tables
    /\ \A a \in W.agents : /\ Cardinality(active[a]) <= 1
                               /\ Cardinality(Queued(db.pending, a)) <= MAX_PENDING
    /\ \A p \in ToSet(db.pending) : p.due = p.called + Delay
    /\ \A row \in db.rows : \E j \in db.judged : j.agent = row.agent /\ j.copy.id = row.v.id
    /\ \A t \in {heartbeat, refused, db.failed, db.unattributed, session.first, session.last} :
          Cardinality(t) <= 1
    /\ open \in BOOLEAN /\ past.broken \in BOOLEAN

(* What was posted without the token leaves nothing once the collector's   *)
(* own copy is in: that copy is what is stored and what was judged, once,  *)
(* however often and in whatever order the batches came; and the session   *)
(* begins at a time one of its requests has, unless a batch failed midway. *)
ForgeryLeavesNothing ==
    /\ {s.copy : s \in {t \in db.stored : t.authenticated}} = past.delivered
    /\ \A s, t \in db.stored : s.copy.id = t.copy.id => s = t
    /\ {j.copy : j \in db.judged} \subseteq past.delivered
    /\ \A j, k \in db.judged : j.copy.id = k.copy.id => j = k
    /\ ~past.broken => session.first \subseteq Times(db.stored)

(* A call is flagged as not offered exactly when the endpoint had listings *)
(* and its tool was in none of the newest one's pages and in none of those *)
(* of the time before the call, whatever arrived between call and verdict. *)
NotOfferedRight ==
    \A v \in db.verdicts :
        LET newest == {l \in v.known : \A k \in v.known : k.at <= l.at}
            Counts(l) == \/ \E k \in newest : l.at >= k.at - PagesWindow
                         \/ l.at >= v.called - ListingWindow
        IN v.flagged <=> v.known # {} /\ \A l \in v.known : Counts(l) => v.wire \notin l.tools

(* The calls each request made are accounted for: as many are counted as   *)
(* were recorded, each in a row of its own tool with what it sent          *)
(* undeclared, or in the row of those past the bound; and the rows of a    *)
(* capture stay bounded.                                                   *)
CallsAccounted ==
    \A ref \in {r.ref : r \in db.read} :
        LET rows == {row \in db.calls : row.ref = ref}
            read == {r \in db.read : r.ref = ref}
        IN /\ FoldSet(LAMBDA row, n : row.count + n, 0, rows) = Cardinality(read)
           /\ \A r \in read : \E row \in rows :
                 /\ row.class = r.call.class /\ r.call.undeclared \subseteq row.undeclared
                 /\ \/ row.tool = r.call.tool /\ row.endpoint = r.call.endpoint
                    \/ row.tool = OVERFLOW_TOOL
           /\ Cardinality({row \in rows : row.tool \notin SpecialTools}) <= MAX_ROWS + ROW_SLACK

(* Whether an earlier call of the request already made the upload's row,   *)
(* which then says nothing of the later one's undeclared arguments.        *)
RowMadeBefore(j, n) ==
    \E m \in 1..(n - 1) : /\ j.calls[m].tool = j.calls[n].tool /\ j.calls[m].undeclared = {}
                          /\ \E r \in UNION {g.contract : g \in j.under} :
                                "upload" \in CallActions(r, j.calls[m])

(* How many calls an exchange makes, of an MCP server and of a model.      *)
CallsMade(c) ==
    (IF IsJsonRpc(c) THEN Len(c.wire) ELSE 0)
    + (IF IsModelRequest(c) \/ (c.body = "lost" /\ c.likeModel) THEN Len(c.reply) ELSE 0)

(* What a request did that is easily missed: undeclared arguments, of a    *)
(* call that can't be read when it is named as RailDash names those, calls *)
(* past the bound, and a POST to an MCP server nobody could read.  Of a    *)
(* request whose text has none of the substrings calls are read for, none  *)
(* is: what it called is not hidden, but never known.                      *)
HiddenActions(j) ==
    {[tool   |-> j.calls[n].tool,
      action |-> IF j.calls[n].unreadable THEN "unreadable" ELSE "upload"] :
        n \in {m \in DOMAIN j.calls : /\ j.calls[m].undeclared # {}
                                      /\ JudgedTool(j.calls[m].tool) /\ ~RowMadeBefore(j, m)}}
    \cup {[tool |-> <<"mcp@", e>>, action |-> "unreadable"] :
             e \in (IF CallsRead(j.copy, j.known) /\ CallsMade(j.copy) > MAX_CALLS
                    THEN {NoEndpoint} ELSE {})
                   \cup (IF McpPostUnreadable(j.copy) /\ j.known THEN {j.copy.endpoint} ELSE {})}

(* While data_actions is shown held, no check was lost since its version   *)
(* came into force, and nothing the version forbids stays hidden that the  *)
(* version it was judged by forbade as well: no call past a bound, no      *)
(* unreadable POST to an MCP server, no undeclared argument of a call read.*)
NothingHiddenHeld ==
    \A a \in On : \A rule \in RuleOf(a) : DataActionsHeld(a, rule) =>
        /\ \A t \in db.lost : t < ActivatedAt(a)
        /\ \A j \in {k \in db.judged : k.agent = a /\ k.at \notin db.lost} :
              \A old \in UNION {g.contract : g \in j.under}, h \in HiddenActions(j) :
                 DataActionAllowed(rule, h.tool, h.action) \/ DataActionAllowed(old, h.tool, h.action)

(* The proposed rule is made of what the agent did: of the calls read in   *)
(* the requests it is made from, but for one named as RailDash names those *)
(* it can't read, the rule flags only reads nobody but the tool's server   *)
(* vouches for, and those, like every other listed tool, are named as      *)
(* blocked.                                                                *)
ProposalCoversWindow ==
    LET Covers(p, read) ==
            /\ \A k \in read :
                  /\ \A h \in EvaluateDataActions(p.rule, k.calls, k.id) :
                        h.action = "unreadable" \/ (h.tool \in p.blocked /\ h.action = "read")
                  /\ \A call \in CalledTools(ToSet(k.calls)), e \in p.rule.allowed :
                        call.weakRead /\ e.tool = call.tool => e.actions # {"read"}
            /\ \A e \in p.rule.allowed : e.tool \notin p.blocked
    IN \A a \in On : RuleOf(a) = {} =>
          \A requests \in OwnedRequests(a) :
             Covers(DataActionsProposal(requests),
                    {[id |-> c.id, calls |-> WindowCalls(c)] : c \in requests})

CaptureIds == UNION {{c.id : c \in UNION {ToSet(b.copies) : b \in w.batches}} : w \in Range(Worlds)}

Waiting(id) == \E n \in DOMAIN db.pending : db.pending[n].id = id

(* Every queued call is judged or dropped in the end, with the collector's *)
(* heartbeats alone, unless a batch that failed keeps them from being      *)
(* written.                                                                *)
NotOfferedJudged == \A id \in CaptureIds : Waiting(id) ~> (~Waiting(id) \/ open)
=============================================================================
