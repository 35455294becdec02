---------------------------- MODULE RequestRules ----------------------------
(***************************************************************************)
(* The request rules of a Data Guardrail: what one captured request breaks,*)
(* what a stored row of it keeps, and how a later version re-checks the    *)
(* row (raildash/guardrail.py, raildash/guardrail_store.py).               *)
(*                                                                         *)
(* A tool's name is the sequence of its parts between "__": the MCP tool   *)
(* mcp__github__search is <<"mcp", "github", "search">>.  The rules of a   *)
(* version are a record: uploads (allowed_hosts), parametersOnly, deniedTools,*)
(* caps and budgets (pattern |-> KiB), agentBudget, overrides; callHosts and  *)
(* servers (out_of_spec_calls), seenHosts and seenServers (what was offered). *)
(***************************************************************************)
EXTENDS Hosts, BodyKinds

CONSTANTS MAX_ROW_BODIES,  \* distinct bodies a row keeps
          ToolText         \* tool |-> the host that is written as its name is

ASSUME RowBodiesAssumption == MAX_ROW_BODIES \in Nat \ {0}

(* Two names are two texts.                                                *)
ASSUME ToolTextAssumption ==
    \A s, t \in DOMAIN ToolText : ToolText[s] = ToolText[t] => s = t

UNKNOWN_HOST == <<"(unknown host)">>

HostItem(host) == IF host = NoHost THEN UNKNOWN_HOST ELSE host

(* An MCP server's name: the parts before the tool's own.  A name with no  *)
(* tool part has none, and keys by itself.                                 *)
McpTool(tool)        == Head(tool) = "mcp"
NoServer             == <<>>
ToolCallServer(tool) == IF Len(tool) > 2 THEN SubSeq(tool, 2, Len(tool) - 1) ELSE NoServer
McpItem(tool)        == IF Len(tool) > 2 THEN SubSeq(tool, 1, Len(tool) - 1) ELSE tool
-----------------------------------------------------------------------------
(* Does a body count as an upload? *)

(* With RAILDASH_BODY_KINDS off, hosts that were only queried may receive  *)
(* uploads again.                                                          *)
UploadHosts(r, kindsOn) ==
    r.uploads \cup (IF kindsOn THEN {} ELSE r.parametersOnly)

(* The budgets a host counts against: every calls entry it matches, else   *)
(* its own.                                                                *)
DripKeys(host, callHosts) ==
    LET entries == {p \in callHosts : HostMatches(host, p)}
    IN IF entries = {} THEN {host} ELSE entries

(* _drip_fits: every byte the check made an upload fits after all.         *)
DripFits(drip, r) ==
    /\ drip # NoDrip
    /\ drip.agent + drip.over <= r.agentBudget
    /\ \A key \in DOMAIN drip.entries :
          drip.entries[key] + drip.over <= EntryBudget(r.budgets, key)

Overridable == {STEP_OVERRIDE, STEP_SPEC, STEP_SHAPE, STEP_OTHER}

(* body_counts, body kinds being read: a version's own answer decides for  *)
(* a body steps 2 to 5 decided; one an earlier version answered is unknown *)
(* without it.                                                             *)
BodyCounts(kind, host, r) ==
    IF kind.step = STEP_DRIP THEN ~DripFits(kind.drip, r)
    ELSE LET answers == Overrides(r.overrides, host, kind.method, kind.template)
         IN IF kind.step \in Overridable /\ answers # {}
            THEN "parameters" \notin answers
            ELSE kind.step = STEP_OVERRIDE \/ kind.kind # "parameters"

(* _size_cap, over: the smallest of the caps whose pattern matches.        *)
CapsOver(r, host)       == {p \in DOMAIN r.caps : HostMatches(host, p)}
OverCap(r, host, size)  == \E p \in CapsOver(r, host) : \E n \in size : n > r.caps[p]

(* evaluate_request's reasons against a host; an empty size is unknown.    *)
(* kind is {} when body kinds are not read.                                *)
Reasons(r, host, carries, kind, size, kindsOn) ==
    LET upload == /\ carries
                  /\ \/ kind = {} \/ host = NoHost
                     \/ \E k \in kind : BodyCounts(k, host, r)
    IN (IF upload /\ ~HostAllowed(host, UploadHosts(r, kindsOn))
        THEN {"body_to_unlisted_host"} ELSE {})
       \cup (IF CapsOver(r, host) # {} /\ size = {} /\ carries
             THEN {"request_size_unknown"} ELSE {})
       \cup (IF OverCap(r, host, size) THEN {"request_size_over_cap"} ELSE {})

(* An uploads row's host detail, from one hit.                             *)
HostDetail(reasons, carries, kind, size) ==
    [form |-> "host", reasons |-> reasons, carries |-> carries, size |-> size,
     bodies |-> kind, overflow |-> FALSE]

(* An item is a text: a host's, or a tool's name written as one.           *)
Violation(rule, item, detail) == [rule |-> rule, item |-> item, detail |-> detail]

(* evaluate_request: what a request breaks under the rules r, its body     *)
(* judged to be of the given kind.  Built-in tools aren't judged; every    *)
(* tool of one server is one item.                                         *)
EvaluateRequest(r, request, kind, kindsOn) ==
    LET carries == CarriesBody(request.body)
        reasons == Reasons(r, request.host, carries, kind, request.size, kindsOn)
        unlisted == {t \in request.tools :
                        /\ McpTool(t)
                        /\ ToolCallServer(t) \notin (r.servers \ {NoServer})}
    IN (IF reasons = {} THEN {}
        ELSE {Violation("uploads", HostItem(request.host),
                        HostDetail(reasons, carries, kind, request.size))})
       \cup {Violation("uploads", ToolText[t], [form |-> "tool_call"]) :
                t \in request.tools \cap r.deniedTools}
       \cup (IF HostAllowed(request.host, r.callHosts) THEN {}
             ELSE {Violation("out_of_spec_calls", HostItem(request.host),
                             [form |-> "host"])})
       \cup {Violation("out_of_spec_calls", ToolText[McpItem(t)],
                       [form |-> "mcp_server", server |-> ToolCallServer(t)]) :
                t \in unlisted}
-----------------------------------------------------------------------------
(* What a row keeps of its hits *)

(* merge_row_bodies tells bodies apart by these.                           *)
BodyKey(k) == <<k.kind, k.source, k.step, k.method, k.template>>

(* _merged_drip: the largest sums, and every byte of both.                 *)
MergedDrip(old, new) ==
    [entries |-> [key \in DOMAIN old.entries \cup DOMAIN new.entries |->
                    Max((IF key \in DOMAIN old.entries THEN {old.entries[key]} ELSE {})
                        \cup (IF key \in DOMAIN new.entries THEN {new.entries[key]} ELSE {}))],
     agent   |-> Max({old.agent, new.agent}),
     kib     |-> Max({old.kib, new.kib}),
     over    |-> old.over + new.over]

(* One body of a row and the same body of a repeat.                        *)
MergedBody(k, new) ==
    LET same == {n \in new : BodyKey(n) = BodyKey(k)}
    IN IF k.step = STEP_DRIP /\ same # {}
       THEN [k EXCEPT !.drip = MergedDrip(k.drip, (CHOOSE n \in same : TRUE).drip)]
       ELSE k

(* A hit that carried a body of no kind reads as an upload: no list is     *)
(* kept.  So does a row past the cap on bodies.                            *)
KindsUnread(detail) == detail.carries /\ detail.bodies = {}

(* Broken: the last hit's bodies stand for the row's.                      *)
LastBodies(old, new) == [bodies |-> new.bodies, overflow |-> new.overflow]

(* merge_row_bodies.                                                       *)
MergeRowBodies(old, new) ==
    LET added == {n \in new.bodies : \A k \in old.bodies : BodyKey(k) # BodyKey(n)}
        room  == MAX_ROW_BODIES - Cardinality(old.bodies)
    IN IF KindsUnread(old) \/ KindsUnread(new)
       THEN [bodies |-> {}, overflow |-> FALSE]
       ELSE [bodies |-> {MergedBody(k, new.bodies) : k \in old.bodies}
                          \cup (IF Cardinality(added) <= room THEN added ELSE {}),
             overflow |-> old.overflow \/ new.overflow \/ Cardinality(added) > room]

(* _merged_detail: an uploads row of a host keeps the worst request; any   *)
(* other row is what it was hit by last.                                   *)
MergedDetail(old, new) ==
    IF new.form # "host" \/ old.form # "host" \/ "size" \notin DOMAIN new
    THEN new
    ELSE LET merged  == MergeRowBodies(old, new)
             unknown == \E d \in {old, new} : d.carries /\ d.size = {}
             sizes   == old.size \cup new.size
         IN [form     |-> "host",
             reasons  |-> old.reasons \cup new.reasons,
             carries  |-> old.carries \/ new.carries,
             size     |-> IF unknown \/ sizes = {} THEN {} ELSE {Max(sizes)},
             bodies   |-> merged.bodies,
             overflow |-> merged.overflow]
-----------------------------------------------------------------------------
(* Re-checking a row under a version *)

(* _row_uploads: whether the row's bodies count as an upload.              *)
RowUploads(detail, host, r, kindsOn) ==
    \/ ~kindsOn \/ detail.overflow \/ detail.bodies = {}
    \/ \E k \in detail.bodies : BodyCounts(k, host, r)

(* item_allowed: a row's item under the rules r, from what its requests    *)
(* were and not from the reasons they were flagged for.                    *)
ItemAllowed(r, row, kindsOn) ==
    CASE row.detail.form = "tool_call"  -> \A t \in r.deniedTools : ToolText[t] # row.item
      [] row.detail.form = "mcp_server" -> row.detail.server \in (r.servers \ {NoServer})
      [] row.detail.form = "host" /\ row.item = UNKNOWN_HOST -> FALSE
      [] row.detail.form = "host" /\ row.item # UNKNOWN_HOST
            /\ row.rule = "out_of_spec_calls" -> HostAllowed(row.item, r.callHosts)
      [] row.detail.form = "host" /\ row.item # UNKNOWN_HOST /\ row.rule = "uploads" ->
           /\ \/ ~row.detail.carries
              \/ ~RowUploads(row.detail, row.item, r, kindsOn)
              \/ HostAllowed(row.item, UploadHosts(r, kindsOn))
           /\ ~OverCap(r, row.item, row.detail.size)
           /\ ~(row.detail.carries /\ row.detail.size = {} /\ CapsOver(r, row.item) # {})
-----------------------------------------------------------------------------
(* Allow this *)

(* with_item_allowed refuses: a request with no host, a host with a star,  *)
(* a tool name with no server, and an upload over the host's size cap.     *)
WithItemAllowed(r, row) ==
    CASE row.detail.form = "tool_call" ->
            [r EXCEPT !.deniedTools = {t \in @ : ToolText[t] # row.item}]
      [] row.detail.form = "mcp_server" ->
            [r EXCEPT !.servers = @ \cup {row.detail.server}]
      [] row.detail.form = "host" /\ row.rule = "out_of_spec_calls" ->
            [r EXCEPT !.callHosts =
                IF HostAllowed(row.item, @) THEN @ ELSE @ \cup {row.item}]
      [] row.detail.form = "host" /\ row.rule = "uploads" ->
            [r EXCEPT !.uploads =
                IF HostAllowed(row.item, @) THEN @ ELSE @ \cup {row.item},
                      !.parametersOnly = @ \ {row.item}]

(* Broken: a size cap does not stand in Allow this's way.                  *)
ListedOnly(r, row, kindsOn) ==
    CASE row.detail.form = "tool_call"  -> TRUE
      [] row.detail.form = "mcp_server" -> row.detail.server # NoServer
      [] row.detail.form = "host"       -> row.item # UNKNOWN_HOST /\ IsHostPattern(row.item)

(* _allowed_by_one_click: what Allow this accepts.  A host written with a  *)
(* star, or that the contract can't list, is refused.                      *)
OneClick(r, row, kindsOn) ==
    CASE row.detail.form = "tool_call"  -> TRUE
      [] row.detail.form = "mcp_server" -> row.detail.server # NoServer
      [] row.detail.form = "host" ->
            /\ row.item # UNKNOWN_HOST
            /\ ~Wild(row.item) /\ IsHostPattern(row.item)
            /\ row.rule = "uploads" => ItemAllowed(WithItemAllowed(r, row), row, kindsOn)
=============================================================================
