------------------------------ MODULE AspRules ------------------------------
(***************************************************************************)
(* The rules judged on the newest ASP (raildash/guardrail.py): listening   *)
(* ports, written files and egress containment, with what makes an ASP's   *)
(* answer no evidence, and the roll-up of every rule's result.             *)
(*                                                                         *)
(* A path is what the rule can tell of it: its text, the text with the     *)
(* names a run mints afresh as "*" (generated_name_template), its kind,    *)
(* whether it is a bytecode cache, and whether a kernel interface.         *)
(***************************************************************************)
EXTENDS Integers, FiniteSets

CONSTANTS
    STALE_MIN, STALE_MAX,   \* bounds of the stale window, in ticks
    HEARTBEAT_WINDOW,       \* HEARTBEAT_WINDOW, in ticks
    GAP_WINDOW              \* UNATTRIBUTED_WINDOW and the windows equal to it

ASSUME WindowAssumption == /\ STALE_MIN \in Nat /\ STALE_MAX \in Nat
                           /\ STALE_MIN <= STALE_MAX
                           /\ HEARTBEAT_WINDOW \in Nat /\ GAP_WINDOW \in Nat

ContainedLevels == {"allow_list_enforced", "no_network", "internal_network"}
EgressLevels    == ContainedLevels \cup {"open", "host_network", "host_process"}

(* An attribute of a parsed ASP; items is what its value lists.            *)
Answered(items) == [status |-> "ANSWERED", items |-> items, malformed |-> FALSE]
Distance(a, b)  == IF a > b THEN a - b ELSE b - a
-----------------------------------------------------------------------------
(* Matching *)

AnyAddress == {"0.0.0.0", "::"}
NoAddress  == ""

(* listener_allowed: an entry without an address takes any.  The ephemeral *)
(* port is a value of its own and no number.                               *)
ListenerAllowed(listener, entries) ==
    \E e \in entries :
        /\ e.protocol = listener.protocol /\ e.port = listener.port
        /\ \/ e.addr \in {NoAddress, listener.addr}
           \/ {e.addr, listener.addr} \subseteq AnyAddress

(* saved_file_allowed: an entry's kinds, where it lists any, hold for its  *)
(* own paths only.                                                         *)
SavedFileAllowed(path, entries) ==
    \/ path.kernel
    \/ \E e \in entries :
          /\ CASE e.by = "literal" -> path.text = e.of
               [] e.by = "glob"    -> path.folded = e.of
               [] e.by = "cache"   -> path.bytecode
          /\ e.kinds = {} \/ path.kind \in e.kinds

BytecodeCacheEntry == [by |-> "cache", of |-> "**/__pycache__/*.pyc", kinds |-> {}]

(* saved_file_entry: exact, unless the name was minted by the run and      *)
(* keeps three letters before the star.                                    *)
SavedFileEntry(path) ==
    IF path.folded = path.text \/ path.short
    THEN [by |-> "literal", of |-> path.text, kinds |-> {}]
    ELSE [by |-> "glob", of |-> path.folded,
          kinds |-> IF path.sqlite THEN {"(none)"} ELSE {}]

EgressMeets(level, require) ==
    IF require = "allow_list_enforced" THEN level = "allow_list_enforced"
                                       ELSE level \in ContainedLevels
-----------------------------------------------------------------------------
(* Results *)

Held(violations)               == [state |-> IF violations = {} THEN "held" ELSE "violated",
                                   reason |-> "", violations |-> violations]
NotVerified(reason, violations) == [state |-> IF violations = {} THEN "unverified" ELSE "violated",
                                    reason |-> reason, violations |-> violations]
Blind(attribute) == NotVerified(attribute.status, {})

(* _attribute_rule: a violation stays real whatever the evidence's state,  *)
(* and the reason says the rule was not verified on it.  complete: nothing *)
(* the rule reads is missing from a PARTIAL answer.                        *)
AttributeRule(attribute, violations, stale, complete) ==
    IF attribute.status \notin {"ANSWERED", "PARTIAL", "ABSENT"} THEN Blind(attribute)
    ELSE LET found == IF attribute.status = "ABSENT" THEN {} ELSE violations
         IN IF attribute.status # "ABSENT" /\ attribute.malformed
            THEN NotVerified("MALFORMED_EVIDENCE", found)
            ELSE IF attribute.status = "PARTIAL" /\ ~complete
            THEN NotVerified("PARTIAL", found)
            ELSE IF stale THEN NotVerified("STALE", found)
            ELSE Held(found)

(* _listener_violations, _file_violations: one row for each item.          *)
ListenerViolations(bundle, ports) ==
    {[rule |-> "service_ports", item |-> l] :
        l \in {k \in bundle.listeners.items : ~ListenerAllowed(k, ports)}}

FileViolations(bundle, files) ==
    {[rule |-> "saved_files", item |-> f.path] :
        f \in {e \in bundle.files.items : e.write /\ ~SavedFileAllowed(e.path, files)}}

(* _egress_rule: a network nobody could inspect is missing evidence, not a *)
(* break.                                                                  *)
EgressRule(bundle, require, stale) ==
    LET level == bundle.egress.level
    IN IF bundle.egress.status = "PARTIAL" THEN NotVerified("PARTIAL", {})
       ELSE IF bundle.egress.status # "ANSWERED" THEN Blind(bundle.egress)
       ELSE IF level \notin EgressLevels THEN NotVerified("MALFORMED_EVIDENCE", {})
       ELSE LET broken == IF EgressMeets(level, require) THEN {}
                          ELSE {[rule |-> "egress_containment", item |-> level]}
            IN IF stale THEN NotVerified("STALE", broken) ELSE Held(broken)

(* asp_is_stale: past three times the gap between the last two, in bounds. *)
StaleBound(newest, previous) ==
    IF previous = {} THEN STALE_MAX
    ELSE LET gap == 3 * Distance(newest, CHOOSE p \in previous : TRUE)
         IN IF gap < STALE_MIN THEN STALE_MIN
            ELSE IF gap > STALE_MAX THEN STALE_MAX ELSE gap

AspIsStale(newest, previous, now) == Distance(now, newest) > StaleBound(newest, previous)

MultiAgent(bundle) == bundle.agents >= 2

(* contract_rules' ASP rules: containment only where a version requires it.*)
AspRuleNames(r) == {"service_ports", "saved_files"}
                     \cup (IF r.require = {} THEN {} ELSE {"egress_containment"})

(* evaluate_asp: of a sandbox two agents share only its containment can be *)
(* said.                                                                   *)
EvaluateAsp(r, bundle, stale) ==
    [rule \in AspRuleNames(r) |->
        CASE rule = "egress_containment" ->
                EgressRule(bundle, CHOOSE q \in r.require : TRUE, stale)
          [] rule # "egress_containment" /\ MultiAgent(bundle) ->
                NotVerified("MULTI_AGENT", {})
          [] rule = "service_ports" /\ ~MultiAgent(bundle) ->
                AttributeRule(bundle.listeners, ListenerViolations(bundle, r.ports), stale, FALSE)
          [] rule = "saved_files" /\ ~MultiAgent(bundle) ->
                AttributeRule(bundle.files, FileViolations(bundle, r.files), stale,
                              bundle.files.readsOnly)]

AspViolations(r, bundle) ==
    UNION {EvaluateAsp(r, bundle, FALSE)[rule].violations : rule \in AspRuleNames(r)}
-----------------------------------------------------------------------------
(* Liveness of the request rules, and the roll-up *)

Within(now, times, window) == \E t \in times : now - t < window

(* request_rules_status' reason, "" when the request rules are verified:   *)
(* an idle agent and a dead collector look the same without a heartbeat.   *)
RequestRulesReason(now, heartbeat, unattributed, unreadable, refused) ==
    IF \A t \in heartbeat : Distance(now, t) > HEARTBEAT_WINDOW THEN "NO_HEARTBEAT"
    ELSE IF Within(now, unattributed, GAP_WINDOW) THEN "UNATTRIBUTED_TRAFFIC"
    ELSE IF Within(now, unreadable, GAP_WINDOW)   THEN "TOOL_CALLS_UNREADABLE"
    ELSE IF Within(now, refused, GAP_WINDOW)      THEN "CAPTURE_REFUSED"
    ELSE ""
=============================================================================
