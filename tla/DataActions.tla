----------------------------- MODULE DataActions -----------------------------
(***************************************************************************)
(* What a tool does with data, as RailDash tells it from the tool's name   *)
(* and schemas (raildash/data_actions.py), and the data_actions rule of a  *)
(* Data Guardrail (raildash/guardrail.py).                                 *)
(*                                                                         *)
(* A schema is what the classifier reads of it: declared (the arguments it *)
(* names), loose (it takes arbitrary ones), carries (one carries data),    *)
(* deletes (a flag named for deleting), modes (the actions each value of a *)
(* mode argument names), says (the verbs of its description), readOnly and *)
(* destructive (its server's hints), answer (the opt-in model's actions).  *)
(* A rule is allowed (a set of [tool, actions]), overrides (tool |->       *)
(* actions) and flag (whether an unclassified tool is flagged).            *)
(***************************************************************************)
EXTENDS ToolTraffic

CONSTANT VERBS   \* a tool's own name, in parts |-> the actions its verbs name

DATA_ACTION_KINDS == {"read", "upload", "update", "delete", "execute"}

ASSUME VerbsAssumption == \A name \in DOMAIN VERBS : VERBS[name] \subseteq DATA_ACTION_KINDS
-----------------------------------------------------------------------------
(* Classification *)

(* tool_part: a name without the prefix that says whose tool it is; a tool *)
(* named upload__blob keeps its verb.                                      *)
Prefixed(tool) == tool[1] \in {"mcp", "mcp@", "provider-mcp"}
ToolPart(tool) == IF Prefixed(tool) /\ Len(tool) > 2 THEN SubSeq(tool, 3, Len(tool)) ELSE tool

ToolVerbs(tool) == IF ToolPart(tool) \in DOMAIN VERBS THEN VERBS[ToolPart(tool)] ELSE {}

(* _schema_signals: the actions the name, or else the description, and the *)
(* arguments give.  A tool whose name only reads takes a delete-named flag *)
(* as a filter.                                                            *)
RuleActions(tool, s) ==
    (IF ToolVerbs(tool) = {} THEN s.says ELSE ToolVerbs(tool))
    \cup (IF s.carries \/ s.loose THEN {"upload"} ELSE {})
    \cup (IF s.deletes /\ ToolVerbs(tool) # {"read"} THEN {"delete"} ELSE {})
    \cup UNION s.modes

(* Only a name, or a mode's value, makes a read strong.                    *)
StrongRead(tool, s) == "read" \in ToolVerbs(tool) \cup UNION s.modes
WeakensRead(s)      == s.destructive \/ {} \in s.modes

(* classify, without the user's override: the union over every schema.  A  *)
(* hint's read counts only where nothing else does, and the model is asked *)
(* only then.                                                              *)
Classify(tool, schemas) ==
    LET Means(actions) == [actions  |-> actions,
                           weakRead |-> /\ "read" \in actions
                                        /\ \/ \E s \in schemas : WeakensRead(s)
                                           \/ \A s \in schemas : ~StrongRead(tool, s)]
        Together(ruled) ==
            IF \E r \in ruled : r.actions # {} THEN UNION {r.actions : r \in ruled}
            ELSE IF \E r \in ruled : r.by.readOnly THEN {"read"}
            ELSE UNION {s.answer : s \in schemas}
    IN Means(Together({[by |-> s, actions |-> RuleActions(tool, s)] : s \in schemas}))
-----------------------------------------------------------------------------
(* The rule *)

(* tool_glob_matches: patterns are names, or the first parts of one before *)
(* a star.                                                                 *)
ToolGlobMatches(pattern, tool) ==
    \/ pattern = tool
    \/ /\ pattern[Len(pattern)] = "*" /\ Len(tool) >= Len(pattern)
       /\ IsPrefix(Front(pattern), tool)

JudgedTool(tool) == Prefixed(tool)

DataActionAllowed(rule, tool, action) ==
    \/ action = "unclassified" /\ ~rule.flag
    \/ \E e \in rule.allowed : action \in e.actions /\ ToolGlobMatches(e.tool, tool)

(* data_action_row_allowed: an override clears what the schema gave, never *)
(* an upload the call's own undeclared arguments made.                     *)
DataActionRowAllowed(rule, row) ==
    \/ DataActionAllowed(rule, row.tool, row.action)
    \/ /\ row.tool \in DOMAIN rule.overrides
       /\ LET chosen == rule.overrides[row.tool]
              own    == row.undeclared /\ row.action = "upload"
          IN IF row.action = "unclassified" THEN chosen # {}
             ELSE row.action \in DATA_ACTION_KINDS \ chosen /\ ~own

(* What one call does under a rule.                                        *)
CallActions(rule, call) ==
    IF call.unreadable THEN {"unreadable"}
    ELSE IF ~JudgedTool(call.tool) THEN {}
    ELSE LET classified == IF call.tool \in DOMAIN rule.overrides
                           THEN rule.overrides[call.tool] ELSE call.classified
             all == classified \cup (IF call.undeclared # {} THEN {"upload"} ELSE {})
         IN IF all = {} THEN {"unclassified"} ELSE all

(* data_action_item: a row's key.                                          *)
DataActionItem(v) ==
    [tool     |-> IF v.action = "unreadable" THEN <<>> ELSE v.tool,
     endpoint |-> IF v.action \in {"unreadable", "not_offered"} THEN v.endpoint ELSE NoEndpoint,
     action   |-> v.action]

(* evaluate_data_actions: one violation for an item, its first call's,     *)
(* observed if any of its calls was.                                       *)
EvaluateDataActions(rule, calls, id) ==
    LET Hit(n, action) ==
            [tool |-> calls[n].tool, action |-> action, endpoint |-> calls[n].endpoint,
             class |-> calls[n].class, id |-> id,
             undeclared |-> action = "upload" /\ calls[n].undeclared # {}]
        Same(hits, h) == {k \in hits : DataActionItem(k.v) = DataActionItem(h.v)}
        First(hits) ==
            {[h.v EXCEPT !.class = IF \E k \in Same(hits, h) : k.v.class = OBSERVED
                                   THEN OBSERVED ELSE @] :
                h \in {k \in hits : \A j \in Same(hits, k) : k.n <= j.n}}
    IN First({h \in UNION {{[n |-> n, v |-> Hit(n, a)] : a \in CallActions(rule, calls[n])} :
                              n \in DOMAIN calls} :
                  ~DataActionAllowed(rule, h.v.tool, h.v.action)})
=============================================================================
