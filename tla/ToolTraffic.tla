----------------------------- MODULE ToolTraffic -----------------------------
(***************************************************************************)
(* The tool schemas and tool calls of one captured exchange                *)
(* (raildash/tool_schemas.py, raildash/tool_calls.py).                     *)
(*                                                                         *)
(* A tool's name is the sequence of its parts between "__":                *)
(* mcp__github__push is <<"mcp", "github", "push">>, and on the wire an    *)
(* MCP server knows it as <<"push">>.  A copy of an exchange says what can *)
(* be read of it:                                                          *)
(*   body      what the request's body is: "model" (a model request),      *)
(*             "rpc" (JSON-RPC), "dressed" (both), "lost" (cut or missing) *)
(*             or "other"; post: whether it is a POST                      *)
(*   given     the tools a model request offers, in order; provided: the   *)
(*             ones its reply lists for a provider's own MCP servers       *)
(*   asked     the ids of its tools/list messages; answers: the tools the  *)
(*             reply lists, each under the id it answers                   *)
(*   wire      its tools/call messages; reply: the calls its reply asks for*)
(*   likeModel whether the reply has a model's shape                       *)
(*   marks     which substrings its stored text holds: "tools" (one a tool *)
(*             list is read for), "calls" (one tool calls are read for)    *)
(* A call has its tool, the names of its arguments and a destination.      *)
(***************************************************************************)
EXTENDS Naturals, FiniteSets, Sequences, SequencesExt

CONSTANTS
    MAX_TOOLS,   \* tools read of one source of one exchange
    MAX_CALLS    \* calls read of one exchange

ASSUME TrafficBoundsAssumption == MAX_TOOLS \in Nat \ {0} /\ MAX_CALLS \in Nat \ {0}

NoEndpoint == "(no endpoint)"

FirstOf(seq, most) == IF Len(seq) > most THEN SubSeq(seq, 1, most) ELSE seq

IsModelRequest(c) == c.body \in {"model", "dressed"}
IsJsonRpc(c)      == c.body \in {"rpc", "dressed"}
-----------------------------------------------------------------------------
(* Tool schemas *)

MODEL_REQUEST  == "model_request"
PROVIDER_LIST  == "provider_mcp_list"
TOOLS_LIST     == "mcp_tools_list"

Found(c, source, endpoint, tools) ==
    {[source |-> source, endpoint |-> endpoint, host |-> c.host,
      tool |-> t.tool, schema |-> t.schema] : t \in ToSet(FirstOf(tools, MAX_TOOLS))}

(* may_carry_tools.                                                        *)
MayCarryTools(c) == "tools" \in c.marks

(* An answer to tools/list is known by the id of the request it answers.   *)
ListingAnswers(c) == SelectSeq(c.answers, LAMBDA a : a.id \in c.asked)

(* extract_tool_schemas: each source keeps the first tools it lists.       *)
ExtractToolSchemas(c) ==
    (IF IsModelRequest(c)
     THEN Found(c, MODEL_REQUEST, NoEndpoint, c.given)
            \cup Found(c, PROVIDER_LIST, NoEndpoint, c.provided)
     ELSE {})
    \cup Found(c, TOOLS_LIST, c.endpoint, ListingAnswers(c))
-----------------------------------------------------------------------------
(* Tool calls *)

OBSERVED  == "observed"
REQUESTED == "requested"

(* undeclared_arguments, schema being none or one: a loose schema flags    *)
(* none, since its tool is an upload as it is.                             *)
UndeclaredArguments(arguments, schema) ==
    UNION {IF s.loose THEN {} ELSE arguments \ s.declared : s \in schema}

Call(class, call, endpoint, schema) ==
    [class |-> class, tool |-> call.tool, endpoint |-> endpoint, dest |-> call.dest,
     undeclared |-> UndeclaredArguments(call.arguments, schema)]

(* The schema the model was given in the same request; a tool two sources  *)
(* list keeps the one read last.                                           *)
GivenSchema(c, tool) ==
    LET LastOf(listed) == IF listed = <<>> THEN {} ELSE {Last(listed).schema}
    IN LastOf(SelectSeq(FirstOf(c.given, MAX_TOOLS) \o FirstOf(c.provided, MAX_TOOLS),
                        LAMBDA t : t.tool = tool))

(* The calls of an MCP request; endpointSchema is what the endpoint lists, *)
(* tool |-> none or one schema.                                            *)
Observed(c, endpointSchema) ==
    IF IsJsonRpc(c)
    THEN [n \in DOMAIN c.wire |->
            Call(OBSERVED, c.wire[n], c.endpoint, endpointSchema[c.wire[n].tool])]
    ELSE <<>>

(* The calls a model's reply asks for.  A request that could not be read,  *)
(* or that went to a host nobody trusts, is checked against the newest     *)
(* schema known, fallback, instead.                                        *)
Requested(c, fallback, trusted) ==
    IF IsModelRequest(c) \/ (c.body = "lost" /\ c.likeModel)
    THEN [n \in DOMAIN c.reply |->
            Call(REQUESTED, c.reply[n], NoEndpoint,
                 IF IsModelRequest(c) /\ c.host \in trusted
                 THEN GivenSchema(c, c.reply[n].tool)
                 ELSE fallback[c.reply[n].tool])]
    ELSE <<>>

(* A POST whose body is neither JSON-RPC nor a model's: reported whatever  *)
(* its reply looks like.                                                   *)
McpPostUnreadable(c) == c.post /\ c.body \in {"lost", "other"}

(* extract_tool_calls.                                                     *)
ExtractToolCalls(c, endpointSchema, fallback, trusted) ==
    LET Read(all) == [calls |-> FirstOf(all, MAX_CALLS), truncated |-> Len(all) > MAX_CALLS,
                      unreadable |-> McpPostUnreadable(c)]
    IN Read(Observed(c, endpointSchema) \o Requested(c, fallback, trusted))
=============================================================================
