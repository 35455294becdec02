------------------------------ MODULE MCCaptures ------------------------------
(***************************************************************************)
(* Captures on small worlds, one for each of the ways a capture goes wrong.*)
(***************************************************************************)
EXTENDS Captures

MCVerbs == [name \in {<<"get">>} |-> {"read"}]

Mcp == "mcp.host/"    \* the endpoint of an MCP server
Llm == "llm.host"     \* the host of a model

(* A tool that reads as its name says, one its server says only reads, one *)
(* that takes one argument, and one that takes any.                        *)
Plain   == [declared |-> {"q"}, loose |-> FALSE, carries |-> FALSE, deletes |-> FALSE, modes |-> {},
            says |-> {}, readOnly |-> FALSE, destructive |-> FALSE, answer |-> {}]
Hinted  == [Plain EXCEPT !.readOnly = TRUE]
Carries == [Plain EXCEPT !.carries = TRUE]

Tool(name, schema) == [tool |-> <<name>>, schema |-> schema]
Asks(name, arguments, dest) == [tool |-> <<name>>, arguments |-> arguments, dest |-> dest]

(* A request to an MCP server, and one to a model.                         *)
Rpc(id, at) == [id |-> id, at |-> at, claim |-> "other", key |-> "k", sandbox |-> "s",
                host |-> "mcp.host", endpoint |-> Mcp, post |-> TRUE, body |-> "rpc",
                given |-> <<>>, provided |-> <<>>, asked |-> {}, answers |-> <<>>,
                wire |-> <<>>, reply |-> <<>>, likeModel |-> FALSE, readable |-> TRUE,
                marks |-> {"tools", "calls"}]
Model(id, at) == [Rpc(id, at) EXCEPT !.host = Llm, !.endpoint = Llm, !.body = "model",
                                     !.likeModel = TRUE]

Lists(c, tools) == [c EXCEPT !.asked = {1},
                             !.answers = [n \in DOMAIN tools |-> [id |-> 1, tool |-> tools[n].tool,
                                                                  schema |-> tools[n].schema]]]
Calls(c, calls) == [c EXCEPT !.wire = calls]

Mine(copies)   == [copies |-> copies, authenticated |-> TRUE, fails |-> FALSE]
Forged(copies) == [Mine(copies) EXCEPT !.authenticated = FALSE]
Broken(copies) == [Mine(copies) EXCEPT !.fails = TRUE]

Rule(allowed, overrides) == [allowed |-> allowed, overrides |-> overrides, flag |-> TRUE]
Nothing == Rule({}, <<>>)
Entry(tool, actions) == [tool |-> tool, actions |-> actions]
AtMcp(name) == <<"mcp@", Mcp, name>>

World == [agents |-> {"a"}, keys |-> [a \in {"a"} |-> {"k"}], sandboxes |-> [a \in {"a"} |-> {"s"}],
          servers |-> <<>>, trusted |-> {Llm}, batches |-> {}, contracts |-> {{Nothing}},
          faults |-> {}, posts |-> 3, turns |-> 1, times |-> {1, 3}, until |-> 1]

(* A forged copy of a request, with an earlier time and a tool list, before*)
(* and after the collector's, alone or in a batch that fails midway.       *)
One   == Calls(Rpc(1, 1), <<Asks("send", {"q"}, NoDest)>>)
Two   == Rpc(2, 1)
Fake  == Lists([Rpc(1, 0) EXCEPT !.body = "other"], <<Tool("send", Plain)>>)
Forging == [World EXCEPT !.batches = {Forged(<<Fake>>), Forged(<<Two>>), Mine(<<One, Two>>),
                                      Mine(<<Two>>), Broken(<<One, Two>>)},
                         !.contracts = {{Nothing}, {}}, !.posts = 4, !.turns = 2]

(* A call of a tool before, between and after the listings that have it and*)
(* those that do not; runs of the queue fail.                              *)
ListsIt   == Lists(Rpc(1, 0), <<Tool("send", Plain)>>)
ListsNone == Lists(Rpc(2, 0), <<Tool("get", Plain)>>)
CallsBoth == Calls(Rpc(3, 0), <<Asks("send", {}, NoDest), Asks("get", {}, NoDest)>>)
Listing == [World EXCEPT !.batches = {Mine(<<ListsIt>>), Mine(<<ListsNone>>), Mine(<<CallsBoth>>)},
                         !.faults = {"run"}, !.turns = 2, !.times = {1, 4, 6}, !.until = 4]

(* What can't be read or was not declared, under versions that allow it,   *)
(* forbid it or override what the tool does; every check may fail.  A reply*)
(* asks for its calls in blocks of a type no text is read for.             *)
TooMany  == Calls(Rpc(2, 0), <<Asks("send", {"q"}, "x"), Asks("send", {"q"}, "y"), Asks("get", {}, "z")>>)
Sneaks   == Calls(Rpc(3, 0), <<Asks("send", {"q", "note"}, NoDest)>>)
Lost     == [Rpc(4, 0) EXCEPT !.body = "lost"]
Quiet    == [Model(6, 0) EXCEPT
               !.given = <<[tool |-> AtMcp("send"), schema |-> Plain]>>,
               !.reply = [n \in 1..3 |-> [tool |-> AtMcp("send"), arguments |-> {"note"},
                                          dest |-> NoDest]],
               !.marks = {"tools"}]
Sends    == Calls(Rpc(5, 0), <<Asks("send", {"q"}, NoDest)>>)
Knows    == Lists(Rpc(1, 0), <<Tool("send", Carries), Tool("get", Plain)>>)
Lenient  == Rule({Entry(AtMcp("send"), {"read", "unclassified"}), Entry(AtMcp("get"), {"read"})},
                 AtMcp("send") :> {"read"})
Hiding == [World EXCEPT !.batches = {Mine(<<Knows>>), Mine(<<TooMany>>), Mine(<<Sneaks, Sends>>),
                                     Mine(<<Lost, Quiet>>)},
                        !.contracts = {{Nothing}, {Lenient}},
                        !.faults = {"schemas", "calls", "classify", "check"},
                        !.posts = 3, !.turns = 2, !.times = {1, 3}, !.until = 0]

(* Two agents, requests that name one, both or none of them, a batch that  *)
(* is refused and tool calls nobody could read.                            *)
Named1   == [Sends EXCEPT !.claim = "attributed", !.key = "k", !.sandbox = "t"]
Named2   == [Two EXCEPT !.claim = "attributed", !.key = "k2", !.sandbox = "s2", !.readable = FALSE]
Nobodys  == Rpc(3, 0)
Both     == [Rpc(4, 0) EXCEPT !.claim = "attributed", !.key = "k", !.sandbox = "s2"]
Sharing == [World EXCEPT !.agents = {"a", "b"},
                         !.keys = [a \in {"a", "b"} |-> IF a = "a" THEN {"k"} ELSE {"k2"}],
                         !.sandboxes = [a \in {"a", "b"} |-> IF a = "a" THEN {"s"} ELSE {"s2"}],
                         !.batches = {Mine(<<Named1, Named2>>), Mine(<<Nobodys>>), Mine(<<Both>>)},
                         !.faults = {"refuse", "one"}, !.posts = 2, !.turns = 3, !.times = {1, 3}]

(* A version without the rule, and what the agent's tools are, as a model's*)
(* request and an MCP server list them.                                    *)
Offers == [Model(1, 0) EXCEPT
             !.given = <<[tool |-> <<"mcp", "srv", "get">>, schema |-> Plain],
                         [tool |-> <<"mcp", "srv", "look">>, schema |-> Hinted]>>,
             !.reply = <<[tool |-> <<"mcp", "srv", "look">>, arguments |-> {"q"}, dest |-> NoDest],
                         [tool |-> <<"shell">>, arguments |-> {}, dest |-> NoDest]>>]
Lines  == Lists(Rpc(2, 0), <<Tool("look", Hinted), Tool("send", Carries)>>)
Looks  == Calls(Rpc(3, 1), <<Asks("look", {"note"}, NoDest), Asks("send", {}, NoDest)>>)
Unheard == Calls(Rpc(4, 1), <<Asks("other", {}, NoDest), Asks("(unreadable)", {}, NoDest)>>)
Proposing == [World EXCEPT !.servers = Mcp :> "srv", !.contracts = {{}},
                           !.batches = {Mine(<<Offers>>), Mine(<<Lines>>), Mine(<<Looks>>),
                                        Mine(<<Unheard>>)},
                           !.turns = 2, !.posts = 3]

MCWorlds == [forging |-> Forging, listing |-> Listing, hiding |-> Hiding, sharing |-> Sharing,
             proposing |-> Proposing]
=============================================================================
